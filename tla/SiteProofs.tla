----------------------------- MODULE SiteProofs -----------------------------
(***************************************************************************)
(* Proofs about Site, for every nesting of networks, every set of documents *)
(* and assets, whatever they refer to, any number of runs and edits: what a *)
(* finished site says of the repository.                                    *)
(***************************************************************************)
EXTENDS Site, TLAPS

Known(s, x) == s[x] /= Absent
Listing == SUBSET ((Docs \cup Subs) \X Titles)

(***************************************************************************)
(* The type of every variable; documents may be gone, networks and assets   *)
(* are not.                                                                 *)
(***************************************************************************)
DiskTyped ==
    /\ disk \in [Sources -> Values \cup {Absent}]
    /\ \A p \in Nets : disk[p] \in Titles
    /\ \A p \in Docs : disk[p] \in Titles \cup {Absent}
    /\ \A a \in Assets : disk[a] \in Contents

SaysTyped(s) ==
    /\ s \in [Sources -> Values \cup {Absent}]
    /\ \A p \in Pages : s[p] \in Titles \cup {Absent}
    /\ \A a \in Assets : s[a] \in Contents \cup {Absent}

CompilerTyped ==
    /\ queue \subseteq Sources /\ again \subseteq Pages
    /\ SaysTyped(session) /\ SaysTyped(base)
    /\ deferred \subseteq Nets

OutputTyped ==
    /\ pages \in [Pages -> [title : Values, live : SUBSET Pages] \cup {Absent}]
    /\ listings \in [Nets -> Listing \cup {Absent, Sentinel}]
    /\ static \in [Contents -> Contents \cup {Absent}]
    /\ linked \in [Assets -> Contents \cup {Absent}]

Types ==
    /\ mode \in {"build", "watch"}
    /\ phase \in {"parse", "drain", "listings", "assets", "idle"}
    /\ DiskTyped /\ CompilerTyped /\ OutputTyped

(***************************************************************************)
(* Before the repository's network is parsed nothing is.  From then on the  *)
(* session has every asset of the base: the first parse loads them, and the *)
(* base hears of others from the session.                                   *)
(***************************************************************************)
SessionInv ==
    /\ ~Known(session, Root) => session = Nothing /\ news = {} /\ Root \in queue /\ phase = "parse"
    /\ \A x \in news : x \in Sources /\ Known(session, x)
    /\ Known(session, Root) => \A a \in Assets : Known(base, a) => Known(session, a)
    /\ phase = "assets" => todo \subseteq Assets /\ \A a \in todo : Known(session, a)
    /\ phase /= "parse" => queue = {} /\ again = {}

(***************************************************************************)
(* Assets: what was read is what the file has, and what the base has or will *)
(* hear of; what was copied in this finalization is filed under its own     *)
(* hash, and of a build's assets those not to do are linked to it.          *)
(***************************************************************************)
AssetInv ==
    /\ \A a \in Assets \cap processed : Known(session, a) /\ (quiet => session[a] = disk[a])
    /\ phase /= "parse" => \A a \in Assets : Known(session, a) => a \in processed
    /\ Known(session, Root) => \A a \in Assets : a \in news \/ base[a] = session[a]
    /\ settled /\ phase \in {"listings", "assets", "idle"} => news = {}
    /\ mode = "build" /\ phase \in {"assets", "idle"} =>
          \A a \in Assets : Known(base, a) =>
              \/ phase = "assets" /\ a \in todo
              \/ linked[a] = session[a] /\ session[a] \in copied
    /\ quiet /\ phase \in {"assets", "idle"} =>
          \A h \in copied : h \in Contents /\ static[h] = h

(***************************************************************************)
(* Listings: the networks kept for phase 2 are those parsed, the base knows *)
(* them or will, and those not to do have their listing.                    *)
(***************************************************************************)
ListingInv ==
    /\ \A n \in Nets : Known(session, n) => n \in deferred
    /\ \A n \in deferred : Known(session, n) /\ (n \in news \/ Known(base, n))
    /\ settled /\ phase /= "parse" =>
          \A n \in deferred : \/ n \in todo /\ phase \in {"drain", "listings"}
                              \/ listings[n] /= Sentinel

(***************************************************************************)
(* A build: the base gets everything at once, from an empty one, and the    *)
(* output of phase 2 is what that base says.                                *)
(***************************************************************************)
BuildBase ==
    /\ phase \in {"parse", "drain"} => base = Nothing /\ \A x \in Sources : Known(session, x) => x \in news
    /\ phase \notin {"parse", "drain"} => base = session

BuildOutput ==
    /\ phase \in {"drain", "listings"} => todo \subseteq deferred
    /\ phase = "drain" => todo = deferred
    /\ \A n \in deferred :
          listings[n] = IF phase \in {"parse", "drain"} \/ (phase = "listings" /\ n \in todo)
                        THEN Sentinel ELSE Children(n)
    /\ phase \in {"assets", "idle"} => sitemap = Reached

BuildPages ==
    \A x \in Pages : Known(session, x) => Known(pages, x) /\ pages[x].title = session[x]

BuildInv == mode = "build" => BuildBase /\ BuildOutput /\ BuildPages

(***************************************************************************)
(* A build nobody edited under: the files of a parsed network are parsed or *)
(* in the queue, and a page without one of its links is written again.      *)
(***************************************************************************)
QuietInv ==
    mode = "build" /\ quiet =>
        /\ \A x \in Pages : session[x] \in {Absent, disk[x]}
        /\ \A x \in Pages \cap processed : Known(disk, x) => Known(session, x)
        /\ \A x \in Docs \cup Subs :
              Home[x] \in deferred /\ Known(disk, x) => x \in queue \/ Known(session, x)
        /\ \A d \in Docs : \A x \in Refs[d] \cap Pages :
              Known(session, d) /\ Known(disk, x) => x \in pages[d].live \/ d \in again

SiteInv == Types /\ SessionInv /\ AssetInv /\ ListingInv /\ BuildInv /\ QuietInv

-----------------------------------------------------------------------------
(***************************************************************************)
(* What parsing says.                                                       *)
(***************************************************************************)
LEMMA Apart ==
    /\ Root \in Nets /\ Nets \subseteq Pages /\ Docs \subseteq Pages
    /\ Pages \subseteq Sources /\ Assets \subseteq Sources
    /\ \A x \in Sources : x \in Pages \/ x \in Assets
    /\ \A x \in Pages : x \notin Assets /\ (x \in Nets \/ x \in Docs)
    /\ \A x \in Docs : x \notin Nets
    /\ Absent \notin Titles /\ Absent \notin Contents
    BY SiteAssumption DEF Nets, Pages, Sources, Values

\* A session that has seen nothing.
LEMMA NothingTyped == SaysTyped(Nothing) /\ \A x \in Sources : ~Known(Nothing, x)
    BY Apart DEF SaysTyped, Nothing, Known

\* The assets of the base fill in for those the session has not seen.
LEMMA AssetsOfBaseIs ==
    ASSUME SaysTyped(session), SaysTyped(base)
    PROVE  /\ SaysTyped(AssetsOfBase(session))
           /\ \A x \in Pages : AssetsOfBase(session)[x] = session[x]
           /\ \A a \in Assets : Known(session, a) => AssetsOfBase(session)[a] = session[a]
           /\ \A a \in Assets : AssetsOfBase(session)[a] \in {session[a], base[a]}
           /\ (\A a \in Assets : ~Known(session, a)) =>
                 \A a \in Assets : AssetsOfBase(session)[a] = base[a]
    <1>1. CASE \E a \in Assets : session[a] /= Absent
        BY <1>1 DEF AssetsOfBase, Known
    <1>2. CASE ~\E a \in Assets : session[a] /= Absent
        <2>1. AssetsOfBase(session) = [x \in Sources |-> IF x \in Assets THEN base[x] ELSE session[x]]
            BY <1>2 DEF AssetsOfBase
        <2> QED BY <1>2, <2>1, Apart DEF SaysTyped, Known
    <1> QED BY <1>1, <1>2

\* What the session says after a page was parsed.
LEMMA ParsedSays ==
    ASSUME Types, SessionInv, NEW p \in Pages, Known(disk, p),
           session' = [AssetsOfBase(session) EXCEPT ![p] = disk[p]]
    PROVE  /\ SaysTyped(session')
           /\ session'[p] = disk[p] /\ Known(session', p)
           /\ \A x \in Pages : x /= p => session'[x] = session[x]
           /\ \A a \in Assets : Known(session, a) => session'[a] = session[a]
           /\ \A a \in Assets : session'[a] \in {session[a], base[a]}
           /\ \A a \in Assets : Known(base, a) => Known(session', a)
           /\ \A x \in Sources : Known(session, x) => Known(session', x)
    <1> DEFINE s == AssetsOfBase(session)
    <1>1. SaysTyped(session) /\ SaysTyped(base)
        BY DEF Types, CompilerTyped
    <1>2. /\ SaysTyped(s)
          /\ \A x \in Pages : s[x] = session[x]
          /\ \A a \in Assets : Known(session, a) => s[a] = session[a]
          /\ \A a \in Assets : s[a] \in {session[a], base[a]}
          /\ (\A a \in Assets : ~Known(session, a)) => \A a \in Assets : s[a] = base[a]
        BY <1>1, AssetsOfBaseIs
    <1>3. \A a \in Assets : Known(base, a) => Known(s, a)
        <2>1. CASE Known(session, Root)
            BY <1>2, <2>1 DEF SessionInv, Known
        <2>2. CASE ~Known(session, Root)
            <3>1. \A a \in Assets : ~Known(session, a)
                BY <2>2, NothingTyped, Apart DEF SessionInv
            <3> QED BY <1>2, <3>1 DEF Known
        <2> QED BY <2>1, <2>2
    <1> HIDE DEF s
    <1>4. /\ session'[p] = disk[p] /\ \A x \in Sources : x /= p => session'[x] = s[x]
          /\ disk[p] \in Titles
          /\ session' \in [Sources -> Values \cup {Absent}]
        BY <1>2, Apart DEF s, SaysTyped, Types, DiskTyped, Known, Values
    <1>5. \A a \in Assets : a /= p /\ a \in Sources
        BY Apart
    <1>6. SaysTyped(session')
        BY <1>2, <1>4, <1>5, Apart DEF SaysTyped
    <1> QED BY <1>2, <1>3, <1>4, <1>5, <1>6, Apart DEF Known

\* The base has, or will hear of, what the session then says of assets.
LEMMA ParsedAssets ==
    ASSUME SiteInv, NEW p \in Pages, Known(disk, p),
           session' = [AssetsOfBase(session) EXCEPT ![p] = disk[p]]
    PROVE  \A a \in Assets : a \in news \/ base[a] = session'[a]
    <1>1. \A a \in Assets : /\ session'[a] \in {session[a], base[a]}
                            /\ Known(base, a) => Known(session', a)
        BY ParsedSays DEF SiteInv
    <1>2. CASE Known(session, Root)
        BY <1>1, <1>2 DEF SiteInv, AssetInv
    <1>3. CASE ~Known(session, Root)
        <2>1. \A a \in Assets : ~Known(session, a)
            BY <1>3, NothingTyped, Apart DEF SiteInv, SessionInv
        <2> QED BY <1>1, <2>1 DEF Known
    <1> QED BY <1>2, <1>3

-----------------------------------------------------------------------------
(***************************************************************************)
(* Every action keeps the invariant.                                        *)
(***************************************************************************)
LEMMA ParseNetworkKeeps ==
    ASSUME SiteInv, NEW n \in Nets, ParseNetwork(n)
    PROVE  SiteInv'
    <1> USE DEF SiteInv
    <1>1. /\ n \in Pages /\ n \in Sources /\ disk[n] \in Titles /\ Known(disk, n)
        BY Apart DEF Types, DiskTyped, Known
    <1>2. /\ phase = "parse" /\ (n = Root \/ Known(session, Root))
          /\ session' = [AssetsOfBase(session) EXCEPT ![n] = disk[n]]
          /\ news' = news \cup {n} /\ deferred' = deferred \cup {n}
          /\ processed' = processed \cup {n}
          /\ pages' = [pages EXCEPT ![n] = PageOfNetwork(disk[n])]
          /\ listings' = [listings EXCEPT ![n] = Sentinel]
          /\ UNCHANGED <<mode, phase, disk, quiet, base, todo, copied, sitemap, static, linked, settled>>
        BY DEF ParseNetwork, Turn, Known, repository
    <1>3. /\ queue' = (queue \ {n}) \cup (NewFiles(n) \ processed)
          /\ again' = Waits(n, NewFiles(n) \ processed)
        BY DEF ParseNetwork
    <1>4. /\ SaysTyped(session') /\ session'[n] = disk[n] /\ Known(session', n)
          /\ \A x \in Pages : x /= n => session'[x] = session[x]
          /\ \A a \in Assets : Known(session, a) => session'[a] = session[a]
          /\ \A a \in Assets : session'[a] \in {session[a], base[a]}
          /\ \A a \in Assets : Known(base, a) => Known(session', a)
          /\ \A x \in Sources : Known(session, x) => Known(session', x)
        BY <1>1, <1>2, ParsedSays
    <1>5. Types'
        <2>1. DiskTyped' /\ mode' \in {"build", "watch"} /\ phase' = "parse"
            BY <1>2 DEF Types, DiskTyped
        <2>2. queue' \subseteq Sources /\ again' \subseteq Pages
            BY <1>1, <1>3, Apart DEF Types, CompilerTyped, NewFiles, Waits, Pages, Sources, Nets
        <2>3. CompilerTyped'
            BY <1>2, <1>4, <2>2 DEF Types, CompilerTyped, SaysTyped
        <2>4. PageOfNetwork(disk[n]) \in [title : Values, live : SUBSET Pages]
            BY <1>1 DEF PageOfNetwork, Values
        <2>5. OutputTyped'
            BY <1>1, <1>2, <2>4 DEF Types, OutputTyped
        <2> QED BY <2>1, <2>3, <2>5 DEF Types
    <1>6. SessionInv'
        <2>1. Known(session', Root)
            BY <1>2, <1>4, Apart
        <2>2. \A x \in news' : x \in Sources /\ Known(session', x)
            BY <1>1, <1>2, <1>4 DEF SessionInv
        <2> QED BY <1>2, <1>4, <2>1, <2>2 DEF SessionInv, Known
    <1>7. AssetInv'
        <2>1. \A a \in Assets \cap processed' : Known(session', a) /\ (quiet => session'[a] = disk[a])
            BY <1>1, <1>2, <1>4, Apart DEF AssetInv, Known
        <2>2. \A a \in Assets : a \in news' \/ base'[a] = session'[a]
            BY <1>1, <1>2, ParsedAssets
        <2> QED BY <1>2, <2>1, <2>2 DEF AssetInv, Known
    <1>8. ListingInv'
        <2>1. \A m \in Nets : Known(session', m) => m \in deferred'
            BY <1>1, <1>2, <1>4, Apart DEF ListingInv, Known
        <2>2. \A m \in deferred' : Known(session', m) /\ (m \in news' \/ Known(base, m))
            BY <1>1, <1>2, <1>4, Apart DEF ListingInv, Types, CompilerTyped
        <2> QED BY <1>2, <2>1, <2>2 DEF ListingInv, Known
    <1>9. BuildInv'
        <2> SUFFICES ASSUME mode = "build"
                     PROVE  BuildBase' /\ BuildOutput' /\ BuildPages'
            BY <1>2 DEF BuildInv
        <2>1. BuildBase /\ BuildOutput /\ BuildPages /\ base = Nothing
            BY <1>2 DEF BuildInv, BuildBase
        <2>2. \A x \in Sources : Known(session', x) => x \in news'
            BY <1>2, <1>4, <2>1, NothingTyped, Apart DEF BuildBase, Known
        <2>3. BuildBase'
            BY <1>2, <2>1, <2>2 DEF BuildBase, Known
        <2>4. \A m \in deferred' : listings'[m] = Sentinel
            BY <1>2, <2>1 DEF BuildOutput, Types, CompilerTyped, OutputTyped
        <2>5. BuildOutput'
            BY <1>2, <2>4 DEF BuildOutput
        <2>6. BuildPages'
            <3>1. pages'[n] = PageOfNetwork(disk[n]) /\ \A x \in Pages : x /= n => pages'[x] = pages[x]
                BY <1>1, <1>2 DEF Types, OutputTyped
            <3>2. PageOfNetwork(disk[n]).title = disk[n] /\ PageOfNetwork(disk[n]) /= Absent
                BY <1>1, SiteAssumption DEF PageOfNetwork, Values
            <3> QED BY <1>4, <2>1, <3>1, <3>2 DEF BuildPages, Known
        <2> QED BY <2>3, <2>5, <2>6
    <1>10. QuietInv'
        <2> SUFFICES ASSUME mode = "build", quiet
                     PROVE  QuietInv'
            BY <1>2 DEF QuietInv
        <2>1. \A x \in Pages : session'[x] \in {Absent, disk[x]}
            BY <1>4 DEF QuietInv
        <2>2. \A x \in Pages \cap processed' : Known(disk, x) => Known(session', x)
            BY <1>2, <1>4, Apart DEF QuietInv
        <2>3. ASSUME NEW x \in Docs \cup Subs, Home[x] \in deferred', Known(disk, x)
              PROVE  x \in queue' \/ Known(session', x)
            <3>0. x \in Pages
                BY DEF Pages, Nets
            <3>1. CASE Home[x] \in deferred
                BY <1>3, <1>4, <2>3, <3>0, <3>1, Apart DEF QuietInv
            <3>2. CASE Home[x] = n
                <4>1. CASE Known(session, x)
                    BY <1>4, <3>0, <4>1, Apart
                <4>2. CASE ~Known(session, x)
                    <5>1. x \notin processed
                        BY <2>3, <3>0, <4>2 DEF QuietInv
                    <5>2. x \in NewFiles(n)
                        BY <2>3, <3>2, <4>2 DEF NewFiles, Resolved, Known
                    <5> QED BY <1>3, <5>1, <5>2
                <4> QED BY <4>1, <4>2
            <3> QED BY <1>2, <2>3, <3>1, <3>2
        <2>4. ASSUME NEW d \in Docs, NEW x \in Refs[d] \cap Pages, Known(session', d), Known(disk, x)
              PROVE  x \in pages'[d].live \/ d \in again'
            <3>1. d /= n /\ d \in Pages
                BY Apart
            <3>2. pages'[d] = pages[d] /\ Known(session, d)
                BY <1>2, <1>4, <2>4, <3>1 DEF Types, OutputTyped, Known
            <3>3. d \in again => d \in again'
                BY <1>3, <3>1 DEF Waits
            <3> QED BY <2>4, <3>2, <3>3 DEF QuietInv
        <2> QED BY <1>2, <2>1, <2>2, <2>3, <2>4 DEF QuietInv, Known
    <1> QED BY <1>5, <1>6, <1>7, <1>8, <1>9, <1>10

\* A parsed document is in the session before its page is written.
LEMMA ParseDocumentKeeps ==
    ASSUME SiteInv, NEW d \in Docs, ParseDocument(d)
    PROVE  SiteInv'
    <1> USE DEF SiteInv
    <1>1. d \in Pages /\ d \in Sources /\ d \notin Nets /\ d \notin Assets /\ d /= Root
        BY Apart
    <1>2. /\ phase = "parse" /\ Known(session, Root)
          /\ processed' = processed \cup {d}
          /\ UNCHANGED <<mode, phase, disk, quiet, base, deferred, todo, copied, listings,
                         sitemap, static, linked, settled>>
        BY <1>1 DEF ParseDocument, Turn, Known, repository
    <1>3. CASE ~Known(disk, d)
        <2>1. /\ queue' = queue \ {d} /\ again' = again \ {d}
              /\ UNCHANGED <<session, news, pages>>
            BY <1>3 DEF ParseDocument, Known
        <2>2. Types'
            BY <1>2, <2>1 DEF Types, DiskTyped, CompilerTyped, OutputTyped
        <2>3. SessionInv'
            BY <1>1, <1>2, <2>1 DEF SessionInv, Known
        <2>4. AssetInv'
            BY <1>1, <1>2, <2>1 DEF AssetInv, Known
        <2>5. ListingInv'
            BY <1>2, <2>1 DEF ListingInv, Known
        <2>6. BuildInv'
            BY <1>2, <2>1 DEF BuildInv, BuildBase, BuildOutput, BuildPages, Known
        <2>7. QuietInv'
            <3> SUFFICES ASSUME mode = "build", quiet
                         PROVE  QuietInv'
                BY <1>2 DEF QuietInv
            <3>1. /\ \A x \in Pages : session[x] \in {Absent, disk[x]}
                  /\ \A x \in Pages \cap processed : Known(disk, x) => Known(session, x)
                  /\ \A x \in Docs \cup Subs :
                        Home[x] \in deferred /\ Known(disk, x) => x \in queue \/ Known(session, x)
                  /\ \A e \in Docs : \A x \in Refs[e] \cap Pages :
                        Known(session, e) /\ Known(disk, x) => x \in pages[e].live \/ e \in again
                BY DEF QuietInv
            <3>2. ~Known(session, d)
                BY <1>1, <1>3, <3>1 DEF Known
            <3> QED BY <1>2, <1>3, <2>1, <3>1, <3>2 DEF QuietInv, Known
        <2> QED BY <2>2, <2>3, <2>4, <2>5, <2>6, <2>7
    <1>4. CASE Known(disk, d)
        <2>1. /\ session' = [AssetsOfBase(session) EXCEPT ![d] = disk[d]]
              /\ news' = news \cup {d}
              /\ pages' = [pages EXCEPT ![d] = Page(d)]
              /\ queue' = (queue \ {d}) \cup Wanted(d)
              /\ again' = Waits(d, Awaited(d))
            BY <1>4 DEF ParseDocument, Known
        <2>2. /\ SaysTyped(session') /\ session'[d] = disk[d] /\ Known(session', d)
              /\ \A x \in Pages : x /= d => session'[x] = session[x]
              /\ \A a \in Assets : Known(session, a) => session'[a] = session[a]
              /\ \A a \in Assets : session'[a] \in {session[a], base[a]}
              /\ \A a \in Assets : Known(base, a) => Known(session', a)
              /\ \A x \in Sources : Known(session, x) => Known(session', x)
            BY <1>1, <1>4, <2>1, ParsedSays
        <2>3. disk[d] \in Titles
            BY <1>4 DEF Types, DiskTyped, Known
        <2>4. /\ Page(d) \in [title : Values, live : SUBSET Pages]
              /\ Page(d).title = disk[d] /\ Known(pages', d)
              /\ pages'[d] = Page(d) /\ \A x \in Pages : x /= d => pages'[x] = pages[x]
            <3>1. Page(d) \in [title : Values, live : SUBSET Pages]
                BY <2>3 DEF Page, Values
            <3>2. Page(d).title = disk[d]
                BY DEF Page
            <3>3. pages'[d] = Page(d) /\ \A x \in Pages : x /= d => pages'[x] = pages[x]
                BY <1>1, <2>1 DEF Types, OutputTyped
            <3>4. Known(pages', d)
                BY <3>1, <3>3, SiteAssumption DEF Known
            <3> QED BY <3>1, <3>2, <3>3, <3>4
        <2>5. Types'
            <3>1. Wanted(d) \subseteq Sources
                BY SiteAssumption, Apart DEF Wanted, Unresolved, Pages, Sources, Nets
            <3>2. queue' \subseteq Sources /\ again' \subseteq Pages
                BY <1>1, <2>1, <3>1 DEF Waits, Types, CompilerTyped
            <3>3. CompilerTyped'
                BY <1>2, <2>2, <3>2 DEF Types, CompilerTyped, SaysTyped
            <3>4. OutputTyped'
                BY <1>2, <2>1, <2>4 DEF Types, OutputTyped
            <3> QED BY <1>2, <3>3, <3>4 DEF Types, DiskTyped
        <2>6. SessionInv'
            <3>1. Known(session', Root)
                BY <1>2, <2>2, Apart
            <3>2. \A x \in news' : x \in Sources /\ Known(session', x)
                BY <1>1, <2>1, <2>2 DEF SessionInv
            <3> QED BY <1>2, <2>2, <3>1, <3>2 DEF SessionInv, Known
        <2>7. AssetInv'
            <3>1. \A a \in Assets \cap processed' : Known(session', a) /\ (quiet => session'[a] = disk[a])
                BY <1>1, <1>2, <2>2, Apart DEF AssetInv, Known
            <3>2. \A a \in Assets : a \in news' \/ base'[a] = session'[a]
                BY <1>1, <1>2, <1>4, <2>1, ParsedAssets
            <3> QED BY <1>2, <3>1, <3>2 DEF AssetInv, Known
        <2>8. ListingInv'
            <3>1. \A m \in Nets : session'[m] = session[m]
                BY <1>1, <2>2, Apart
            <3>2. \A m \in deferred : m \in Nets
                BY DEF Types, CompilerTyped
            <3> QED BY <1>2, <2>1, <3>1, <3>2 DEF ListingInv, Known
        <2>9. BuildInv'
            <3> SUFFICES ASSUME mode = "build"
                         PROVE  BuildBase' /\ BuildOutput' /\ BuildPages'
                BY <1>2 DEF BuildInv
            <3>1. BuildBase /\ BuildOutput /\ BuildPages /\ base = Nothing
                BY <1>2 DEF BuildInv, BuildBase
            <3>2. \A x \in Sources : Known(session', x) => x \in news'
                BY <2>1, <2>2, <3>1, <1>2, NothingTyped, Apart DEF BuildBase, Known
            <3>3. BuildBase'
                BY <1>2, <3>1, <3>2 DEF BuildBase, Known
            <3>4. BuildOutput'
                BY <1>2, <3>1 DEF BuildOutput
            <3>5. BuildPages'
                BY <2>2, <2>4, <3>1 DEF BuildPages, Known
            <3> QED BY <3>3, <3>4, <3>5
        <2>10. QuietInv'
            <3> SUFFICES ASSUME mode = "build", quiet
                         PROVE  QuietInv'
                BY <1>2 DEF QuietInv
            <3>1. \A x \in Pages : session'[x] \in {Absent, disk[x]}
                BY <2>2 DEF QuietInv
            <3>2. \A x \in Pages \cap processed' : Known(disk, x) => Known(session', x)
                BY <1>2, <2>2, Apart DEF QuietInv
            <3>3. ASSUME NEW x \in Docs \cup Subs, Home[x] \in deferred, Known(disk, x)
                  PROVE  x \in queue' \/ Known(session', x)
                <4>1. x \in Sources
                    BY Apart DEF Pages, Sources, Nets
                <4> QED BY <2>1, <2>2, <3>3, <4>1 DEF QuietInv
            <3>4. ASSUME NEW e \in Docs, NEW x \in Refs[e] \cap Pages, Known(session', e), Known(disk, x)
                  PROVE  x \in pages'[e].live \/ e \in again'
                <4>1. CASE e /= d
                    <5>1. e \in Pages /\ Known(session, e) /\ pages'[e] = pages[e]
                        BY <2>2, <2>4, <3>4, <4>1, Apart DEF Known
                    <5>2. e \in again => e \in again'
                        BY <2>1, <4>1 DEF Waits
                    <5> QED BY <3>4, <5>1, <5>2 DEF QuietInv
                <4>2. CASE e = d
                    <5>1. CASE Resolved(x)
                        BY <2>4, <3>4, <4>2, <5>1 DEF Page, Unresolved
                    <5>2. CASE ~Resolved(x)
                        <6>1. x \notin processed
                            BY <3>4, <5>2 DEF QuietInv, Resolved, Known
                        <6>2. x \in Awaited(d)
                            BY <3>4, <4>2, <5>2, <6>1 DEF Awaited, Unresolved, Known
                        <6> QED BY <2>1, <4>2, <6>2 DEF Waits
                    <5> QED BY <5>1, <5>2
                <4> QED BY <4>1, <4>2
            <3> QED BY <1>2, <3>1, <3>2, <3>3, <3>4 DEF QuietInv, Known
        <2> QED BY <2>5, <2>6, <2>7, <2>8, <2>9, <2>10
    <1> QED BY <1>3, <1>4

\* An asset that is hashed anew.
LEMMA ProcessAssetKeeps ==
    ASSUME SiteInv, NEW a \in Assets, ProcessAsset(a)
    PROVE  SiteInv'
    <1> USE DEF SiteInv
    <1>1. a \in Sources /\ a \notin Pages /\ a \notin Nets /\ disk[a] \in Contents /\ disk[a] /= Absent
        BY Apart DEF Types, DiskTyped
    <1>2. /\ phase = "parse" /\ Known(session, Root)
          /\ queue' = queue \ {a} /\ processed' = processed \cup {a}
          /\ UNCHANGED <<mode, phase, disk, quiet, again, base, deferred, todo, copied, pages,
                         listings, sitemap, static, linked, settled>>
        BY <1>1, Apart DEF ProcessAsset, Turn, Known, repository, output
    <1>3. /\ session'[a] = disk[a] /\ \A x \in Sources : x /= a => session'[x] = session[x]
          /\ session' \in [Sources -> Values \cup {Absent}]
          /\ news' = news \/ news' = news \cup {a}
          /\ session[a] /= disk[a] => a \in news'
        <2>1. session \in [Sources -> Values \cup {Absent}] /\ disk[a] \in Values
            BY <1>1 DEF Types, CompilerTyped, SaysTyped, Values
        <2> QED BY <1>1, <2>1 DEF ProcessAsset
    <1>4. \A x \in Pages : session'[x] = session[x]
        BY <1>1, <1>3, Apart
    <1>5. Known(session', a) /\ \A x \in Sources : Known(session, x) => Known(session', x)
        BY <1>1, <1>3 DEF Known
    <1>6. Types'
        <2>1. SaysTyped(session')
            BY <1>1, <1>3, <1>4, Apart DEF Types, CompilerTyped, SaysTyped
        <2>2. CompilerTyped'
            BY <1>2, <2>1 DEF Types, CompilerTyped, SaysTyped
        <2> QED BY <1>2, <2>2 DEF Types, DiskTyped, OutputTyped
    <1>7. SessionInv'
        <2>1. Known(session', Root)
            BY <1>2, <1>5, Apart
        <2>2. \A x \in news' : x \in Sources /\ Known(session', x)
            BY <1>1, <1>3, <1>5 DEF SessionInv
        <2>3. \A b \in Assets : Known(base, b) => Known(session', b)
            BY <1>2, <1>5, Apart DEF SessionInv
        <2> QED BY <1>2, <2>1, <2>2, <2>3 DEF SessionInv, Known
    <1>8. AssetInv'
        <2>1. \A b \in Assets \cap processed' : Known(session', b) /\ (quiet => session'[b] = disk[b])
            BY <1>2, <1>3, <1>5, Apart DEF AssetInv, Known
        <2>2. \A b \in Assets : b \in news' \/ base'[b] = session'[b]
            BY <1>2, <1>3, Apart DEF AssetInv
        <2> QED BY <1>2, <2>1, <2>2 DEF AssetInv, Known
    <1>9. ListingInv'
        <2>1. \A m \in deferred : m \in Nets
            BY DEF Types, CompilerTyped
        <2>2. \A m \in Nets : session'[m] = session[m]
            BY <1>4, Apart
        <2> QED BY <1>2, <1>3, <2>1, <2>2 DEF ListingInv, Known
    <1>10. BuildInv'
        <2> SUFFICES ASSUME mode = "build"
                     PROVE  BuildBase' /\ BuildOutput' /\ BuildPages'
            BY <1>2 DEF BuildInv
        <2>1. BuildBase /\ BuildOutput /\ BuildPages /\ base = Nothing
            BY <1>2 DEF BuildInv, BuildBase
        <2>2. \A x \in Sources : Known(session', x) => x \in news'
            BY <1>1, <1>2, <1>3, <2>1 DEF BuildBase, Known
        <2>3. BuildBase'
            BY <1>2, <2>1, <2>2 DEF BuildBase, Known
        <2>4. BuildOutput'
            BY <1>2, <2>1 DEF BuildOutput
        <2>5. BuildPages'
            BY <1>2, <1>4, <2>1 DEF BuildPages, Known
        <2> QED BY <2>3, <2>4, <2>5
    <1>11. QuietInv'
        <2>1. \A x \in Docs \cup Subs : x /= a /\ x \in Pages
            BY <1>1, Apart DEF Pages, Nets
        <2>2. \A x \in Docs : x \in Pages
            BY Apart
        <2> QED BY <1>1, <1>2, <1>4, <2>1, <2>2 DEF QuietInv, Known
    <1> QED BY <1>6, <1>7, <1>8, <1>9, <1>10, <1>11

\* The call of finalize_html.
LEMMA FinalizeKeeps ==
    ASSUME SiteInv, Finalize
    PROVE  SiteInv'
    <1> USE DEF SiteInv
    <1> DEFINE unread == {a \in Assets : session[a] /= Absent} \ processed
    <1>1. /\ phase = "parse" /\ queue = {} /\ again = {} /\ Known(session, Root)
          /\ UNCHANGED <<mode, disk, quiet, again, processed, session, deferred, news, base,
                         copied, pages, listings, sitemap, static, linked>>
        BY DEF Finalize, SessionInv, repository, output
    <1>2. CASE unread /= {}
        <2>1. queue' = unread /\ UNCHANGED <<phase, todo, settled>>
            BY <1>2 DEF Finalize
        <2>2. unread \subseteq Sources
            BY Apart
        <2>3. Types'
            BY <1>1, <2>1, <2>2 DEF Types, DiskTyped, CompilerTyped, OutputTyped, SaysTyped
        <2> HIDE DEF unread
        <2>4. SessionInv' /\ AssetInv' /\ ListingInv'
            BY <1>1, <2>1 DEF SessionInv, AssetInv, ListingInv, Known
        <2>5. BuildInv' /\ QuietInv'
            BY <1>1, <2>1 DEF BuildInv, BuildBase, BuildOutput, BuildPages, QuietInv, Known
        <2> QED BY <2>3, <2>4, <2>5
    <1>3. CASE unread = {}
        <2>1. /\ phase' = IF mode = "build" THEN "drain" ELSE "listings"
              /\ todo' = deferred /\ settled' = (mode = "build" \/ news = {})
              /\ UNCHANGED queue
            BY <1>1, <1>3 DEF Finalize, HasShell, Known
        <2>2. Types'
            BY <1>1, <2>1 DEF Types, DiskTyped, CompilerTyped, OutputTyped, SaysTyped
        <2>3. SessionInv'
            BY <1>1, <2>1 DEF SessionInv, Known
        <2>4. AssetInv'
            BY <1>1, <1>3, <2>1 DEF AssetInv, Known
        <2>5. ListingInv'
            BY <1>1, <2>1 DEF ListingInv, Known
        <2>6. BuildInv'
            BY <1>1, <2>1 DEF BuildInv, BuildBase, BuildOutput, BuildPages, Known
        <2>7. QuietInv'
            BY <1>1, <2>1 DEF QuietInv, Known
        <2> QED BY <2>2, <2>3, <2>4, <2>5, <2>6, <2>7
    <1> QED BY <1>2, <1>3

\* The base after every event on its way is applied.
LEMMA AppliedSays ==
    ASSUME SiteInv
    PROVE  /\ SaysTyped(Applied)
           /\ \A x \in Sources : x \in news => Applied[x] = session[x]
           /\ \A x \in Sources : x \notin news => Applied[x] = base[x]
           /\ \A x \in Sources : Known(base, x) => Known(Applied, x)
           /\ \A a \in Assets : Known(session, Root) /\ Known(Applied, a) => Known(session, a)
           /\ \A n \in deferred : Known(Applied, n)
    <1> USE DEF SiteInv
    <1>1. /\ \A x \in Sources : Applied[x] = IF x \in news THEN session[x] ELSE base[x]
          /\ SaysTyped(session) /\ SaysTyped(base)
        BY DEF Applied, Types, CompilerTyped
    <1>2. Applied \in [Sources -> Values \cup {Absent}]
        BY <1>1 DEF Applied, SaysTyped
    <1>3. SaysTyped(Applied)
        BY <1>1, <1>2, Apart DEF SaysTyped
    <1>4. \A n \in deferred : n \in Sources
        BY Apart DEF Types, CompilerTyped
    <1> QED BY <1>1, <1>3, <1>4, Apart DEF SessionInv, ListingInv, Known

\* The events that a build waits for before it goes on.
LEMMA DrainKeeps ==
    ASSUME SiteInv, Drain
    PROVE  SiteInv'
    <1>1. /\ phase = "drain" /\ phase' = "listings" /\ base' = Applied /\ news' = {}
          /\ UNCHANGED <<mode, disk, quiet, queue, again, processed, session, deferred, todo, copied,
                         pages, listings, sitemap, static, linked, settled>>
        BY DEF Drain, repository, compiler, output
    <1>2. /\ SaysTyped(Applied)
          /\ \A x \in Sources : x \in news => Applied[x] = session[x]
          /\ \A x \in Sources : x \notin news => Applied[x] = base[x]
          /\ \A a \in Assets : Known(session, Root) /\ Known(Applied, a) => Known(session, a)
          /\ \A n \in deferred : Known(Applied, n)
        BY AppliedSays
    <1> USE DEF SiteInv
    <1>3. Types'
        BY <1>1, <1>2 DEF Types, DiskTyped, CompilerTyped, OutputTyped, SaysTyped
    <1>4. SessionInv' /\ AssetInv'
        <2>1. Known(session, Root) => \A a \in Assets : Applied[a] = session[a]
            BY <1>2, Apart DEF AssetInv
        <2> QED BY <1>1, <1>2, <2>1 DEF SessionInv, AssetInv, Known
    <1>5. ListingInv'
        BY <1>1, <1>2 DEF ListingInv, Known
    <1>6. BuildInv'
        <2> SUFFICES ASSUME mode = "build"
                     PROVE  BuildBase' /\ BuildOutput' /\ BuildPages'
            BY <1>1 DEF BuildInv
        <2>1. BuildBase /\ BuildOutput /\ BuildPages
            BY DEF BuildInv
        <2>2. base' = session
            <3>1. \A x \in Sources : Applied[x] = session[x]
                BY <1>1, <1>2, <2>1, NothingTyped DEF BuildBase, Known
            <3>2. session \in [Sources -> Values \cup {Absent}] /\ Applied \in [Sources -> Values \cup {Absent}]
                BY <1>2 DEF Types, CompilerTyped, SaysTyped
            <3> QED BY <1>1, <3>1, <3>2
        <2>3. BuildBase' /\ BuildPages'
            BY <1>1, <2>1, <2>2 DEF BuildBase, BuildPages, Known
        <2>4. BuildOutput'
            BY <1>1, <2>1 DEF BuildOutput
        <2> QED BY <2>3, <2>4
    <1>7. QuietInv'
        BY <1>1 DEF QuietInv, Known
    <1> QED BY <1>3, <1>4, <1>5, <1>6, <1>7

\* The events that a watch commits while it goes on.
LEMMA CommitKeeps ==
    ASSUME SiteInv, Commit
    PROVE  SiteInv'
    <1>1. /\ mode = "watch" /\ news /= {} /\ base' = Applied /\ news' = {}
          /\ UNCHANGED <<mode, phase, disk, quiet, queue, again, processed, session, deferred, todo,
                         copied, pages, listings, sitemap, static, linked, settled>>
        BY DEF Commit, repository, compiler, output
    <1>2. /\ SaysTyped(Applied)
          /\ \A x \in Sources : x \in news => Applied[x] = session[x]
          /\ \A x \in Sources : x \notin news => Applied[x] = base[x]
          /\ \A a \in Assets : Known(session, Root) /\ Known(Applied, a) => Known(session, a)
          /\ \A n \in deferred : Known(Applied, n)
        BY AppliedSays
    <1> USE DEF SiteInv
    <1>3. Types'
        BY <1>1, <1>2 DEF Types, DiskTyped, CompilerTyped, OutputTyped, SaysTyped
    <1>4. SessionInv'
        BY <1>1, <1>2 DEF SessionInv, Known
    <1>5. AssetInv'
        <2>1. Known(session, Root) => \A a \in Assets : Applied[a] = session[a]
            BY <1>2, Apart DEF AssetInv
        <2> QED BY <1>1, <2>1 DEF AssetInv, Known
    <1>6. ListingInv'
        BY <1>1, <1>2 DEF ListingInv, Known
    <1>7. BuildInv' /\ QuietInv'
        BY <1>1 DEF BuildInv, QuietInv
    <1> QED BY <1>3, <1>4, <1>5, <1>6, <1>7

\* What is below a network can be written as its listing.
LEMMA ChildrenListed ==
    ASSUME SiteInv, NEW n \in Nets
    PROVE  Children(n) \in Listing /\ Children(n) \notin {Absent, Sentinel}
    <1>1. \A x \in Docs \cup Subs : base[x] /= Absent => base[x] \in Titles
        BY Apart DEF SiteInv, Types, CompilerTyped, SaysTyped, Pages, Nets
    <1>2. Children(n) \in Listing
        BY <1>1 DEF Children, Listing
    <1>3. \A S \in Listing : S \notin {Absent, Sentinel}
        BY SiteAssumption DEF Listing
    <1> QED BY <1>2, <1>3

\* One listing is written.
LEMMA WriteListingKeeps ==
    ASSUME SiteInv, NEW n \in Nets, WriteListing(n)
    PROVE  SiteInv'
    <1>1. /\ phase = "listings" /\ n \in todo /\ todo' = todo \ {n}
          /\ UNCHANGED <<mode, phase, disk, quiet, queue, again, processed, session, deferred, news,
                         base, copied, sitemap, static, linked, settled>>
        BY DEF WriteListing, repository, compiler
    <1>2. Children(n) \in Listing /\ Children(n) \notin {Absent, Sentinel}
        BY ChildrenListed
    <1> USE DEF SiteInv
    <1>3. /\ listings' \in [Nets -> Listing \cup {Absent, Sentinel}]
          /\ \A m \in Nets : m /= n => listings'[m] = listings[m]
          /\ Known(base, n) => listings'[n] = InPlace(listings[n], Children(n))
        BY <1>2 DEF WriteListing, Types, OutputTyped, InPlace, Known
    <1>4. /\ pages' \in [Pages -> [title : Values, live : SUBSET Pages] \cup {Absent}]
          /\ \A p \in Pages : p /= n => pages'[p] = pages[p]
          /\ listings[n] /= Absent => pages' = pages
        <2>1. CASE pages' = pages
            BY <2>1 DEF Types, OutputTyped
        <2>2. CASE /\ Known(base, n) /\ listings[n] = Absent
                   /\ pages' = [pages EXCEPT ![n] = PageOfNetwork(base[n])]
            <3>1. n \in Pages /\ base[n] \in Values
                BY <2>2, Apart DEF Types, CompilerTyped, SaysTyped, Known, Values
            <3>2. PageOfNetwork(base[n]) \in [title : Values, live : SUBSET Pages]
                BY <3>1 DEF PageOfNetwork
            <3> QED BY <2>2, <3>1, <3>2 DEF Types, OutputTyped
        <2> QED BY <2>1, <2>2 DEF WriteListing, Known
    <1>5. Types'
        BY <1>1, <1>3, <1>4 DEF Types, DiskTyped, CompilerTyped, OutputTyped, SaysTyped
    <1>6. SessionInv' /\ AssetInv'
        BY <1>1 DEF SessionInv, AssetInv, Known
    <1>7. ListingInv'
        <2>1. settled => \A m \in deferred : Known(base, m)
            BY <1>1 DEF ListingInv, AssetInv
        <2>2. \A m \in deferred : m \in Nets
            BY DEF Types, CompilerTyped
        <2>3. Known(base, n) => listings'[n] /= Sentinel
            BY <1>2, <1>3 DEF InPlace
        <2> QED BY <1>1, <1>3, <2>1, <2>2, <2>3 DEF ListingInv, Known
    <1>8. BuildInv'
        <2> SUFFICES ASSUME mode = "build"
                     PROVE  BuildBase' /\ BuildOutput' /\ BuildPages'
            BY <1>1 DEF BuildInv
        <2>1. BuildBase /\ BuildOutput /\ BuildPages
            BY DEF BuildInv
        <2>2. n \in deferred /\ Known(base, n) /\ listings[n] = Sentinel
            <3>1. n \in deferred
                BY <1>1, <2>1 DEF BuildOutput
            <3>2. Known(session, n) /\ base = session
                BY <1>1, <2>1, <3>1 DEF ListingInv, BuildBase
            <3> QED BY <1>1, <2>1, <3>1, <3>2 DEF BuildOutput, Known
        <2>3. listings'[n] = Children(n) /\ pages' = pages
            BY <1>3, <1>4, <2>2, SiteAssumption DEF InPlace
        <2>4. BuildBase' /\ BuildPages'
            BY <1>1, <2>1, <2>3 DEF BuildBase, BuildPages, Known
        <2>5. \A m \in deferred : m \in Nets /\ Children(m)' = Children(m)
            BY <1>1 DEF Types, CompilerTyped, Children
        <2>6. BuildOutput'
            BY <1>1, <1>3, <2>1, <2>3, <2>5 DEF BuildOutput
        <2> QED BY <2>4, <2>6
    <1>9. QuietInv'
        <2>1. \A d \in Docs : pages'[d] = pages[d]
            BY <1>4, Apart
        <2> QED BY <1>1, <2>1 DEF QuietInv, Known
    <1> QED BY <1>5, <1>6, <1>7, <1>8, <1>9

\* The sitemap is written after the listings.
LEMMA WriteSitemapKeeps ==
    ASSUME SiteInv, WriteSitemap
    PROVE  SiteInv'
    <1>1. /\ phase = "listings" /\ todo = {} /\ phase' = "assets" /\ copied' = {}
          /\ sitemap' = AllPaths(Reached) /\ todo' = AllPaths({a \in Assets : base[a] /= Absent})
          /\ UNCHANGED <<mode, disk, quiet, queue, again, processed, session, deferred, news, base,
                         pages, listings, static, linked, settled>>
        BY DEF WriteSitemap, repository, compiler
    <1> USE DEF SiteInv
    <1>8. /\ todo' \subseteq Assets /\ \A a \in todo' : Known(base, a)
          /\ mode = "build" => /\ sitemap' = Reached
                               /\ \A a \in Assets : Known(base, a) => a \in todo'
        BY <1>1 DEF AllPaths, Known
    <1>2. Types'
        BY <1>1 DEF Types, DiskTyped, CompilerTyped, OutputTyped, SaysTyped
    <1>3. SessionInv'
        BY <1>1, <1>8 DEF SessionInv, Known
    <1>4. AssetInv'
        BY <1>1, <1>8 DEF AssetInv, Known
    <1>5. ListingInv'
        BY <1>1 DEF ListingInv, Known
    <1>6. BuildInv'
        BY <1>1, <1>8 DEF BuildInv, BuildBase, BuildOutput, BuildPages, Children, Reached, Known
    <1>7. QuietInv'
        BY <1>1 DEF QuietInv, Known
    <1> QED BY <1>2, <1>3, <1>4, <1>5, <1>6, <1>7

\* One asset is linked under its name, from the copy of its content.
LEMMA LinkAssetKeeps ==
    ASSUME SiteInv, NEW a \in Assets, LinkAsset(a)
    PROVE  SiteInv'
    <1> DEFINE hash == session[a]
    <1> USE DEF SiteInv
    <1>1. /\ phase = "assets" /\ a \in todo /\ Known(session, a)
          /\ disk[a] \in Contents /\ disk[a] /= Absent /\ hash \in Contents
        BY Apart DEF LinkAsset, SessionInv, Types, DiskTyped, CompilerTyped, SaysTyped, Known
    <1>2. /\ todo' = todo \ {a} /\ copied' = copied \cup {hash}
          /\ static' = IF hash \notin copied THEN [static EXCEPT ![hash] = disk[a]] ELSE static
          /\ linked' = [linked EXCEPT ![a] = hash]
          /\ UNCHANGED <<mode, phase, disk, quiet, queue, again, processed, session, deferred, news,
                         base, pages, listings, sitemap, settled>>
        BY <1>1 DEF LinkAsset, Copies, Known, repository, compiler
    <1>3. Types'
        BY <1>1, <1>2 DEF Types, DiskTyped, CompilerTyped, OutputTyped, SaysTyped
    <1>4. SessionInv'
        BY <1>1, <1>2 DEF SessionInv, Known
    <1>5. AssetInv'
        <2>1. linked'[a] = hash /\ \A b \in Assets : b /= a => linked'[b] = linked[b]
            BY <1>2 DEF Types, OutputTyped
        <2>2. quiet => \A h \in copied' : h \in Contents /\ static'[h] = h
            <3>1. quiet => hash = disk[a]
                BY <1>1 DEF AssetInv
            <3> QED BY <1>1, <1>2, <3>1 DEF AssetInv, Types, OutputTyped
        <2> QED BY <1>1, <1>2, <2>1, <2>2 DEF AssetInv, Known
    <1>6. ListingInv'
        BY <1>1, <1>2 DEF ListingInv, Known
    <1>7. BuildInv'
        BY <1>1, <1>2 DEF BuildInv, BuildBase, BuildOutput, BuildPages, Children, Reached, Known
    <1>8. QuietInv'
        BY <1>1, <1>2 DEF QuietInv, Known
    <1> QED BY <1>3, <1>4, <1>5, <1>6, <1>7, <1>8

\* finalize_html returns.
LEMMA EndFinalizeKeeps ==
    ASSUME SiteInv, EndFinalize
    PROVE  SiteInv'
    <1>1. /\ phase = "assets" /\ todo = {} /\ phase' = "idle"
          /\ UNCHANGED <<mode, disk, quiet, queue, again, processed, session, deferred, news, base,
                         todo, copied, pages, listings, sitemap, static, linked, settled>>
        BY DEF EndFinalize, repository, compiler, output
    <1> USE DEF SiteInv
    <1>2. Types'
        BY <1>1 DEF Types, DiskTyped, CompilerTyped, OutputTyped, SaysTyped
    <1>3. SessionInv' /\ AssetInv' /\ ListingInv'
        BY <1>1 DEF SessionInv, AssetInv, ListingInv, Known
    <1>4. BuildInv'
        BY <1>1 DEF BuildInv, BuildBase, BuildOutput, BuildPages, Children, Reached, Known
    <1>5. QuietInv'
        BY <1>1 DEF QuietInv, Known
    <1> QED BY <1>2, <1>3, <1>4, <1>5

\* A file is edited.
LEMMA EditKeeps ==
    ASSUME SiteInv, NEW x \in Sources, NEW v, Edit(x, v),
           IF x \in Pages THEN v \in Titles \cup {Absent} ELSE v \in Contents
    PROVE  SiteInv'
    <1> USE DEF SiteInv
    <1>1. /\ disk' = [disk EXCEPT ![x] = v] /\ (v = Absent => x \in Docs)
          /\ UNCHANGED <<mode, again, processed, session, news, base, deferred, todo, copied, pages,
                         listings, sitemap, static, linked, settled>>
        BY DEF Edit, output
    <1>2. DiskTyped' /\ \A y \in Sources : y /= x => disk'[y] = disk[y]
        <2>1. v \in Values \cup {Absent}
            BY DEF Values
        <2>2. /\ disk' \in [Sources -> Values \cup {Absent}]
              /\ disk'[x] = v /\ \A y \in Sources : y /= x => disk'[y] = disk[y]
            BY <1>1, <2>1 DEF Types, DiskTyped
        <2>3. /\ \A p \in Nets : disk'[p] \in Titles
              /\ \A p \in Docs : disk'[p] \in Titles \cup {Absent}
            BY <1>1, <2>2, Apart DEF Types, DiskTyped
        <2>4. \A a \in Assets : disk'[a] \in Contents
            BY <1>1, <2>2, Apart DEF Types, DiskTyped
        <2> QED BY <2>2, <2>3, <2>4 DEF DiskTyped
    <1>3. CASE mode = "watch" /\ x \in Pages
        <2>1. /\ phase = "idle" /\ phase' = "parse" /\ queue' = queue \cup {x} /\ UNCHANGED quiet
            BY <1>3 DEF Edit, Types
        <2>2. \A a \in Assets : disk'[a] = disk[a]
            BY <1>2, <1>3, Apart
        <2>3. Types'
            BY <1>1, <1>2, <2>1 DEF Types, CompilerTyped, OutputTyped, SaysTyped
        <2>4. SessionInv' /\ ListingInv'
            BY <1>1, <2>1 DEF SessionInv, ListingInv, Known
        <2>5. AssetInv'
            BY <1>1, <2>1, <2>2 DEF AssetInv, Known
        <2>6. BuildInv' /\ QuietInv'
            BY <1>1, <1>3 DEF BuildInv, QuietInv
        <2> QED BY <2>3, <2>4, <2>5, <2>6
    <1>4. CASE ~(mode = "watch" /\ x \in Pages)
        <2>1. quiet' = FALSE /\ UNCHANGED <<phase, queue>>
            BY <1>4 DEF Edit
        <2>2. Types'
            BY <1>1, <1>2, <2>1 DEF Types, CompilerTyped, OutputTyped, SaysTyped
        <2>3. SessionInv' /\ ListingInv' /\ AssetInv'
            BY <1>1, <2>1 DEF SessionInv, ListingInv, AssetInv, Known
        <2>4. BuildInv' /\ QuietInv'
            BY <1>1, <2>1 DEF BuildInv, BuildBase, BuildOutput, BuildPages, Children, Reached, QuietInv, Known
        <2> QED BY <2>2, <2>3, <2>4
    <1> QED BY <1>3, <1>4

\* A run that begins has its invariant, whatever it finds in the output
\* directory and, in a watch, in the base.
LEMMA FreshRun ==
    ASSUME mode' \in {"build", "watch"}, DiskTyped', OutputTyped', SaysTyped(base'),
           phase' = "parse", Root \in queue', queue' \subseteq Sources,
           again' = {}, processed' = {}, session' = Nothing, deferred' = {},
           news' = {}, mode' = "build" => base' = Nothing
    PROVE  SiteInv'
    <1>1. SaysTyped(session') /\ \A x \in Sources : ~Known(session', x)
        BY NothingTyped
    <1>2. Types'
        BY <1>1 DEF Types, CompilerTyped, SaysTyped
    <1>3. SessionInv' /\ AssetInv' /\ ListingInv'
        BY <1>1, Apart DEF SessionInv, AssetInv, ListingInv, Known
    <1>4. BuildInv'
        BY <1>1, Apart DEF BuildInv, BuildBase, BuildOutput, BuildPages, Known
    <1>5. QuietInv'
        BY <1>1, Apart DEF QuietInv, Known
    <1> QED BY <1>2, <1>3, <1>4, <1>5 DEF SiteInv

\* The program is started again, with its output or without.
LEMMA RestartsKeep ==
    ASSUME SiteInv, Restart \/ RestartWithoutOutput
    PROVE  SiteInv'
    <1> USE DEF SiteInv, Types
    <1>1. /\ phase' = "parse" /\ queue' \in FirstQueues
          /\ again' = {} /\ processed' = {} /\ session' = Nothing /\ deferred' = {} /\ news' = {}
          /\ base' = IF mode = "build" THEN Nothing ELSE base
          /\ UNCHANGED <<mode, disk>>
        BY DEF Restart, RestartWithoutOutput
    <1>2. DiskTyped'
        BY <1>1 DEF DiskTyped
    <1>3. SaysTyped(base')
        BY <1>1, NothingTyped DEF CompilerTyped
    <1>4. Root \in queue' /\ queue' \subseteq Sources
        BY <1>1, Apart DEF FirstQueues, Stale
    <1>5. OutputTyped'
        <2>1. CASE Restart
            BY <2>1 DEF Restart, output, OutputTyped
        <2>2. CASE RestartWithoutOutput
            BY <2>2 DEF RestartWithoutOutput, OutputTyped
        <2> QED BY <2>1, <2>2
    <1> QED BY <1>1, <1>2, <1>3, <1>4, <1>5, FreshRun

\* The invariant holds at the start.
LEMMA InitSiteInv == Init => SiteInv
    <1> SUFFICES ASSUME Init PROVE SiteInv
        OBVIOUS
    <1>1. /\ phase = "parse" /\ queue = {Root} /\ again = {} /\ processed = {}
          /\ session = Nothing /\ deferred = {} /\ base = Nothing /\ news = {}
        BY DEF Init, Fresh
    <1>2. SaysTyped(Nothing) /\ \A x \in Sources : ~Known(Nothing, x)
        BY NothingTyped
    <1>3. DiskTyped
        BY DEF Init, DiskTyped
    <1>4. OutputTyped
        BY DEF Init, EmptyOutput, OutputTyped
    <1>5. mode \in {"build", "watch"}
        BY SiteAssumption DEF Init
    <1>6. Types
        BY <1>1, <1>2, <1>3, <1>4, <1>5, Apart DEF Types, CompilerTyped
    <1>7. SessionInv /\ AssetInv /\ ListingInv
        BY <1>1, <1>2, Apart DEF SessionInv, AssetInv, ListingInv
    <1>8. BuildInv /\ QuietInv
        BY <1>1, <1>2, Apart DEF BuildInv, BuildBase, BuildOutput, BuildPages, QuietInv, Nothing
    <1> QED BY <1>6, <1>7, <1>8 DEF SiteInv

\* Every step of a build, a watch or its user keeps the invariant.
LEMMA NextSiteInv == SiteInv /\ [Next]_vars => SiteInv'
    <1> SUFFICES ASSUME SiteInv, [Next]_vars PROVE SiteInv'
        OBVIOUS
    <1>1. CASE \E n \in Nets : ParseNetwork(n) \/ WriteListing(n)
        BY <1>1, ParseNetworkKeeps, WriteListingKeeps
    <1>2. CASE \E d \in Docs : ParseDocument(d)
        BY <1>2, ParseDocumentKeeps
    <1>3. CASE \E a \in Assets : ProcessAsset(a) \/ LinkAsset(a)
        BY <1>3, ProcessAssetKeeps, LinkAssetKeeps
    <1>4. CASE Finalize \/ Drain \/ Commit \/ WriteSitemap \/ EndFinalize
        BY <1>4, FinalizeKeeps, DrainKeeps, CommitKeeps, WriteSitemapKeeps, EndFinalizeKeeps
    <1>5. CASE Author
        <2>1. CASE \E x \in Pages : \E v \in Titles \cup {Absent} : Edit(x, v)
            BY <2>1, EditKeeps, Apart
        <2>2. CASE \E a \in Assets : \E v \in Contents : Edit(a, v)
            BY <2>2, EditKeeps, Apart
        <2> QED BY <1>5, <2>1, <2>2 DEF Author
    <1>6. CASE Restart \/ RestartWithoutOutput
        BY <1>6, RestartsKeep
    <1>7. CASE UNCHANGED vars
        <2>1. UNCHANGED <<mode, phase, disk, quiet, queue, again, processed, session, deferred, news, base,
                          todo, copied, pages, listings, sitemap, static, linked, settled>>
            BY <1>7 DEF vars, repository, compiler, output
        <2>2. Types'
            BY <2>1 DEF SiteInv, Types, DiskTyped, CompilerTyped, OutputTyped, SaysTyped
        <2>3. SessionInv' /\ AssetInv' /\ ListingInv'
            BY <2>1 DEF SiteInv, SessionInv, AssetInv, ListingInv, Known
        <2>4. BuildInv'
            BY <2>1 DEF SiteInv, BuildInv, BuildBase, BuildOutput, BuildPages, Children, Reached, Known
        <2>5. QuietInv'
            BY <2>1 DEF SiteInv, QuietInv, Known
        <2> QED BY <2>2, <2>3, <2>4, <2>5 DEF SiteInv
    <1> QED BY <1>1, <1>2, <1>3, <1>4, <1>5, <1>6, <1>7 DEF Next

-----------------------------------------------------------------------------
(***************************************************************************)
(* What a finished site says.                                               *)
(***************************************************************************)

\* After a build nobody edited under, every network was parsed, whatever it is
\* nested in, and the base says what the disk says.
LEMMA BuildIsComplete ==
    ASSUME SiteInv, phase = "idle", mode = "build", quiet
    PROVE  /\ Nets \subseteq deferred
           /\ \A x \in Pages : base[x] = disk[x] /\ session[x] = disk[x]
    <1> USE DEF SiteInv
    <1>1. base = session /\ queue = {}
        BY DEF BuildInv, BuildBase, SessionInv
    <1>2. \A x \in Docs \cup Subs : Home[x] \in deferred /\ Known(disk, x) => Known(session, x)
        BY <1>1 DEF QuietInv
    <1>3. Root \in deferred
        BY Apart DEF SessionInv, ListingInv
    <1> DEFINE missed == Subs \ deferred
    <1>4. missed = {}
        <2> SUFFICES ASSUME missed /= {} PROVE FALSE
            OBVIOUS
        <2>1. PICK s \in missed : Home[s] \notin missed
            BY SiteAssumption
        <2>2. Home[s] \in deferred
            BY <1>3, <2>1, SiteAssumption
        <2>3. s \in Nets /\ Known(disk, s)
            BY Apart DEF Nets, Types, DiskTyped, Known
        <2>4. Known(session, s)
            BY <1>2, <2>2, <2>3
        <2> QED BY <2>3, <2>4 DEF ListingInv
    <1>5. Nets \subseteq deferred
        BY <1>3, <1>4 DEF Nets
    <1>6. ASSUME NEW x \in Pages
          PROVE  session[x] = disk[x]
        <2>1. session[x] \in {Absent, disk[x]}
            BY DEF QuietInv
        <2>2. CASE x = Root
            BY <1>3, <2>1, <2>2 DEF ListingInv, Known
        <2>3. CASE x /= Root
            <3>1. x \in Docs \cup Subs
                BY <2>3 DEF Pages, Nets
            <3>2. Home[x] \in deferred
                BY <1>5, <3>1, SiteAssumption DEF Nets
            <3> QED BY <1>2, <2>1, <3>1, <3>2 DEF Known
        <2> QED BY <2>2, <2>3
    <1> QED BY <1>1, <1>5, <1>6

\* What the invariant says of a settled site: its listings are written.
LEMMA InvGivesListings == SiteInv => ListingsAreWritten
    <1> SUFFICES ASSUME SiteInv, phase = "idle", settled, NEW n \in deferred
                 PROVE  /\ listings[n] /= Sentinel
                        /\ mode = "build" /\ quiet => listings[n] =
                              {<<x, disk[x]>> : x \in {y \in Docs \cup Subs :
                                                         Home[y] = n /\ disk[y] /= Absent}}
        BY DEF ListingsAreWritten
    <1>1. listings[n] /= Sentinel
        BY DEF SiteInv, ListingInv
    <1>2. ASSUME mode = "build", quiet
          PROVE  listings[n] = {<<x, disk[x]>> : x \in {y \in Docs \cup Subs :
                                                          Home[y] = n /\ disk[y] /= Absent}}
        <2>1. listings[n] = Children(n)
            BY <1>2 DEF SiteInv, BuildInv, BuildOutput
        <2>2. \A x \in Docs \cup Subs : base[x] = disk[x]
            BY <1>2, BuildIsComplete DEF Pages, Nets
        <2> QED BY <2>1, <2>2 DEF Children
    <1> QED BY <1>1, <1>2

\* In a settled site of a build without edits, links and sitemap lead to pages.
LEMMA InvGivesLinks == SiteInv => LinksLeadToPages
    <1> SUFFICES ASSUME SiteInv, phase = "idle", mode = "build", quiet
                 PROVE  /\ sitemap = {x \in Docs \cup Subs : disk[x] /= Absent}
                        /\ \A x \in sitemap : pages[x] /= Absent /\ pages[x].title = disk[x]
                        /\ \A d \in Docs : \A x \in Refs[d] \cap Pages :
                              disk[d] /= Absent /\ disk[x] /= Absent => x \in pages[d].live
        BY DEF LinksLeadToPages
    <1>1. \A x \in Pages : base[x] = disk[x] /\ session[x] = disk[x]
        BY BuildIsComplete
    <1>2. sitemap = {x \in Docs \cup Subs : disk[x] /= Absent}
        <2>1. sitemap = Reached
            BY DEF SiteInv, BuildInv, BuildOutput
        <2>2. \A n \in Nets : base[n] /= Absent
            BY <1>1, Apart DEF SiteInv, Types, DiskTyped
        <2>3. \A x \in Docs \cup Subs : base[x] = disk[x] /\ Home[x] \in Nets
            BY <1>1, SiteAssumption DEF Pages, Nets
        <2> QED BY <2>1, <2>2, <2>3, Apart DEF Reached
    <1>3. \A x \in sitemap : pages[x] /= Absent /\ pages[x].title = disk[x]
        <2>1. \A x \in sitemap : x \in Pages /\ Known(session, x)
            BY <1>1, <1>2 DEF Pages, Nets, Known
        <2> QED BY <1>1, <2>1 DEF SiteInv, BuildInv, BuildPages, Known
    <1>4. \A d \in Docs : \A x \in Refs[d] \cap Pages :
              disk[d] /= Absent /\ disk[x] /= Absent => x \in pages[d].live
        <2>1. again = {}
            BY DEF SiteInv, SessionInv
        <2>2. \A d \in Docs : session[d] = disk[d]
            BY <1>1, Apart
        <2> QED BY <2>1, <2>2 DEF SiteInv, QuietInv, Known
    <1> QED BY <1>2, <1>3, <1>4

\* After an undisturbed build the pages of assets have their own content.
LEMMA InvGivesAssets == SiteInv => AssetPagesAreTheirOwn
    <1> SUFFICES ASSUME SiteInv, phase = "idle", quiet, mode = "build",
                        NEW a \in Assets, Known(base, a)
                 PROVE  linked[a] /= Absent /\ static[linked[a]] = disk[a]
        BY DEF AssetPagesAreTheirOwn, Known
    <1>1. linked[a] = session[a] /\ session[a] \in copied
        BY DEF SiteInv, AssetInv
    <1>2. Known(session, a)
        BY DEF SiteInv, BuildInv, BuildBase, Known
    <1>3. session[a] = disk[a]
        BY <1>2 DEF SiteInv, AssetInv
    <1>4. static[session[a]] = session[a]
        BY <1>1 DEF SiteInv, AssetInv
    <1> QED BY <1>1, <1>2, <1>3, <1>4 DEF Known

\* In a settled state the base has the content of its assets.
LEMMA InvGivesContents == SiteInv => AssetsAreUpToDate
    <1> SUFFICES ASSUME SiteInv, phase = "idle", quiet, settled, NEW a \in Assets, Known(base, a)
                 PROVE  base[a] = disk[a]
        BY DEF AssetsAreUpToDate, Known
    <1>1. news = {} /\ Known(session, Root)
        BY DEF SiteInv, AssetInv, SessionInv
    <1>2. base[a] = session[a] /\ Known(session, a)
        BY <1>1 DEF SiteInv, AssetInv, Known
    <1> QED BY <1>2 DEF SiteInv, AssetInv

\* No settled site has a network page without its listing, and the listings of
\* an undisturbed build are those of the disk.
THEOREM ListingsAreAlwaysWritten == Spec => []ListingsAreWritten
    BY InitSiteInv, NextSiteInv, InvGivesListings, PTL DEF Spec

\* After an undisturbed build the sitemap is complete, every page is current and
\* every link to a page is live, however networks nest and documents refer to
\* each other.
THEOREM LinksAlwaysLeadToPages == Spec => []LinksLeadToPages
    BY InitSiteInv, NextSiteInv, InvGivesLinks, PTL DEF Spec

\* An embedded asset's page has its own content after every undisturbed build,
\* whatever earlier runs left in the output directory.
THEOREM AssetPagesStayTheirOwn == Spec => []AssetPagesAreTheirOwn
    BY InitSiteInv, NextSiteInv, InvGivesAssets, PTL DEF Spec

\* The base has the content of every asset it knows after every undisturbed run
\* that ended with all events applied, a watch that was started after edits
\* nobody noticed included.
THEOREM AssetsStayUpToDate == Spec => []AssetsAreUpToDate
    BY InitSiteInv, NextSiteInv, InvGivesContents, PTL DEF Spec
=============================================================================
