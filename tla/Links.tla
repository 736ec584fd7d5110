------------------------------- MODULE Links -------------------------------
(***************************************************************************)
(* Links between documents, and what a parse makes of them.  Its relations *)
(* come from the URLs of the links (MdCodec::parse, push_relation); then   *)
(* the links are written anew (check_for_link_and_push, codec/md.rs): the  *)
(* relative path to the target, the Bref of the target and, if the text of *)
(* the link is the target's title, its title as it is now.                 *)
(*                                                                         *)
(* Nodes are numbers in the order of the path maps.  A link is an inline   *)
(* link of a document; wiki links, references and links to other sites are *)
(* left out.                                                               *)
(***************************************************************************)
EXTENDS AnchorPaths, FiniteSets

CONSTANTS
    Docs, Nets, \* documents, and networks, whose index.md does not change
    Headings,   \* headings
    DocOf,      \* the document of each heading
    Id,         \* the identifier of each heading
    Slug,       \* the anchor of each heading in its path
    NetDir,     \* the directory of each network
    Places,     \* the paths that files can have
    Titles,     \* the titles a node can have, each its own slug
    Link,       \* the names of the links
    Owner,      \* the document of each link
    Written,    \* the links that an author writes
    StartPlace, StartTitle,
    MaxChanges  \* bound: changes by authors

Nodes == Docs \union Nets \union Headings
NoNode == 0

Urls == [parts : Seq(Parts), anchor : Anchors \union {NoAnchor}]
Texts == [url : Urls, bref : Nodes \union {NoNode}, auto : BOOLEAN, text : STRING]

\* A heading whose identifier belongs to another node of its network has its
\* Bref for an identifier, and its path has the slug of its title
\* (generate_terminal_path).
Lost == {h \in Headings : Slug[h] # Id[h]}

\* Two headings of a document have different anchors in their paths
\* (generate_path_name_with_collision_check), a Bref is the anchor of no other
\* heading, and the index.md of a network is no document of its own.
ASSUME LinksAssumption ==
    /\ Nodes \subseteq Nat \ {NoNode}
    /\ Docs \intersect Nets = {} /\ (Docs \union Nets) \intersect Headings = {}
    /\ DocOf \in [Headings -> Docs]
    /\ Id \in [Headings -> Anchors] /\ Slug \in [Headings -> Anchors]
    /\ \A g, h \in Headings : DocOf[g] = DocOf[h] /\ Slug[g] = Slug[h] => g = h
    /\ \A g \in Lost, h \in Headings : Slug[h] # Id[g]
    /\ Places \subseteq Seq(Names) /\ \A p \in Places : IsFile(p)
    /\ NetDir \in [Nets -> Seq(Names)]
    /\ \A n \in Nets : ~IsFile(NetDir[n]) /\ Append(NetDir[n], "index.md") \notin Places
    /\ Owner \in [Link -> Docs] /\ Titles \subseteq STRING
    /\ Written \subseteq Texts
    /\ StartPlace \in [Docs -> Places] /\ StartTitle \in [Nodes -> Titles]
    /\ MaxChanges \in Nat
    /\ \A p \in Places, t \in Written :       \* no link leaves the repository
          \A i \in DOMAIN t.url.parts :
             Cardinality({j \in 1..i : t.url.parts[j] = Up})
                <= Len(Dir(p)) + Cardinality({j \in 1..i : t.url.parts[j] \notin {Up, Here}})

\* A link as it stands in a text.  A URL is relative, also one with a slash in
\* front.
Url(parts, anchor) == Path(parts, anchor)
LinkText(url, bref, auto, text) == [url |-> url, bref |-> bref, auto |-> auto, text |-> text]

VARIABLES
    at,         \* the path of the file of each document
    titles,     \* the title of each node in its file
    place,      \* the paths of the documents in the path maps
    known,      \* the titles that the session knows
    link,       \* the links, as they are in the files
    relation,   \* the target of the relation of each link
    fresh,      \* the documents parsed since what they depend on has changed
    changes

vars == <<at, titles, place, known, link, relation, fresh, changes>>

PathOf(where, n) ==
    CASE n \in Docs     -> Path(where[n], NoAnchor)
      [] n \in Nets     -> Path(NetDir[n], NoAnchor)
      [] n \in Headings -> Path(where[DocOf[n]], Slug[n])

\* What a link to it is made from: the path, with the identifier of a heading in
\* the place of its anchor (check_for_link_and_push).
LinkTo(where, n) == IF n \in Headings THEN Path(where[DocOf[n]], Id[n]) ELSE PathOf(where, n)

\* A network is found at its index.md as well (PathMap::indexed_get).
PathsTo(where, n) ==
    {PathOf(where, n)}
    \union IF n \in Nets THEN {Path(Append(NetDir[n], "index.md"), NoAnchor)} ELSE {}

First(S) == IF S = {} THEN NoNode ELSE Min(S)

----------------------------------------------------------------------------
(* Keys (nodekey.rs)                                                        *)

\* from_str: a bare word is not a path but the identifier of a node; that of a
\* document is the slug of its title.
IsId(url) == Len(url.parts) = 1 /\ ~IsFile(url.parts) /\ url.anchor = NoAnchor
             /\ Head(url.parts) # Up
IdOf(names, n) == IF n \in Headings THEN Id[n] ELSE names[n]

\* An empty URL makes an empty identifier, which is nobody's.
Target(where, names, d, url) ==
    IF url = Path(<<>>, NoAnchor) THEN NoNode
    ELSE IF IsId(url) THEN First({n \in Nodes : IdOf(names, n) = Head(url.parts)})
    ELSE First({n \in Nodes : Join(Path(where[d], NoAnchor), url) \in PathsTo(where, n)})

\* push_relation makes no relation of a document with itself.
Related(where, names, d, url) ==
    LET n == Target(where, names, d, url)
    IN  IF n = d THEN NoNode ELSE n

\* The nodes whose relations lead to a document: the targets of its links,
\* and its headings.
Sources(related, d) ==
    ({related[l] : l \in {l \in Link : Owner[l] = d}} \ {NoNode})
    \union {h \in Headings : DocOf[h] = d}

\* Mutant: the URL comes before the Bref.
KeyedByUrl(where, names, related, d, l) ==
    LET n == Target(where, names, d, link[l].url)
    IN  IF n \in Sources(related, d) THEN n ELSE NoNode

\* The source that a link names: by its Bref if it has one, else by its
\* identifier or the one path that a node has.
Keyed(where, names, related, d, l) ==
    LET url  == link[l].url
        path == Join(Path(where[d], NoAnchor), url)
    IN  First({n \in Sources(related, d) :
                  IF link[l].bref # NoNode THEN n = link[l].bref
                  ELSE IF IsId(url) THEN IdOf(names, n) = Head(url.parts)
                  ELSE url # Path(<<>>, NoAnchor) /\ path = PathOf(where, n)})

\* Mutant: the anchor of the target is left out.
WithoutAnchor(where, names, d, l, n) ==
    LET auto == link[l].auto \/ link[l].text = names[n]
    IN  LinkText(PathTo(Path(where[d], NoAnchor), [LinkTo(where, n) EXCEPT !.anchor = NoAnchor]),
                 n, auto, IF auto THEN names[n] ELSE link[l].text)

\* Mutant: the flag is computed from the text as it was.
FlaggedByText(where, names, d, l, n) ==
    LET auto == link[l].auto \/ link[l].text = names[n]
    IN  LinkText(PathTo(Path(where[d], NoAnchor), LinkTo(where, n)), n, link[l].text = names[n],
                 IF auto THEN names[n] ELSE link[l].text)

\* The canonical form of a link.
Canonical(where, names, d, l, n) ==
    LET auto == link[l].auto \/ link[l].text = names[n]
    IN  LinkText(PathTo(Path(where[d], NoAnchor), LinkTo(where, n)), n, auto,
                 IF auto THEN names[n] ELSE link[l].text)

Rewritten(where, names, related, d, l) ==
    LET n == Keyed(where, names, related, d, l)
    IN  IF Owner[l] # d \/ n = NoNode THEN link[l] ELSE Canonical(where, names, d, l, n)

----------------------------------------------------------------------------
Init ==
    /\ at = StartPlace /\ place = StartPlace
    /\ titles = StartTitle /\ known = StartTitle
    /\ link \in [Link -> Written]
    /\ relation = [l \in Link |-> NoNode]
    /\ fresh = {}
    /\ changes = 0

Change ==
    /\ changes < MaxChanges
    /\ changes' = changes + 1
    /\ UNCHANGED <<place, known, relation>>

Write(l, text) ==
    /\ Change
    /\ link' = [link EXCEPT ![l] = text]
    /\ fresh' = fresh \ {Owner[l]}
    /\ UNCHANGED <<at, titles>>

Move(d, path) ==
    /\ path \notin {at[e] : e \in Docs}
    /\ Change
    /\ at' = [at EXCEPT ![d] = path]
    /\ fresh' = fresh \ {d}
    /\ UNCHANGED <<titles, link>>

\* (A heading of Lost keeps its title: its path would change with it.)
Retitle(n, title) ==
    /\ n \notin Lost
    /\ title # titles[n]
    /\ Change
    /\ titles' = [titles EXCEPT ![n] = title]
    /\ fresh' = fresh \ (IF n \in Headings THEN {DocOf[n]} ELSE {n})
    /\ UNCHANGED <<at, link>>

\* The nodes that a file describes.
Within(f) == {f} \union {h \in Headings : DocOf[h] = f}

\* parse_content of a document or of the index.md of a network: its path and
\* titles are known, its links are resolved and then written anew.
Parse(f) ==
    LET where   == IF f \in Docs THEN [place EXCEPT ![f] = at[f]] ELSE place
        names   == [n \in Nodes |-> IF n \in Within(f) THEN titles[n] ELSE known[n]]
        related == [l \in Link |->
                       IF Owner[l] = f THEN Related(where, names, f, link[l].url) ELSE relation[l]]
    IN  /\ place' = where
        /\ known' = names
        /\ relation' = related
        /\ link' = [l \in Link |-> Rewritten(where, names, related, f, l)]
        /\ fresh' = {f} \union IF where = place /\ names = known THEN fresh ELSE {}
        /\ UNCHANGED <<at, titles, changes>>

Next ==
    \/ \E l \in Link, text \in Written : Write(l, text)
    \/ \E d \in Docs, path \in Places : Move(d, path)
    \/ \E n \in Nodes, title \in Titles : Retitle(n, title)
    \/ \E f \in Docs \union Nets : Parse(f)

Spec == Init /\ [][Next]_vars

----------------------------------------------------------------------------
(* Properties.                                                              *)

LinksTypeOK ==
    /\ at \in [Docs -> Places] /\ place \in [Docs -> Places]
    /\ titles \in [Nodes -> Titles] /\ known \in [Nodes -> Titles]
    /\ link \in [Link -> Texts]
    /\ relation \in [Link -> Nodes \union {NoNode}]
    /\ \A l \in Link : relation[l] # Owner[l]
    /\ fresh \subseteq Docs \union Nets
    /\ changes \in 0..MaxChanges

\* The components that are left of a path when each ".." takes the component
\* before it, or stays if there is none.
Walk(done, part) ==
    CASE part = Here -> done
      [] part = Up /\ done # <<>> /\ Last(done) # Up -> Front(done)
      [] OTHER -> Append(done, part)

\* They, after each number of components.
Walked(parts) ==
    LET walked[i \in 0..Len(parts)] == IF i = 0 THEN <<>> ELSE Walk(walked[i - 1], parts[i])
    IN  walked

\* normalize puts off what a ".." takes away and guesses what can stay; still
\* every URL that an author or the compiler writes leads where one gets by
\* walking it, from every file.
UrlsLeadWhereTheyShould ==
    \A l \in Link : \A p \in Places :
        LET walk == Dir(p) \o link[l].url.parts
        IN  link[l].url.parts # <<>> =>
                Join(Path(p, NoAnchor), link[l].url) = Path(Walked(walk)[Len(walk)], link[l].url.anchor)

\* Two documents are known at one path until the one that has gone is parsed.
KnownApart == \A m, d \in Docs : m # d => place[m] # place[d]

\* Where a link of a fresh document leads.
Leads(l) == Target(place, known, Owner[l], link[l].url)

\* What a parse has written, the next parse finds again: a link that has the
\* Bref of one of the document's targets leads to this target, be it in the
\* same file, in another directory, or a heading that has its identifier.
\* (Networks: see NetworkLinksStay.  Headings without: see HeadingLinksResolve.)
RewrittenLinksResolve ==
    \A l \in Link :
        LET n == link[l].bref
        IN  /\ Owner[l] \in fresh
            /\ n \in Sources(relation, Owner[l]) \ (Nets \union Lost)
            /\ KnownApart
            => Leads(l) = n

\* A document that has been parsed is left as it is by the next parse, also where
\* this loses the relation of a link (HeadingLinksResolve), so that the compiler's
\* own writes do not make the watcher run for ever, unless two documents are known
\* at one path: a relation that was found by a title then leads, by the path that
\* has been written, to the other document, and a link to that one is written anew
\* because it has become a target.
ByCompiler == changes' = changes
ToNetwork(f) == \E l \in Link : Owner[l] = f /\ link[l].bref \in Nets
WritingSettles ==
    [][ByCompiler /\ KnownApart => \A l \in Link :
            Owner[l] \in fresh /\ ~ToNetwork(Owner[l]) => link'[l] = link[l]]_vars

\* Whatever takes the place of a target, a parse does not turn a link to it
\* into a link to another node: a Bref stays as it is.
BrefsStay ==
    [][ByCompiler => \A l \in Link :
            link[l].bref # NoNode => link'[l].bref = link[l].bref]_vars

\* What the code does not keep.  "Links survive file renames and moves"
\* (README.md): when everything is parsed, a link with a Bref leads to its
\* node.
LinksSurviveMoves ==
    Docs \union Nets \subseteq fresh =>
        \A l \in Link : link[l].bref # NoNode => Leads(l) = link[l].bref

\* "Generate canonical format: [text](relative/path.md#anchor ...)" (md.rs): the
\* anchor is that of the heading.  Not so where a heading has lost its identifier:
\* the link has its Bref for an anchor, which is in no path, so the next parse
\* loses the relation.
HeadingLinksResolve ==
    \A l \in Link :
        LET n == link[l].bref
        IN  /\ Owner[l] \in fresh
            /\ n \in Sources(relation, Owner[l]) \intersect Headings
            /\ KnownApart
            => Leads(l) = n

\* A link to a network is written as its directory.  If that is one word, the
\* next parse takes it for an identifier, and if it is empty, for nothing: the
\* relation that the parse found before is lost or leads to another node.
NetworkLinksStay ==
    [][ByCompiler => \A l \in Link :
            Owner[l] \in fresh /\ relation[l] \in Nets => relation'[l] = relation[l]]_vars
=============================================================================
