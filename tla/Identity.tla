------------------------------ MODULE Identity ------------------------------
(***************************************************************************)
(* Which node a heading is.  A text does not hold the Bids of its          *)
(* headings, only their anchors: MdCodec::parse gives each heading an      *)
(* identifier, GraphBuilder::push looks its path up in the session and     *)
(* takes the node there or makes a new one, an identifier that the network *)
(* has already becomes the Bref of the node, and inject_context and        *)
(* finalize write anchors and the table of sections into the text.         *)
(*                                                                         *)
(* A Bref stands for itself as the number of its node.  Documents have     *)
(* their Bid in their frontmatter; a document is its own node here.  All   *)
(* documents are in one network, headings have one level, and one builder  *)
(* parses them with its session, as the watcher does.                      *)
(***************************************************************************)
EXTENDS Naturals, Sequences, FiniteSets, SequencesExt

CONSTANTS
    Docs,
    Titles,      \* the titles, each its own slug (to_anchor)
    DocTitle,    \* the title of each document
    Written,     \* the headings that authors write, with or without an anchor
    NoId,        \* no anchor in the text, or an identifier that is suppressed
    Notes,       \* what authors write of a heading in the table of sections
    NoNote,
    MaxHeadings, \* bound: headings of a document
    MaxNodes,    \* bound: nodes of headings
    MaxChanges   \* bound: changes by authors

\* No title makes the slug that a Bref is, and no document is a heading.
ASSUME IdentityAssumption ==
    /\ (Docs \union Titles) \intersect Nat = {}
    /\ DocTitle \in [Docs -> Titles] /\ \A d, e \in Docs : DocTitle[d] = DocTitle[e] => d = e
    /\ Written \subseteq Titles \X (Titles \union {NoId})
    /\ NoId \notin Titles \union Nat /\ NoNote \notin Notes
    /\ {MaxHeadings, MaxNodes, MaxChanges} \subseteq Nat

VARIABLES
    text,     \* the headings of each document: title, anchor, and the node it
              \* was at its last parse, which is not in the file
    sections, \* the table of sections in each frontmatter: of each anchor, the
              \* Bid and a note
    known,    \* the nodes of headings that the session knows, by Bid
    ids,      \* the id_map of the network's PathMap: identifier -> Bid
    fresh,    \* the documents not changed since their last parse, and none of
              \* whose headings has lost its identifier to a document since
    changes

vars == <<text, sections, known, ids, fresh, changes>>

Unparsed == 0
Heading(title, anchor) == [title |-> title, anchor |-> anchor, node |-> Unparsed]

Init ==
    /\ text = [d \in Docs |-> <<>>] /\ sections = [d \in Docs |-> <<>>]
    /\ known = <<>> /\ ids = <<>>
    /\ fresh = {} /\ changes = 0

----------------------------------------------------------------------------
(* Authors *)

Change(d, headings) ==
    /\ changes < MaxChanges /\ Len(headings) <= MaxHeadings
    /\ text' = [text EXCEPT ![d] = headings]
    /\ fresh' = fresh \ {d} /\ changes' = changes + 1
    /\ UNCHANGED <<sections, known, ids>>

\* A new heading, or a copy of one with its anchor.
Write(d) == \E i \in 1..(Len(text[d]) + 1), w \in Written :
                Change(d, InsertAt(text[d], i, Heading(w[1], w[2])))
Copy(d) == \E i \in 1..(Len(text[d]) + 1), e \in Docs : \E h \in Range(text[e]) :
                h.anchor # NoId /\ Change(d, InsertAt(text[d], i, Heading(h.title, h.anchor)))
Delete(d) == \E i \in DOMAIN text[d] : Change(d, RemoveAt(text[d], i))
Retitle(d) == \E i \in DOMAIN text[d] : \E t \in Titles \ {text[d][i].title} :
                Change(d, [text[d] EXCEPT ![i].title = t])
Strip(d) == \E i \in DOMAIN text[d] :
                text[d][i].anchor # NoId /\ Change(d, [text[d] EXCEPT ![i].anchor = NoId])
\* A note of a heading, new or instead of another one.
Annotate(d) == \E id \in DOMAIN sections[d], n \in Notes :
                /\ changes < MaxChanges
                /\ sections[d][id].note # n
                /\ sections' = [sections EXCEPT ![d][id].note = n]
                /\ fresh' = fresh \ {d} /\ changes' = changes + 1
                /\ UNCHANGED <<text, known, ids>>
Swap(d) == \E i \in DOMAIN text[d] \ {1} :
                Change(d, [text[d] EXCEPT ![i] = text[d][i - 1], ![i - 1] = text[d][i]])

----------------------------------------------------------------------------
(* MdCodec::parse *)

\* The identifier of a heading below the identifiers in seen.  A duplicate
\* anchor is dropped for the title, unless the title is taken too.
Claimed(seen, h) ==
    LET candidate == IF h.anchor = NoId THEN h.title ELSE h.anchor
    IN  CASE candidate \notin seen                            -> candidate
          [] candidate \in seen /\ h.anchor # NoId /\ h.title \notin seen -> h.title
          [] OTHER                                            -> NoId

\* Those of the first headings, and of all.
Claiming(headings) ==
    LET claimed[i \in 0..Len(headings)] ==
            IF i = 0 THEN <<>>
            ELSE Append(claimed[i - 1], Claimed(Range(claimed[i - 1]) \ {NoId}, headings[i]))
    IN  claimed
Claims(headings) == Claiming(headings)[Len(headings)]

----------------------------------------------------------------------------
(* GraphBuilder::push *)

Restricted(f, S) == [x \in S |-> f[x]]
With(f, x, v) == [y \in DOMAIN f \union {x} |-> IF y = x THEN v ELSE f[y]]

\* IdMap::insert: the node loses its old identifier.
Named(map, id, b) == With(Restricted(map, {x \in DOMAIN map : map[x] # b}), id, b)

\* Mutant: the title makes the path.
NameByTitle(b, id, title) == title

\* generate_terminal_path: an identifier that is the own Bref is passed over.
Name(b, id, title) == IF id # b THEN id ELSE title

\* cache_fetch asks the session and, without an answer, the database, which
\* has a node as its last parse has left it.  Both find a node by its path, but
\* take it from a base made of the result, where the path is generated anew.
InSession(session, b, claim) == Name(b, session[b].id, session[b].title) = claim
InDatabase(session, b, claim) == Name(b, session[b].written, session[b].title) = claim

At(session, d, claim) ==
    {b \in DOMAIN session : /\ session[b].doc = d /\ session[b].path = claim
                            /\ InSession(session, b, claim) \/ InDatabase(session, b, claim)}

\* The nodes that have an identifier in the network, by the id_map of the
\* session or else by the column of the database.
Having(session, map, id) ==
    LET listed == IF id \in DOMAIN map THEN {map[id]} ELSE {}
        agreed == {b \in listed : b \in Docs \/ session[b].id = id}
    IN  IF agreed # {} THEN agreed ELSE {b \in DOMAIN session : session[b].written = id}

\* Mutant: only the document is searched.
OwnersInDocument(session, map, d, pushed, id) ==
    {p.node : p \in {p \in Range(pushed) : p.id = id}}

\* The node that has an identifier: one of this parse, else one known.
Owners(session, map, d, pushed, id) ==
    LET local == {p.node : p \in {p \in Range(pushed) : p.id = id}}
    IN  IF local # {} THEN local ELSE Having(session, map, id)

\* BeliefNode::merge: the text of a heading has no notes, so the node keeps its.
Noted(session, found, b) == IF found = {} THEN NoNote ELSE session[b].note

\* The nodes that are new in a parse.
News(pushed) == Cardinality({i \in DOMAIN pushed : pushed[i].new})

\* One heading: the node found, or a new one; its identifier is the stored
\* one, and gives way to another node's (first one wins).
Pushed(session, map, d, pushed, claim, h) ==
    LET found == IF claim = NoId THEN {} ELSE At(session, d, claim)
        new   == Len(session) + News(pushed) + 1
        b     == IF found = {} THEN new ELSE CHOOSE b \in found : TRUE
        own   == CASE found # {} -> IF InSession(session, b, claim) THEN session[b].id
                                    ELSE session[b].written
                   [] claim = NoId -> h.title
                   [] OTHER        -> claim
        lost  == own # b /\ Owners(session, map, d, pushed, own) \ {b} # {}
    IN  Append(pushed, [node |-> b, new |-> found = {}, title |-> h.title,
                        id |-> IF lost THEN b ELSE own,
                        note |-> Noted(session, found, b)])

\* The document comes first, and takes its identifier from a heading that
\* has it.
Clobbered(d) ==
    [b \in DOMAIN known |-> IF b \in Having(known, ids, DocTitle[d])
                            THEN [known[b] EXCEPT !.id = b] ELSE known[b]]

\* find_metadata_match: the entry of a heading in the table is that of its
\* identifier, or else of its title.
Entry(d, p) ==
    CASE p.id \in DOMAIN sections[d] -> sections[d][p.id].note
      [] p.id \notin DOMAIN sections[d] /\ p.title \in DOMAIN sections[d] ->
            sections[d][p.title].note
      [] OTHER -> NoNote

\* update_from_context brings what the node had before, and
\* merge_metadata_into_node leaves it there.
Annotated(d, p) == [p EXCEPT !.note = IF @ = NoNote THEN Entry(d, p) ELSE @]

Pushing(session, map, d) ==
    LET claims == Claims(text[d])
        pushed[i \in 0..Len(text[d])] ==
            IF i = 0 THEN <<>>
            ELSE Pushed(session, map, d, pushed[i - 1], claims[i], text[d][i])
    IN  pushed

PushAll(session, map, d) ==
    [i \in DOMAIN text[d] |-> Annotated(d, Pushing(session, map, d)[Len(text[d])][i])]

----------------------------------------------------------------------------
(* inject_context, finalize and terminate_stack *)

\* The nodes with their new titles and identifiers; new ones have no path yet.
Updated(session, d, pushed) ==
    LET size == Len(session) + News(pushed)
        at(b) == {i \in DOMAIN pushed : pushed[i].node = b}
        put(b, i) == [doc |-> d, title |-> pushed[i].title, id |-> pushed[i].id,
                      written |-> pushed[i].id, note |-> pushed[i].note,
                      path |-> IF pushed[i].new THEN NoId ELSE session[b].path]
    IN  [b \in 1..size |-> IF at(b) = {} THEN session[b] ELSE put(b, CHOOSE i \in at(b) : TRUE)]

\* process_relation_update: the path of a node, which is its Bref if another
\* node of the document has it; a path that is added names the node again.
PathHeard(state, b) ==
    LET nodes == state.nodes
        name  == Name(b, nodes[b].id, nodes[b].title)
        taken == \E c \in DOMAIN nodes \ {b} :
                    nodes[c].doc = nodes[b].doc /\ nodes[c].path = name
        path  == IF taken THEN b ELSE name
    IN  IF path = nodes[b].path THEN state
        ELSE [nodes |-> [nodes EXCEPT ![b].path = path],
              map   |-> Named(state.map, nodes[b].id, b)]

\* The relations of the nodes in order are heard.
Hearing(nodes, map, order) ==
    LET heard[i \in 0..Len(order)] ==
            IF i = 0 THEN [nodes |-> nodes, map |-> map] ELSE PathHeard(heard[i - 1], order[i])
    IN  heard

\* The places of headings that change, and with them those that reindexing
\* may renumber: all of a document whose headings are not those of its last
\* parse in their order, or from which headings have gone.
Moved(d, pushed) ==
    LET nodes == [i \in DOMAIN pushed |-> pushed[i].node]
        was   == [i \in DOMAIN text[d] |-> text[d][i].node]
        here  == {b \in DOMAIN known : known[b].doc = d}
    IN  IF nodes = was /\ here = Range(nodes) THEN {} ELSE SUBSET here

Sections(pushed) ==
    LET names == {p.id : p \in Range(pushed)}
        of(x) == CHOOSE p \in Range(pushed) : p.id = x
    IN  [x \in names |-> [node |-> of(x).node, note |-> of(x).note]]

\* Mutant: the table only grows.
SectionsGrown(d, pushed) ==
    IF DOMAIN Sections(pushed) \subseteq DOMAIN sections[d] THEN sections[d] ELSE Sections(pushed)

\* finalize: the table is written anew when it has other identifiers.
SectionsAfter(d, pushed) ==
    IF DOMAIN Sections(pushed) = DOMAIN sections[d] THEN sections[d] ELSE Sections(pushed)

\* The file is written when a node is new or has changed, or the table of
\* sections has other anchors than before.
Rewritten(session, d, pushed) ==
    \/ SectionsAfter(d, pushed) # sections[d]
    \/ \E p \in Range(pushed) :
          \/ p.new
          \/ p.title # session[p.node].title \/ p.id # session[p.node].written
          \/ p.note # session[p.node].note

\* The headings with their nodes, and with their anchors if the file is written.
HeadingsAfter(d, pushed, rewritten) ==
    [i \in DOMAIN text[d] |-> [title  |-> text[d][i].title, node |-> pushed[i].node,
                               anchor |-> IF rewritten THEN pushed[i].id ELSE text[d][i].anchor]]

ParseWith(d, session, map, pushed) ==
    LET rewritten == Rewritten(session, d, pushed)
        news == [i \in 1..News(pushed) |-> Len(session) + i]
    IN  /\ Len(session) + News(pushed) <= MaxNodes
        /\ text' = [text EXCEPT ![d] = HeadingsAfter(d, pushed, rewritten)]
        /\ sections' = [sections EXCEPT ![d] = SectionsAfter(d, pushed)]
        /\ \E moved \in Moved(d, pushed) \union {{}} : \E order \in SetToSeqs(moved) :
              LET all   == news \o order
                  state == Hearing(Updated(session, d, pushed), map, all)[Len(all)]
              IN  known' = state.nodes /\ ids' = state.map
        /\ fresh' = (fresh \ {session[b].doc : b \in {b \in DOMAIN known : session[b] # known[b]}})
                    \union {d}
        /\ UNCHANGED changes

\* parse_content
Parse(d) ==
    LET session == Clobbered(d)
        map     == Named(ids, DocTitle[d], d)
    IN  ParseWith(d, session, map, PushAll(session, map, d))

Next ==
    \/ \E d \in Docs : Write(d) \/ Copy(d) \/ Delete(d) \/ Retitle(d) \/ Strip(d) \/ Swap(d)
                        \/ Annotate(d)
    \/ \E d \in Docs : Parse(d)

Spec == Init /\ [][Next]_vars
----------------------------------------------------------------------------
\* An identifier names one node of the network: the headings of documents
\* whose texts have been parsed never share one, nor with a parsed document,
\* whatever is copied, retitled or swapped (the check in push).
Live == UNION {{h.node : h \in Range(text[d])} : d \in fresh}
IdsApart ==
    \A b \in Live : /\ \A c \in Live \ {b} : known[b].id # known[c].id
                    /\ \A d \in fresh : known[b].id # DocTitle[d]

\* The table of sections in a parsed text leads from the identifiers of its
\* headings to their nodes, although it is only written anew when it has other
\* identifiers than before, and what an author has noted of a heading there is
\* in the node: a note is not lost when the table is built anew.  (The anchors
\* in the text can differ from these: a file is not written when only they
\* would change.  A note instead of another one does not replace that in the
\* node.)
SectionsNameNodes ==
    \A d \in fresh :
        /\ DOMAIN sections[d] = {known[h.node].id : h \in Range(text[d])}
        /\ \A h \in Range(text[d]) :
              LET entry == sections[d][known[h.node].id]
              IN  /\ entry.node = h.node
                  /\ entry.note # NoNote => known[h.node].note # NoNote

\* A heading keeps its node when it is parsed again, retitled or elsewhere in
\* its document, as long as it has its anchor, no heading above claims it,
\* and none of the document has ever lost its identifier.
AnchorsKeepNodes ==
    [][\A d \in Docs :
          Parse(d) /\ (\A b \in DOMAIN known : known[b].doc = d => known[b].id # b)
          => \A i \in DOMAIN text[d] :
                LET h == text[d][i]
                IN  /\ h.node # Unparsed /\ h.anchor = known[h.node].id
                    /\ h.anchor = Claims(text[d])[i]
                    => text'[d][i].node = h.node]_vars

\* What the code does not keep.  "Second parse should not rewrite content"
\* (bid_tests.rs): a document that has not changed is parsed without effect.
SecondParseRewritesNothing ==
    [][\A d \in fresh : Parse(d) => text' = text]_vars
=============================================================================
