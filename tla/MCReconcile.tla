----------------------------- MODULE MCReconcile -----------------------------
(***************************************************************************)
(* A network 1 with three documents.  Headings 4 and 5 have the same title *)
(* and are swapped, nested, deleted and moved between documents 2 and 3,   *)
(* which both link to document 6; index.md and document 6 stay empty, but  *)
(* are parsed as well.                                                     *)
(***************************************************************************)
EXTENDS Reconcile

Heading(b, level) == [bid |-> b, level |-> level]
LinkTo(to, from) == [to |-> to, from |-> from]
TextOf(headings, links) == [headings |-> headings, links |-> links]

MCFile == 1 :> "net" @@ 2 :> "a.md" @@ 3 :> "b.md" @@ 6 :> "c.md"
MCTitle == 4 :> "intro" @@ 5 :> "intro"
MCHome == 2 :> 1 @@ 3 :> 1 @@ 6 :> 1
MCDocKey == 2 :> 0 @@ 3 :> 1 @@ 6 :> 2
MCTexts ==
    1 :> {NoText}
    @@ 2 :> {NoText,
             TextOf(<<Heading(4, 1), Heading(5, 1)>>, <<>>),
             TextOf(<<Heading(5, 1), Heading(4, 1)>>, <<LinkTo(6, 2)>>),
             TextOf(<<Heading(4, 1), Heading(5, 2)>>, <<LinkTo(6, 4)>>),
             TextOf(<<Heading(5, 1), Heading(4, 2)>>, <<>>),
             TextOf(<<Heading(4, 1)>>, <<>>)}
    @@ 3 :> {TextOf(<<>>, <<LinkTo(6, 3)>>),
             TextOf(<<Heading(5, 1)>>, <<>>)}
    @@ 6 :> {NoText}

\* A document that lists its headings in a table of contents, or does not.
MCListing ==
    1 :> {NoText}
    @@ 2 :> {TextOf(<<Heading(4, 1), Heading(5, 1)>>, <<>>),
             TextOf(<<Heading(4, 1), Heading(5, 1)>>, <<LinkTo(4, 2), LinkTo(5, 2)>>),
             TextOf(<<Heading(4, 1), Heading(5, 2)>>, <<LinkTo(4, 2), LinkTo(5, 2)>>)}
    @@ 3 :> {NoText}
    @@ 6 :> {NoText}
=============================================================================
