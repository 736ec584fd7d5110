------------------------------ MODULE MCLinks ------------------------------
(***************************************************************************)
(* Document 1 in docs/ has two links and heading 5, "usage".  Document 2   *)
(* is in lib/ with heading 4 and another "usage", 6, which has lost its    *)
(* identifier to 5.  3 is the network docs/sub.  Documents move between    *)
(* the directories, and nodes change their titles.                         *)
(***************************************************************************)
EXTENDS Links, TLC

CONSTANTS one, two

\* The two links are in the same document and written alike.
Symmetry == Permutations({one, two})

MCDocs == {1, 2}
MCNets == {3}
MCHeadings == {4, 5, 6}
MCDocOf == [h \in MCHeadings |-> IF h = 5 THEN 1 ELSE 2]
MCSlug == [h \in MCHeadings |-> IF h = 4 THEN "intro" ELSE "usage"]
MCId == [MCSlug EXCEPT ![6] = "bref"]
MCNetDir == [n \in MCNets |-> <<"docs", "sub">>]
MCPlaces == {<<"docs", "a.md">>, <<"lib", "b.md">>, <<"docs", "b.md">>}
MCTitles == {"guide", "sub"}
MCOwner == [l \in Link |-> 1]
MCStartPlace == [d \in MCDocs |-> IF d = 1 THEN <<"docs", "a.md">> ELSE <<"lib", "b.md">>]
MCStartTitle == [n \in 1..6 |-> IF n = 3 THEN "sub" ELSE "guide"]

Inline(parts, anchor, text) == LinkText(Url(parts, anchor), NoNode, FALSE, text)

MCWritten ==
    {Inline(<<"..", "lib", "b.md">>, NoAnchor, "guide"),
     Inline(<<"..", "docs", "..", "lib", "b.md">>, NoAnchor, "mine"),
     Inline(<<"..", "lib", "b.md">>, "intro", "mine"),
     Inline(<<"..", "lib", "b.md">>, "usage", "guide"),
     Inline(<<"b.md">>, NoAnchor, "mine"),
     Inline(<<>>, "usage", "mine"),
     Inline(<<".", "sub">>, NoAnchor, "mine"),
     Inline(<<"sub", "index.md">>, NoAnchor, "mine"),
     Inline(<<"guide">>, NoAnchor, "guide"),
     LinkText(Url(<<"b.md">>, NoAnchor), 2, FALSE, "mine")}

=============================================================================
