------------------------------- MODULE AnchorPaths ----------------------------
(***************************************************************************)
(* Paths inside a repository, as AnchorPath (paths/path.rs) computes with  *)
(* them.  A path is its components and an anchor.  A component with an     *)
(* extension is a file when it is the last one; every other path is a      *)
(* directory, also without a slash at its end.  Paths begin at the root of *)
(* the repository: the code puts the directory of the repository in front  *)
(* of them, joins, and takes it off again (resolve_against and             *)
(* regularize_unchecked in nodekey.rs).                                    *)
(***************************************************************************)
EXTENDS Naturals, Sequences, SequencesExt

CONSTANTS
    Names,      \* the names of files and directories
    Files,      \* names with an extension
    Anchors     \* the anchors there are

Up == ".."
Here == "."
NoAnchor == ""

ASSUME PathsAssumption ==
    /\ Files \subseteq Names /\ Names \intersect {Up, Here} = {}
    /\ NoAnchor \notin Anchors

Parts == Names \union {Up, Here}
Path(parts, anchor) == [parts |-> parts, anchor |-> anchor]

IsFile(parts) == parts # <<>> /\ Last(parts) \in Files
Dir(parts) == IF IsFile(parts) THEN Front(parts) ELSE parts
FileName(parts) == IF IsFile(parts) THEN <<Last(parts)>> ELSE <<>>

\* Mutant: a component that stays is not counted.
TakeKeepsCounting(acc, part) ==
    LET at == Len(acc.kept) - acc.pop + 1
    IN  CASE part = Here -> acc
          [] part = Up -> [acc EXCEPT !.pop = @ + 1]
          [] part \notin {Here, Up} /\ acc.pop > Len(acc.kept) ->
                [up |-> acc.up + acc.pop - Len(acc.kept), kept |-> <<part>>, pop |-> 0]
          [] part \notin {Here, Up} /\ acc.pop \in 1..Len(acc.kept) ->
                IF acc.kept[at] = part THEN acc
                ELSE [up |-> acc.up, kept |-> Append(SubSeq(acc.kept, 1, at - 1), part), pop |-> 0]
          [] OTHER -> [acc EXCEPT !.kept = Append(@, part)]

\* The loop of normalize: a ".." is not taken at once but counted, and paid by
\* the next component that is none: with components before it, which it
\* replaces, or with ".." in front of the result.  A component that comes again
\* where the one to be replaced stands stays, and one less is left to go up.
Take(acc, part) ==
    LET at == Len(acc.kept) - acc.pop + 1
    IN  CASE part = Here -> acc
          [] part = Up -> [acc EXCEPT !.pop = @ + 1]
          [] part \notin {Here, Up} /\ acc.pop > Len(acc.kept) ->
                [up |-> acc.up + acc.pop - Len(acc.kept), kept |-> <<part>>, pop |-> 0]
          [] part \notin {Here, Up} /\ acc.pop \in 1..Len(acc.kept) ->
                IF acc.kept[at] = part THEN [acc EXCEPT !.pop = @ - 1]
                ELSE [up |-> acc.up, kept |-> Append(SubSeq(acc.kept, 1, at - 1), part), pop |-> 0]
          [] OTHER -> [acc EXCEPT !.kept = Append(@, part)]

\* The state of the loop after each number of components.
Taken(parts) ==
    LET taken[i \in 0..Len(parts)] ==
            IF i = 0 THEN [up |-> 0, kept |-> <<>>, pop |-> 0] ELSE Take(taken[i - 1], parts[i])
    IN  taken

\* normalize
Normalize(parts) ==
    LET end  == Taken(parts)[Len(parts)]
        over == Max({0, end.pop - Len(end.kept)})
    IN  [i \in 1..(end.up + over) |-> Up]
        \o SubSeq(end.kept, 1, Max({0, Len(end.kept) - end.pop}))

\* join: a link seen from a file.
Join(from, to) ==
    IF to = Path(<<>>, NoAnchor) THEN from
    ELSE Path(Normalize(Dir(from.parts) \o to.parts
                        \o IF to.parts = <<>> THEN FileName(from.parts) ELSE <<>>),
              to.anchor)

\* path_to, rooted: the link from a file to a path, both seen from the root.
PathTo(from, to) ==
    LET common == {i \in 0..Min({Len(Dir(from.parts)), Len(Dir(to.parts))}) :
                      IsPrefix(SubSeq(Dir(from.parts), 1, i), Dir(to.parts))}
        ups    == [i \in 1..(Len(Dir(from.parts)) - Max(common)) |-> Up]
    IN  IF from.parts = to.parts THEN Path(<<>>, to.anchor)
        ELSE Path(ups \o SubSeq(to.parts, Max(common) + 1, Len(to.parts)), to.anchor)
=============================================================================
