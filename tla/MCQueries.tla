------------------------------ MODULE MCQueries ------------------------------
(***************************************************************************)
(* The API node 0, the root network 1, a network 2 in it with a document   *)
(* 3, and a document 4 of the root.  The parse of document 3 asks for its  *)
(* network and for itself; a client of the service walks one relation from *)
(* network 2 and document 4.  Commits add a heading 5 to document 3 and    *)
(* remove and add its link to document 4.                                  *)
(***************************************************************************)
EXTENDS Queries

CONSTANTS one, two

MCNodes == 0..5
MCStored == 0..4
MCNetworks == {0, 1, 2}
MCSections == {<<1, 0>>, <<2, 1>>, <<3, 2>>, <<4, 1>>, <<5, 3>>}
MCLinks == {<<4, 3>>}
MCChanging == {<<5, 3>>, <<4, 3>>}
MCQuestions == {ParentQuery(3), EntryQuery(3), [seed |-> {2, 4}, radius |-> 1]}
\* A commit brings a link of document 3 to its network.
MCLinkToParent == {<<2, 3>>}
MCKinds == [n \in MCNodes |-> {}]
MCPredicates == [form : {"Bid", "Bref"}, of : SUBSET {2, 3, 4} \union {{1, 3}, {3, 5}, MCNodes}]
MCRelationSets == SUBSET {1, 3, 4}
MCOffsets == {0, 5}
=============================================================================
