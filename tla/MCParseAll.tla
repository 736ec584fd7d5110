------------------------------ MODULE MCParseAll ------------------------------
(***************************************************************************)
(* A repository: the root network, a document in it, a sub-network with a  *)
(* document of its own, and an image.  The two documents link to each      *)
(* other across the networks, one to the image and one to nothing.         *)
(***************************************************************************)
EXTENDS ParseAll, TLC

CONSTANTS net, doc, sub, leaf, img

MCDocs == {net, doc, sub, leaf}
MCAssets == {img}
MCLinks == (net :> {doc, sub}) @@ (doc :> {leaf, img}) @@ (sub :> {leaf}) @@ (leaf :> {doc, net})
MCAncestors == (net :> {}) @@ (doc :> {net}) @@ (sub :> {net}) @@ (leaf :> {net, sub})
MCDangling == {leaf}
MCFaulty == {sub, img}
MCRequests == {doc}
MCNone == {}

=============================================================================
