-------------------------- MODULE MCFileUpdateSyncer --------------------------
(***************************************************************************)
(* A network with two documents, one of which links to the other, and an   *)
(* image.  doc is the one users edit.                                      *)
(***************************************************************************)
EXTENDS FileUpdateSyncer, TLC

CONSTANTS net, doc, img

MCDocs == {net, doc}
MCImages == {img}
MCLinks == (net :> {doc}) @@ (doc :> {net})
MCLinksImage == (net :> {doc, img}) @@ (doc :> {net})
MCAncestors == (net :> {}) @@ (doc :> {net})
MCDoc == {doc}
MCNone == {}

=============================================================================
