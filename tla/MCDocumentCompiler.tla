-------------------------- MODULE MCDocumentCompiler --------------------------
(***************************************************************************)
(* A network directory with one child document that links back to it, to   *)
(* an image, and to nothing: under a client that calls anything.           *)
(***************************************************************************)
EXTENDS DocumentCompiler, TLC

CONSTANTS net, doc, img

MCDocs == {net, doc}
MCAssets == {img}
MCLinks == (net :> {doc}) @@ (doc :> {net, img})
MCAncestors == (net :> {}) @@ (doc :> {net})
MCDangling == {doc}
MCFaulty == {doc, img}

=============================================================================
