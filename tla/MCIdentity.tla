----------------------------- MODULE MCIdentity -----------------------------
(***************************************************************************)
(* Two documents; the title of the second is one that headings have too.   *)
(***************************************************************************)
EXTENDS Identity

CONSTANTS d1, d2, t, u, v, m, n

MCWritten == {<<t, NoId>>, <<u, NoId>>, <<u, t>>}
MCDocTitle == [d \in Docs |-> IF d = d1 THEN v ELSE t]
=============================================================================
