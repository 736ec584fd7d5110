------------------------------- MODULE MCSite -------------------------------
EXTENDS Site, TLC

CONSTANTS root, sub, page, leaf, img, pic, t1, t2, c1, c2

\* A page in the repository's network, and one in its subnetwork.
MCHome == (page :> root) @@ (leaf :> sub) @@ (sub :> root)
MCRefs == (page :> {leaf, img}) @@ (leaf :> {sub, page, img, pic})

ValueSymmetry == Permutations({t1, t2}) \cup Permutations({c1, c2})
=============================================================================
