------------------------------ MODULE MCShards ------------------------------
(***************************************************************************)
(* Small sites for Shards: the networks 1 and 3 below the API 8, and the    *)
(* network of hrefs 9; a page 4 in 1 that links to the page 6 in 3 and to   *)
(* the href 2, and a node 7 in no path map.                                 *)
(***************************************************************************)
EXTENDS Shards, TLC

Everything == {1, 2, 3, 4, 6, 7, 8, 9}

First == [states |-> Everything, traces |-> {2, 7, 8, 9},
          home  |-> [n \in Everything |->
                        CASE n \in {1, 3} -> 8 [] n = 4 -> 1 [] n = 6 -> 3 [] n = 2 -> 9
                          [] OTHER -> None],
          edges |-> {<<1, 8>>, <<3, 8>>, <<4, 1>>, <<6, 3>>, <<4, 6>>, <<7, 6>>, <<7, 4>>,
                     <<2, 9>>, <<2, 4>>}]

\* The page 6 is moved to the network 1, and the link to it is gone.
Second == [First EXCEPT !.home[6] = 1,
                        !.edges = (@ \ {<<6, 3>>, <<4, 6>>}) \union {<<6, 1>>}]

PageMoves == <<First, Second>>
MCNets == {1, 3, 8, 9}
MCSystem == {8, 9}
SlotSymmetry == Permutations(Slots)
=============================================================================
