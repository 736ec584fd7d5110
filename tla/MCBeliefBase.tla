---------------------------- MODULE MCBeliefBase ----------------------------
(* Two sources a and b of one sink c, which are alike. *)
EXTENDS BeliefBase, TLC
CONSTANTS a, b, c
MCPairs == {<<a, c>>, <<b, c>>}
MCSymmetry == Permutations({a, b})
=============================================================================
