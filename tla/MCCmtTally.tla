----------------------------- MODULE MCCmtTally -----------------------------
(* Three validators of power 1, 1 and 2 (quorum 3 of 4), two blocks and nil, *)
(* two peers.                                                              *)
EXTENDS CmtTally, TLC

CONSTANTS v1, v2, v3

MCPower == (v1 :> 1) @@ (v2 :> 1) @@ (v3 :> 2)
MCWeight(S) == MapThenSumSet(LAMBDA i : MCPower[i], S)
MCSymmetry == Permutations(Blocks) \cup Permutations(Peers) \cup Permutations({v1, v2})

=============================================================================
