--------------------------- MODULE MCCmtConsensus ---------------------------
(* A validator of power 1 beside one of power 2 and one of power 1: neither *)
(* the validator nor the small one is needed for a quorum of 3 out of 4.    *)
EXTENDS CmtConsensus, TLC

CONSTANTS n0, n1, n2, b1, b2, p0, p1, p2, q1

\* b1 comes in two part sets.
A1 == BlockId(b1, p1)
A2 == BlockId(b2, p2)
B1 == BlockId(b1, q1)
MCBlocks == [hash : {b1, b2}, parts : {p0, p1, p2, q1}]
MCContent == (p0 :> None) @@ (p1 :> b1) @@ (p2 :> b2) @@ (q1 :> b1)

MCPower == (n0 :> 1) @@ (n1 :> 2) @@ (n2 :> 1)
MCWeights == [S \in SUBSET {n0, n1, n2} |-> MapThenSumSet(LAMBDA i : MCPower[i], S)]
MCWeight(S) == MCWeights[S]
MCProposer == (0 :> n0) @@ (1 :> n1) @@ (2 :> n2)
MCLastSigned == (n0 :> None) @@ (n1 :> A1) @@ (n2 :> A1)
MCVotes ==
    [val : {n1}, type : {"prevote"}, round : {0}, block : {A1, A2}]
      \cup [val : {n1}, type : {"prevote"}, round : {1}, block : {A2, B1, Nil}]
      \cup [val : {n1}, type : {"precommit"}, round : {0}, block : {Nil}]
      \cup [val : {n1}, type : {"precommit"}, round : {1}, block : {A2}]
      \cup [val : {n2}, type : {"prevote"}, round : {1}, block : {A2}]
MCProposals == [round : {1}, block : {A2}, pol : {-1}]

=============================================================================
