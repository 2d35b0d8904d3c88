--------------------------- MODULE MCCmtCommit ------------------------------
(* The same validators at a later height: a commit that may come late, for  *)
(* an earlier round or twice, and a majority that a peer claims.            *)
EXTENDS CmtConsensus, TLC

CONSTANTS n0, n1, n2, b1, b2, p0, p1, p2, q1, g, o, u

\* b1 comes in two part sets; g does not decode, o has too many bytes and u too
\* many parts.
A1 == BlockId(b1, p1)
A2 == BlockId(b2, p2)
B1 == BlockId(b1, q1)
G1 == BlockId(b1, g)
O1 == BlockId(b1, o)
U1 == BlockId(b1, u)
MCHeaders == {p0, p1, p2, q1, g, o, u}
MCBlocks == [hash : {b1, b2}, parts : MCHeaders]
MCContent == [p \in MCHeaders |-> CASE p \in {p1, q1, o, u} -> b1 [] p = p2 -> b2 [] OTHER -> None]

MCPower == (n0 :> 1) @@ (n1 :> 2) @@ (n2 :> 1)
MCWeights == [S \in SUBSET {n0, n1, n2} |-> MapThenSumSet(LAMBDA i : MCPower[i], S)]
MCWeight(S) == MCWeights[S]
MCProposer == (0 :> n1) @@ (1 :> n0) @@ (2 :> n2)
MCLastSigned == (n0 :> None) @@ (n1 :> A1) @@ (n2 :> A1)
MCVotes ==
    [val : {n1}, type : {"prevote"}, round : {0}, block : {A1, A2, U1}]
      \cup [val : {n1}, type : {"precommit"}, round : {0}, block : {A1, B1}]
      \cup [val : {n2}, type : {"prevote"}, round : {0}, block : {U1}]
      \cup [val : {n2}, type : {"precommit"}, round : {0}, block : {B1}]
MCProposals == [round : {0}, block : {A1, A2, G1, O1, U1}, pol : {-1}]
MCClaims == [type : {"precommit"}, round : {0}, block : {A1}]

=============================================================================
