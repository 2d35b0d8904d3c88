----------------------------- MODULE CmtVoteSet -----------------------------
(***************************************************************************)
(* The tally of one (height, round, vote type): cmt_vote_set_t of          *)
(* shared/dnac/cmt_vote_set.c, as a record and the functions on it.        *)
(*                                                                         *)
(* A vote is a validator and the block it names, nil included.  What       *)
(* add_vote refuses before it looks at the tally (a wrong index, address,  *)
(* step or signature) leaves the set as it is and is not represented.      *)
(***************************************************************************)
EXTENDS Integers, FiniteSetsExt

CONSTANTS
    Validators,   \* the validator set
    Power,        \* the voting power of each validator
    Weight(_),    \* the power of a set of validators
    Blocks,       \* the blocks that votes name
    Nil,          \* the block of a nil vote
    None,         \* the NULL of an absent vote, block or claim
    Peers         \* the peers that may claim a majority

ASSUME FiniteAssumption == IsFiniteSet(Validators)
ASSUME PowerAssumption == Power \in [Validators -> Nat \ {0}]
\* Weight adds up the powers.
ASSUME WeightAssumption ==
    /\ \A i \in Validators : Weight({i}) = Power[i]
    /\ \A S \in SUBSET Validators : Weight(S) \in Nat
    /\ \A S, R \in SUBSET Validators : S \cap R = {} => Weight(S \cup R) = Weight(S) + Weight(R)
ASSUME NoneAssumption == Nil \notin Blocks /\ None \notin Blocks \cup {Nil}

Values == Blocks \cup {Nil}

BlockVotes == [peer_maj23 : BOOLEAN, votes : SUBSET Validators, sum : Nat]

VoteSets == [votes : [Validators -> Values \cup {None}], sum : Nat,
             has_maj23 : BOOLEAN, maj23 : Values \cup {None},
             votes_by_block : UNION {[D -> BlockVotes] : D \in SUBSET Values},
             peer_maj23s : [Peers -> Values \cup {None}]]

\* The NULL that stands for a vote set that could not be built is none of them.
ASSUME NullAssumption == None \notin VoteSets

IsVoteSet(vs) ==
    /\ DOMAIN vs = {"votes", "sum", "has_maj23", "maj23", "votes_by_block", "peer_maj23s"}
    /\ vs.votes \in [Validators -> Values \cup {None}]
    /\ vs.sum \in Nat
    /\ vs.has_maj23 \in BOOLEAN
    /\ vs.maj23 \in IF vs.has_maj23 THEN Values ELSE {None}
    /\ DOMAIN vs.votes_by_block \subseteq Values
    /\ \A b \in DOMAIN vs.votes_by_block : vs.votes_by_block[b] \in BlockVotes
    /\ vs.peer_maj23s \in [Peers -> Values \cup {None}]

NewVoteSet ==
    [votes          |-> [i \in Validators |-> None],
     sum            |-> 0,
     has_maj23      |-> FALSE,
     maj23          |-> None,
     votes_by_block |-> [b \in {} |-> None],
     peer_maj23s    |-> [p \in Peers |-> None]]

-----------------------------------------------------------------------------
TotalPower == Weight(Validators)

Quorum == (TotalPower * 2) \div 3 + 1

\* The sets of validators with more than two thirds of the power.
HeightQuorums == {Q \in SUBSET Validators : Weight(Q) >= Quorum}

HasTwoThirdsMajority(vs) == vs.has_maj23
HasTwoThirdsAny(vs) == vs.sum > (TotalPower * 2) \div 3
HasAll(vs) == vs.sum = TotalPower

\* votes_by_block_find
Tracks(vs, b) == b \in DOMAIN vs.votes_by_block

\* get_vote finds a vote of i for b, canonical or tallied.
GetVote(vs, i, b) ==
    \/ vs.votes[i] = b
    \/ Tracks(vs, b) /\ i \in vs.votes_by_block[b].votes

NewBlockVotes(peer_maj23) == [peer_maj23 |-> peer_maj23, votes |-> {}, sum |-> 0]

\* block_votes_add_verified_vote
BlockVotesAdd(bv, i) ==
    IF i \in bv.votes
    THEN bv
    ELSE [bv EXCEPT !.votes = @ \cup {i}, !.sum = @ + Power[i]]

WithBlock(vs, b, bv) ==
    [c \in DOMAIN vs.votes_by_block \cup {b} |->
        IF c = b THEN bv ELSE vs.votes_by_block[c]]

\* i's vote for b conflicts with the one the set holds.
Conflicts(vs, i, b) == vs.votes[i] \notin {None, b}

\* Faulty variant: a conflicting vote is tallied though no peer vouches for
\* its block.
TalliesEverything(vs, i, b) == TRUE

\* The vote gets into the tally of its block: a first vote always, a
\* conflicting one only when a peer claims a majority for its block.
Tallies(vs, i, b) ==
    Conflicts(vs, i, b) => Tracks(vs, b) /\ vs.votes_by_block[b].peer_maj23

\* The canonical vote and the running sum.
Canonical(vs, i, b) ==
    CASE vs.votes[i] = None -> [vs EXCEPT !.votes[i] = b, !.sum = @ + Power[i]]
      [] vs.votes[i] # None /\ vs.has_maj23 /\ vs.maj23 = b -> [vs EXCEPT !.votes[i] = b]
      [] OTHER -> vs

\* Faulty variant: the majority follows the last block to cross the quorum.
MajorityMoves(vs, b, before) ==
    LET bv == vs.votes_by_block[b]
    IN  IF before < Quorum /\ Quorum <= bv.sum
        THEN [vs EXCEPT !.has_maj23 = TRUE, !.maj23 = b,
                        !.votes = [i \in Validators |-> IF i \in bv.votes THEN b ELSE @[i]]]
        ELSE vs

\* The first block to cross the quorum becomes the majority and its votes the
\* canonical ones; `before' is the block's sum before the vote.
Majority(vs, b, before) ==
    LET bv == vs.votes_by_block[b]
    IN  IF before < Quorum /\ Quorum <= bv.sum /\ ~vs.has_maj23
        THEN [vs EXCEPT !.has_maj23 = TRUE, !.maj23 = b,
                        !.votes = [i \in Validators |-> IF i \in bv.votes THEN b ELSE @[i]]]
        ELSE vs

\* add_verified_vote on a vote the set does not hold.
AddVerifiedVote(vs, i, b) ==
    LET kept == Canonical(vs, i, b)
        bv   == IF Tracks(vs, b) THEN vs.votes_by_block[b] ELSE NewBlockVotes(FALSE)
    IN  IF Tallies(vs, i, b)
        THEN Majority([kept EXCEPT !.votes_by_block = WithBlock(vs, b, BlockVotesAdd(bv, i))],
                      b, bv.sum)
        ELSE kept

\* add_vote: a vote the set holds already changes nothing.
AddVote(vs, i, b) == IF GetVote(vs, i, b) THEN vs ELSE AddVerifiedVote(vs, i, b)

\* What add_vote reports: the vote entered the tally, and it conflicts.
Added(vs, i, b) == ~GetVote(vs, i, b) /\ Tallies(vs, i, b)
Conflicting(vs, i, b) == ~GetVote(vs, i, b) /\ Conflicts(vs, i, b)

\* Faulty variant: a peer may claim one block after another.
PeerMayClaimAgain(vs, p, b) == vs.peer_maj23s[p] # b

\* A peer is heard once.
PeerMayClaim(vs, p, b) == vs.peer_maj23s[p] = None

\* cmt_vote_set_set_peer_maj23
SetPeerMaj23(vs, p, b) ==
    IF PeerMayClaim(vs, p, b)
    THEN [vs EXCEPT !.peer_maj23s[p] = b,
                    !.votes_by_block =
                        WithBlock(vs, b, IF Tracks(vs, b)
                                         THEN [@[b] EXCEPT !.peer_maj23 = TRUE]
                                         ELSE NewBlockVotes(TRUE))]
    ELSE vs

-----------------------------------------------------------------------------
\* vote_extended_commit_sig: what a commit keeps of a vote, the flag, with the
\* block the signature is over.
CommitSig(v) ==
    [flag |-> CASE v = None -> "absent" [] v = Nil -> "nil" [] OTHER -> "commit", signed |-> v]

\* Faulty variant: a vote for another block is left in the commit.
MakeCommitOfAllVotes(vs) ==
    [block_id |-> vs.maj23, signatures |-> [i \in Validators |-> CommitSig(vs.votes[i])]]

\* cmt_vote_set_make_extended_commit: the canonical votes, those for another
\* block than the majority's made absent.
MakeCommit(vs) ==
    [block_id   |-> vs.maj23,
     signatures |-> [i \in Validators |->
        CommitSig(IF vs.votes[i] \in Blocks /\ vs.votes[i] # vs.maj23
                  THEN None ELSE vs.votes[i])]]

\* The vote that cmt_commit_get_vote makes of a commit's entry: the flag says
\* whether it names the commit's block or nil.
CommitVote(c, i) == IF c.signatures[i].flag = "commit" THEN c.block_id ELSE Nil

\* One round of the loop of add_sigs_to_vote_set and cmt_commit_to_vote_set.
\* The sum is the vote set built so far, None after a vote that does not verify
\* or is not added.
RestoreVote(c, vs, i) ==
    CASE vs = None -> None
      [] c.signatures[i].flag = "absent" -> vs
      [] OTHER -> IF /\ c.signatures[i].signed = CommitVote(c, i)
                     /\ Added(vs, i, CommitVote(c, i))
                  THEN AddVote(vs, i, CommitVote(c, i))
                  ELSE None

\* cmt_commit_to_vote_set and cmt_extended_commit_to_extended_vote_set.
ToVoteSet(c) == FoldSet(LAMBDA i, vs : RestoreVote(c, vs, i), NewVoteSet, Validators)

=============================================================================
