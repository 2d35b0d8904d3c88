------------------------------ MODULE CmtTally ------------------------------
(***************************************************************************)
(* One vote set of shared/dnac/cmt_vote_set.c under every sequence of      *)
(* votes and majority claims: validators that sign for several blocks,     *)
(* votes that arrive twice, peers that claim what nobody voted.            *)
(***************************************************************************)
EXTENDS CmtVoteSet

VARIABLES
    vs,        \* the vote set
    first,     \* the block of each validator's first vote, None before it
    counted    \* the votes that arrived first of their validator or while a
               \* peer's claim for their block stood

vars == <<vs, first, counted>>

Init == /\ vs = NewVoteSet
        /\ first = [i \in Validators |-> None]
        /\ counted = {}

Vouched(b) == \E p \in Peers : vs.peer_maj23s[p] = b

\* cmt_vote_set_add_vote on a vote with a valid signature.
ReceiveVote(i, b) ==
    /\ vs' = AddVote(vs, i, b)
    /\ first' = [first EXCEPT ![i] = IF @ = None THEN b ELSE @]
    /\ counted' = IF first[i] = None \/ Vouched(b) THEN counted \cup {<<i, b>>} ELSE counted

\* cmt_vote_set_set_peer_maj23 on a VoteSetMaj23 message.
ReceiveClaim(p, b) ==
    /\ vs' = SetPeerMaj23(vs, p, b)
    /\ UNCHANGED <<first, counted>>

Next == \/ \E i \in Validators, b \in Values : ReceiveVote(i, b)
        \/ \E p \in Peers, b \in Values : ReceiveClaim(p, b)

Spec == Init /\ [][Next]_vars

-----------------------------------------------------------------------------
TypeOK == /\ IsVoteSet(vs)
          /\ first \in [Validators -> Values \cup {None}]
          /\ counted \subseteq Validators \X Values

\* The running sums are the power of the votes they stand for, so that
\* HasTwoThirdsAny and HasAll speak of the validators that voted, once each,
\* however often their votes conflict (vs->sum and bv->sum of
\* add_verified_vote).  And a block is tallied with exactly the votes the set
\* must count for it: the first vote of a validator, and any vote that arrives
\* while a peer claims a majority for the block.  A vote that was refused before
\* the claim counts when it arrives again.  (The majority block itself needs no
\* further votes: a vote that only replaced the canonical one stays out of its
\* tally.)
TalliedExactly ==
    /\ TypeOK
    /\ vs.sum = Weight({i \in Validators : first[i] # None})
    /\ \A b \in DOMAIN vs.votes_by_block :
          vs.votes_by_block[b].sum = Weight(vs.votes_by_block[b].votes)
    /\ \A b \in Values : ~(vs.has_maj23 /\ vs.maj23 = b) =>
          (IF Tracks(vs, b) THEN vs.votes_by_block[b].votes ELSE {})
              = {i \in Validators : <<i, b>> \in counted}

\* The derivation of CMT_VOTE_SET_MAX_BLOCKS in cmt_vote_set.h: a block is
\* tracked for a validator's first vote or for a peer's only claim, so the
\* fixed table of N + P entries never overflows.
BlocksBounded ==
    Cardinality(DOMAIN vs.votes_by_block)
        <= Cardinality({i \in Validators : first[i] # None})
           + Cardinality({p \in Peers : vs.peer_maj23s[p] # None})

\* Once the majority is known, the canonical votes hold more than two thirds
\* of the power for it, also when some of those validators voted for another
\* block first.  So the commit made of them is a commit, and it can be turned
\* back into a vote set after a restart (cmt_cs_reconstruct_last_commit): every
\* entry verifies and is added, and the restored set has the same majority.
CommitRestores ==
    vs.has_maj23 =>
        /\ \E S \in SUBSET Validators :
              Weight(S) >= Quorum /\ \A i \in S : vs.votes[i] = vs.maj23
        /\ vs.maj23 \in Blocks =>
              LET restored == ToVoteSet(MakeCommit(vs))
              IN  restored # None /\ restored.has_maj23
                  /\ restored.maj23 = vs.maj23

\* The majority of a vote set never changes (the "first quorum" test of
\* add_verified_vote), and no vote leaves the set.
MajorityIsFinal ==
    [][/\ vs.has_maj23 => vs'.has_maj23 /\ vs'.maj23 = vs.maj23
       /\ \A i \in Validators : vs.votes[i] # None => vs'.votes[i] # None]_vars

=============================================================================
