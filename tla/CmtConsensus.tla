---------------------------- MODULE CmtConsensus ----------------------------
(***************************************************************************)
(* One validator running the consensus state machine of                    *)
(* shared/dnac/cmt_cs.c against a network that may send it any signed vote *)
(* of the other validators, any proposal of a round's proposer and any     *)
(* block part, in any order, any number of times, or never.                *)
(*                                                                         *)
(* The variable cs is the C struct of that name; CmtStateMachine has the   *)
(* functions that change it.  The node starts at StartHeight; a run ends   *)
(* soon after that height is decided.                                      *)
(***************************************************************************)
EXTENDS CmtStateMachine

CONSTANTS
    LastSigned,         \* the precommits that the stored commit of the last height has
    LastBlock,          \* the block it commits
    NetVotes,           \* the votes the network may deliver
    NetProposals,       \* the proposals the network may deliver
    NetClaims,          \* the majorities that peers may claim
    MaxTocks            \* bound on undelivered timeouts in the instance

ASSUME LastAssumption ==
    /\ LastBlock \in Blocks /\ LastSigned \in [Validators -> {LastBlock, Nil, None}]
    /\ Weight({i \in Validators : LastSigned[i] = LastBlock}) >= Quorum
ASSUME NetAssumption ==
    /\ NetVotes \subseteq [val : Validators \ {Self}, type : VoteTypes, round : Rounds, block : Values]
    /\ NetProposals \subseteq [round : Rounds, block : Blocks, pol : -1..MaxRound]
    /\ \A m \in NetVotes \cup NetProposals : m.block = Nil \/ m.block.parts # NoHeader
    /\ NetClaims \subseteq [type : VoteTypes, round : Rounds, block : Values]
    /\ MaxTocks \in 1..10

VARIABLE cs

-----------------------------------------------------------------------------
(* The steps of cmt_cs_step, one event of one source each.                 *)

\* The vote set that cmt_cs_reconstruct_last_commit makes of the stored commit:
\* the precommits of +2/3 for the block, and nil or nothing of the others.
SeenCommit ==
    LET SignedFor(b) == {i \in Validators : LastSigned[i] = b}
    IN  [NewVoteSet EXCEPT
            !.votes = LastSigned, !.sum = Weight(Validators \ SignedFor(None)),
            !.has_maj23 = TRUE, !.maj23 = LastBlock,
            !.votes_by_block = [b \in {LastSigned[i] : i \in Validators} \ {None} |->
                [peer_maj23 |-> FALSE, votes |-> SignedFor(b), sum |-> Weight(SignedFor(b))]]]

\* cmt_cs_start after the handshake: the round-0 timeout runs.
Init ==
    cs = [height |-> StartHeight, round |-> 0, step |-> StepNewHeight,
          proposal |-> None, block |-> None, parts |-> None,
          locked_round |-> -1, locked_block |-> None, locked_parts |-> None,
          valid_round |-> -1, valid_block |-> None, valid_parts |-> None,
          votes |-> NewHeightVotes, commit_round |-> -1,
          last_commit |-> IF StartHeight = InitialHeight THEN None
                          ELSE [round |-> 0, set |-> SeenCommit],
          triggered_timeout_precommit |-> FALSE,
          queue |-> <<>>,
          ti |-> [height |-> StartHeight, round |-> 0, step |-> StepNewHeight],
          armed |-> TRUE, tocks |-> <<>>,
          signed |-> {}, counted |-> [t \in VoteTypes |-> {}], decided |-> {}, reported |-> {},
          refused |-> FALSE, fault |-> FALSE]

\* The instance ends at the next height's first round, and at MaxRound.
Running == ~cs.fault /\ (cs.height = StartHeight \/ cs.step = StepNewHeight)
Becomes(next) == Running /\ next.round <= MaxRound /\ cs' = next

ReceiveProposal(p) == Becomes(SetProposal(cs, StartHeight, p))

ReceivePart(header) == Becomes(AddProposalBlockPart(cs, StartHeight, header))

ReceiveVote(v, p) == Becomes(TryAddVote(cs, StartHeight, v, p))

\* A peer's VoteSetMaj23 message.
ReceiveClaim(c, p) ==
    /\ cs.height = StartHeight
    /\ Becomes([cs EXCEPT !.votes = HvsSetPeerMaj23(@, c.round, c.type, p, c.block)])

OwnMessage ==
    /\ cs.queue # <<>>
    /\ Becomes(HandleMsg([cs EXCEPT !.queue = Tail(@)], Head(cs.queue), Local))

\* cmt_cs_on_timer_expired
TimerExpired ==
    /\ cs.armed /\ Len(cs.tocks) < MaxTocks
    /\ Becomes([cs EXCEPT !.armed = FALSE, !.tocks = Append(@, cs.ti)])

Timeout ==
    /\ cs.tocks # <<>>
    /\ Becomes(HandleTimeout([cs EXCEPT !.tocks = Tail(@)], Head(cs.tocks)))

TxsAvailable == WaitForTxs /\ Becomes(HandleTxsAvailable(cs))

Next ==
    \/ \E p \in NetProposals : ReceiveProposal(p)
    \/ \E header \in Headers : ReceivePart(header)
    \/ \E v \in NetVotes, p \in Peers \ {Local} : ReceiveVote(v, p)
    \/ \E c \in NetClaims, p \in Peers \ {Local} : ReceiveClaim(c, p)
    \/ OwnMessage
    \/ TimerExpired
    \/ Timeout
    \/ TxsAvailable

Spec == Init /\ [][Next]_cs

-----------------------------------------------------------------------------
TypeOK ==
    /\ cs.height \in {StartHeight, StartHeight + 1}
    /\ cs.round \in Rounds
    /\ cs.step \in StepNewHeight..StepCommit
    /\ {cs.block, cs.locked_block, cs.valid_block} \subseteq Hashes \cup {None}
    /\ {cs.parts, cs.locked_parts, cs.valid_parts}
          \subseteq [slot : Slots, header : Headers, complete : BOOLEAN] \cup {None}
    /\ cs.locked_round \in -1..MaxRound /\ cs.valid_round \in -1..MaxRound
    /\ cs.commit_round \in -1..MaxRound
    /\ IsHeightVotes(cs.votes)

\* The state machine stops itself (CMT_FAULT, where it is not the host that fails)
\* only on a block that it holds and +2/3 committed under another part set, or
\* under one that it has asked for and not yet got (the case that
\* cmt_cs_finalize_commit registers as R3-AUD-13): never on a late vote, a wrong
\* round, a missing majority, an invalid or undecodable block, as long as less than
\* a third of the other validators' power votes for invalid blocks.
NeverPanics ==
    cs.fault =>
        /\ cs.step = StepCommit
        /\ LET b == Maj23(cs.votes, cs.commit_round, "precommit")
           IN  /\ HashesTo(cs.block, b) /\ cs.block \in ValidBlocks
               /\ HasHeader(cs, b) => ~cs.parts.complete /\ Content[b.parts] # None

\* The node never asks its private validator for a vote that it must refuse:
\* one prevote and one precommit per round, in order.
SignerNeverRefuses == ~cs.refused

\* A lock stands for a precommit that the node signed in the locked round on a
\* polka that it still holds, and what the node would propose is the locked
\* block unless another had a polka after the node first precommitted this one.
\* (The locked round alone does not do: enterPrecommit moves it on a new polka for
\* the locked block, and leaves the valid block as it is.)  The round state keeps
\* its types.
LockBacked ==
    /\ TypeOK
    /\ cs.locked_round = -1 <=> cs.locked_block = None
    /\ cs.locked_block # None =>
          LET polka == Maj23(cs.votes, cs.locked_round, "prevote")
          IN  /\ HashesTo(cs.locked_block, polka)
              /\ [height |-> cs.height, round |-> cs.locked_round, type |-> "precommit",
                  block |-> polka] \in cs.signed
              /\ \E v \in cs.signed :
                    /\ v.height = cs.height /\ v.type = "precommit"
                    /\ HashesTo(cs.locked_block, v.block) /\ v.round <= cs.locked_round
                    /\ cs.valid_block = cs.locked_block \/ v.round < cs.valid_round

\* A block that the node precommitted stays locked, in that round or a later one,
\* until a later round has a polka for something else: a polka that arrives late,
\* for a round before the lock, releases nothing, and neither does one for another
\* part set of the same block.
LockKept ==
    \A v \in cs.signed : v.height = cs.height /\ v.type = "precommit" /\ v.block \in Blocks =>
        \/ HashesTo(cs.locked_block, v.block) /\ cs.locked_round >= v.round
        \/ \E r \in v.round + 1..cs.round :
              LET polka == Maj23(cs.votes, r, "prevote")
              IN  polka # None /\ ~HashesTo(v.block.hash, polka)

\* The part set that goes with a block is one that the node decoded the block from,
\* or +2/3 prevoted the two together.
Paired(block, parts) ==
    block # None /\ parts # None =>
        \/ parts.complete /\ Content[parts.header] = block
        \/ \E r \in Rounds : Maj23(cs.votes, r, "prevote") = BlockId(block, parts.header)

\* The valid block had a polka in the valid round, so that the node's own
\* proposal of it, with that round as POL round, is complete for its peers.
\* And whatever the node locks, proposes, votes for or holds until it commits, the
\* hash and the part set that it names belong together: it decoded the one from the
\* other itself, or takes the word of a polka.
BlocksBacked ==
    /\ cs.valid_round = -1 <=> cs.valid_block = None
    /\ cs.valid_block # None => HashesTo(cs.valid_block, Maj23(cs.votes, cs.valid_round, "prevote"))
    /\ cs.step < StepCommit => Paired(cs.block, cs.parts)
    /\ Paired(cs.locked_block, cs.locked_parts)
    /\ Paired(cs.valid_block, cs.valid_parts)

\* While nothing is queued and no timer runs, the node waits for votes of the
\* current round that it has not got, for the committed block, or for
\* transactions: no round is left without its timeout.
NeverStalls ==
    cs.queue = <<>> /\ cs.tocks = <<>> /\ ~cs.armed /\ Running =>
        \/ cs.step = StepPrevote /\ ~HasTwoThirdsAny(Prevotes(cs, cs.round))
        \/ cs.step = StepPrecommit /\ ~HasTwoThirdsAny(Precommits(cs, cs.round))
        \/ cs.step = StepCommit
        \/ cs.step = StepNewRound /\ WaitForTxs

\* The votes that exist, as far as the node knows, are those it has counted, its
\* own among them: its peers get the node's votes from there.
Voting == INSTANCE CmtVoting WITH
    Honest     <- {Self},
    Early      <- {},
    Quorums    <- HeightQuorums,
    Hash       <- [b \in Blocks |-> b.hash],
    prevotes   <- cs.counted["prevote"],
    precommits <- cs.counted["precommit"]

\* The node lets its votes out as CmtVoting's rules demand, on the strength of
\* the votes it has counted by then, whatever the others sign.
FollowsTheRules == Voting!Spec

\* The node decides a block on a commit for it, one block per height; and above
\* the initial height it always holds a commit for the block before, so that as
\* proposer it has what a block must carry.
DecisionBacked ==
    /\ \A d \in cs.decided :
          /\ d.height = StartHeight /\ \E r \in Rounds : Voting!CommitQuorum(r, d.block)
          /\ \A e \in cs.decided : e.height = d.height => e = d
    /\ cs.height > InitialHeight =>
          cs.last_commit # None /\ HasTwoThirdsMajority(cs.last_commit.set)
    /\ cs.height > StartHeight =>
          [height |-> StartHeight, block |-> cs.last_commit.set.maj23] \in cs.decided

\* Two votes of one validator for one step that were both counted have been
\* reported to the evidence pool.
EquivocationReported ==
    \A t \in VoteTypes : \A v, w \in cs.counted[t] :
        v[1] = w[1] /\ v[1] # Self /\ v[2] = w[2] /\ v # w =>
            [val |-> v[1], type |-> t, round |-> v[2]] \in cs.reported

=============================================================================
