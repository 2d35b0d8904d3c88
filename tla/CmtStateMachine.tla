-------------------------- MODULE CmtStateMachine ---------------------------
(***************************************************************************)
(* The functions of the consensus state machine of shared/dnac/cmt_cs.c.   *)
(*                                                                         *)
(* A C function that changes the struct cs is an operator from its value   *)
(* before to its value after, so that a handler with all the functions it  *)
(* calls is one step.  A return of CMT_FAULT sets cs.fault, which makes    *)
(* every later call a no-op.                                               *)
(*                                                                         *)
(* A vote names a block by its identifier, the hash of the block and the   *)
(* header of the part set that carries its bytes.  The hash is over the    *)
(* block's fields and the header over its bytes, so that two part sets may *)
(* carry one block; the code compares blocks by their hash and part sets   *)
(* by their header.  A part set has one part.                              *)
(***************************************************************************)
EXTENDS CmtHeightVotes, Sequences

CONSTANTS
    Self,               \* the validator that runs the code
    Local,              \* the empty peer id of the node's own messages
    Hashes,             \* the hashes of the blocks
    Headers,            \* the headers of part sets
    NoHeader,           \* the zero header, which a NULL part set has
    Content,            \* the hash of the block that a part set decodes to, or None
    TooMany,            \* the headers of more parts than a block may have
    Unbounded,          \* the headers of more parts than a part set may have
    Oversized,          \* the headers of part sets with too many bytes
    ValidBlocks,        \* the blocks that ValidateBlock and ProcessProposal accept
    OwnBlock,           \* the block that CreateProposalBlock builds
    Proposer,           \* the proposer of each round
    StartHeight,        \* the height of the instance
    InitialHeight,      \* the first height of the chain
    AppHashChanged,     \* whether the last block changed the application's hash
    WaitForTxs,         \* config: a block waits for transactions
    EmptyBlockInterval, \* config: ... but not for ever
    SkipTimeoutCommit   \* config: a full commit starts the next height at once

ASSUME SelfAssumption == Self \in Validators /\ Local \in Peers
\* Anything can be named in a vote; no block has the zero header.
ASSUME BlockAssumption ==
    /\ Blocks = [hash : Hashes, parts : Headers]
    /\ None \notin Hashes /\ NoHeader \in Headers
    /\ Content \in [Headers -> Hashes \cup {None}] /\ Content[NoHeader] = None
    /\ ValidBlocks \subseteq Hashes
ASSUME OwnBlockAssumption ==
    /\ OwnBlock \in Blocks /\ OwnBlock.hash \in ValidBlocks
    /\ OwnBlock.hash = Content[OwnBlock.parts]
ASSUME ProposerAssumption == Proposer \in [0..(MaxRound + 1) -> Validators]
ASSUME HeightAssumption ==
    /\ InitialHeight \in Nat \ {0} /\ StartHeight \in Nat /\ InitialHeight <= StartHeight
ASSUME ConfigAssumption ==
    {AppHashChanged, WaitForTxs, EmptyBlockInterval, SkipTimeoutCommit} \subseteq BOOLEAN
\* CMT_CS_BLOCK_SLOTS: a part set for each of its three names.
Slots == 1..3

\* A NULL pointer is none of the structs that it may stand for.
ASSUME StructAssumption ==
    /\ None \notin [slot : Slots, header : Headers, complete : BOOLEAN]
    /\ None \notin [round : Int, block : Blocks, pol : Int] \cup [round : Int, set : VoteSets]

\* The steps of a round, cmt_round_step_t.
StepNewHeight     == 1
StepNewRound      == 2
StepPropose       == 3
StepPrevote       == 4
StepPrevoteWait   == 5
StepPrecommit     == 6
StepPrecommitWait == 7
StepCommit        == 8

-----------------------------------------------------------------------------
(* Helpers of the state machine.                                           *)

Fault(s) == [s EXCEPT !.fault = TRUE]

Prevotes(s, r) == VotesOf(s.votes, r, "prevote")
Precommits(s, r) == VotesOf(s.votes, r, "precommit")

BlockId(hash, parts) == [hash |-> hash, parts |-> parts]

\* cmt_block_hashes_to: the block is there, and it is the one that b names.
HashesTo(block, b) == b \in Blocks /\ block = b.hash

\* cmt_part_set_header and cmt_part_set_has_header
HeaderOf(parts) == IF parts = None THEN NoHeader ELSE parts.header
HasHeader(s, b) == HeaderOf(s.parts) = b.parts

\* cs_take_part_slot, for a part set that replaces the proposal's: a slot that
\* neither the lock nor the valid block names.
FreeSlot(s) ==
    CHOOSE i \in Slots : \A parts \in {s.locked_parts, s.valid_parts} \ {None} : parts.slot # i

\* cs_new_part_set_from_header: a part set still without its part, NULL when the
\* header is beyond the bound.
NewPartSet(s, header) ==
    IF header \in Unbounded THEN None
    ELSE [slot |-> FreeSlot(s), header |-> header, complete |-> FALSE]

\* The part arrives in the slot, whichever of the three names it has.
FillParts(s) ==
    LET Filled(parts) == IF parts = s.parts THEN [s.parts EXCEPT !.complete = TRUE] ELSE parts
    IN  [s EXCEPT !.parts = Filled(@), !.locked_parts = Filled(@), !.valid_parts = Filled(@)]

\* Faulty variant: only a timeout of a later round is new to the ticker.
OldTickOfRound(ti, h, r, step) ==
    \/ h < ti.height
    \/ h = ti.height /\ r < ti.round
    \/ h = ti.height /\ r = ti.round /\ ti.step > 0

\* The ticker ignores a timeout that is not later than the last it was given.
OldTick(ti, h, r, step) ==
    \/ h < ti.height
    \/ h = ti.height /\ r < ti.round
    \/ h = ti.height /\ r = ti.round /\ ti.step > 0 /\ step <= ti.step

\* cmt_cs_schedule_timeout: a later timeout replaces the one that runs.
ScheduleTimeout(s, h, r, step) ==
    IF OldTick(s.ti, h, r, step)
    THEN s
    ELSE [s EXCEPT !.ti = [height |-> h, round |-> r, step |-> step], !.armed = TRUE]

SendInternal(s, msg) == [s EXCEPT !.queue = Append(@, msg)]

\* The order of votes within a height.
VoteRank(t, r) == 2 * r + IF t = "prevote" THEN 0 ELSE 1

\* The private validator signs a vote only when it is later than everything it
\* signed, or equal to what it signed last (CmtPrivval).
Signable(s, t, b) ==
    \A w \in s.signed : w.height = s.height =>
        \/ VoteRank(w.type, w.round) < VoteRank(t, s.round)
        \/ w.type = t /\ w.round = s.round /\ w.block = b

\* cmt_cs_sign_add_vote: the vote is of the current round, and goes to the
\* node itself through the internal queue.
SignAddVote(s, t, b) ==
    IF Signable(s, t, b)
    THEN LET v == [height |-> s.height, round |-> s.round, type |-> t, block |-> b]
         IN  SendInternal([s EXCEPT !.signed = @ \cup {v}],
                          [kind |-> "vote", height |-> s.height,
                           vote |-> [val |-> Self, type |-> t, round |-> s.round, block |-> b]])
    ELSE [s EXCEPT !.refused = TRUE]

\* cmt_cs_is_proposal_complete
IsProposalComplete(s) ==
    /\ s.proposal # None /\ s.block # None
    /\ s.proposal.pol >= 0 => HasTwoThirdsMajority(Prevotes(s, s.proposal.pol))

\* cmt_cs_need_proof_block
NeedProofBlock(h) == h = InitialHeight \/ AppHashChanged

\* The guard of enterPropose, enterPrevote, enterPrevoteWait and
\* enterPrecommit: the height is current and (r, step) is ahead of the node.
Ahead(s, h, r, step) ==
    ~s.fault /\ s.height = h /\ s.round <= r /\ (s.round = r => s.step < step)

Unlock(s) == [s EXCEPT !.locked_round = -1, !.locked_block = None, !.locked_parts = None]

\* Parts of b are wanted instead of what the node was collecting.
WantParts(s, b) ==
    IF HasHeader(s, b) THEN s ELSE [s EXCEPT !.parts = NewPartSet(s, b.parts)]

-----------------------------------------------------------------------------
(* Rounds, proposals and prevotes.                                         *)

\* Faulty variant: the lock is ignored when a later proposal is acceptable.
DoPrevoteUnlocked(s) ==
    SignAddVote(s, "prevote",
                IF s.block \in ValidBlocks THEN BlockId(s.block, HeaderOf(s.parts)) ELSE Nil)

\* Faulty variant: the proposal block is prevoted without a check of its validity.
DoPrevoteUnchecked(s) ==
    SignAddVote(s, "prevote",
                CASE s.locked_block # None -> BlockId(s.locked_block, HeaderOf(s.locked_parts))
                  [] s.locked_block = None /\ s.block # None -> BlockId(s.block, HeaderOf(s.parts))
                  [] OTHER -> Nil)

\* cmt_cs_default_do_prevote: the locked block, else an acceptable proposal
\* block, else nil.
DoPrevote(s) ==
    SignAddVote(s, "prevote",
                CASE s.locked_block # None -> BlockId(s.locked_block, HeaderOf(s.locked_parts))
                  [] s.locked_block = None /\ s.block \in ValidBlocks ->
                        BlockId(s.block, HeaderOf(s.parts))
                  [] OTHER -> Nil)

EnterPrevote(s, h, r) ==
    IF Ahead(s, h, r, StepPrevote)
    THEN [DoPrevote(s) EXCEPT !.round = r, !.step = StepPrevote]
    ELSE s

\* cs_create_proposal_block succeeds: a commit of the last height is there.
CanPropose(s) ==
    s.height = InitialHeight \/ (s.last_commit # None /\ HasTwoThirdsMajority(s.last_commit.set))

\* cmt_cs_default_decide_proposal: the valid block with its polka's round,
\* else a new block; the proposal and its part go to the internal queue.  A valid
\* block whose part is missing cannot be sent.
DecideProposal(s, r) ==
    IF s.valid_block = None /\ ~CanPropose(s) THEN s
    ELSE IF s.valid_block # None /\ s.valid_parts # None /\ ~s.valid_parts.complete THEN Fault(s)
    ELSE LET b == IF s.valid_block # None THEN BlockId(s.valid_block, HeaderOf(s.valid_parts))
                  ELSE OwnBlock
         IN  SendInternal(SendInternal(s,
                 [kind |-> "proposal", height |-> s.height,
                  proposal |-> [round |-> r, block |-> b, pol |-> s.valid_round]]),
                 [kind |-> "part", height |-> s.height, header |-> b.parts])

EnterPropose(s, h, r) ==
    IF ~Ahead(s, h, r, StepPropose)
    THEN s
    ELSE LET timed    == ScheduleTimeout(s, h, r, StepPropose)
             decided  == IF Proposer[s.round] = Self THEN DecideProposal(timed, r) ELSE timed
             proposed == [decided EXCEPT !.round = r, !.step = StepPropose]
         IN  IF IsProposalComplete(proposed) THEN EnterPrevote(proposed, h, r) ELSE proposed

\* The proposal of an earlier round is dropped; that of round 0 may have
\* arrived before the round started.
ForgetProposal(s, r) ==
    IF r # 0 THEN [s EXCEPT !.proposal = None, !.block = None, !.parts = None] ELSE s

EnterNewRound(s, h, r) ==
    IF s.fault \/ s.height # h \/ r < s.round \/ (s.round = r /\ s.step # StepNewHeight)
    THEN s
    ELSE LET fresh == ForgetProposal([s EXCEPT !.round = r, !.step = StepNewRound,
                                               !.votes = SetRound(@, r + 1),
                                               !.triggered_timeout_precommit = FALSE], r)
         IN  IF s.votes.round # 0 /\ r + 1 < s.votes.round - 1 THEN Fault(s)
             ELSE IF WaitForTxs /\ r = 0 /\ ~NeedProofBlock(h)
             THEN IF EmptyBlockInterval THEN ScheduleTimeout(fresh, h, r, StepNewRound) ELSE fresh
             ELSE EnterPropose(fresh, h, r)

EnterPrevoteWait(s, h, r) ==
    IF ~Ahead(s, h, r, StepPrevoteWait) THEN s
    ELSE IF ~HasTwoThirdsAny(Prevotes(s, r)) THEN Fault(s)
    ELSE [ScheduleTimeout(s, h, r, StepPrevoteWait) EXCEPT !.round = r, !.step = StepPrevoteWait]

-----------------------------------------------------------------------------
(* Precommits and the commit.                                              *)

\* enterPrecommit on a majority of prevotes for a block the node has not got:
\* the lock goes, and the block is asked for.
PrecommitUnknown(s, b) ==
    IF HasHeader(s, b) THEN Unlock(s) ELSE WantParts([Unlock(s) EXCEPT !.block = None], b)

\* A polka for the locked block moves the lock, and keeps its part set.
Relock(s, r) == [s EXCEPT !.locked_round = r]

\* Faulty variant: a new lock keeps the round of the one before.
LockInOldRound(s, r) ==
    [s EXCEPT !.locked_round = IF @ = -1 THEN r ELSE @,
              !.locked_block = s.block, !.locked_parts = s.parts]

Lock(s, r) == [s EXCEPT !.locked_round = r, !.locked_block = s.block, !.locked_parts = s.parts]

\* Faulty variant: a precommit is due again until its timeout runs.
PrecommitDueAgain(s, h, r) == Ahead(s, h, r, StepPrecommitWait)

\* A round has one precommit.
PrecommitDue(s, h, r) == Ahead(s, h, r, StepPrecommit)

EnterPrecommit(s, h, r) ==
    LET maj        == Maj23(s.votes, r, "prevote")
        Done(n, b) == [SignAddVote(n, "precommit", b) EXCEPT !.round = r, !.step = StepPrecommit]
    IN  IF ~PrecommitDue(s, h, r) THEN s
        ELSE IF maj = None THEN Done(s, Nil)
        ELSE IF PolRound(s.votes) < r THEN Fault(s)
        ELSE IF maj = Nil THEN Done(Unlock(s), Nil)
        ELSE IF HashesTo(s.locked_block, maj) THEN Done(Relock(s, r), maj)
        ELSE IF ~HashesTo(s.block, maj) THEN Done(PrecommitUnknown(s, maj), Nil)
        ELSE IF s.block \in ValidBlocks THEN Done(Lock(s, r), maj)
        ELSE Fault(s)

EnterPrecommitWait(s, h, r) ==
    IF s.fault \/ s.height # h \/ r < s.round \/ (s.round = r /\ s.triggered_timeout_precommit)
    THEN s
    ELSE IF ~HasTwoThirdsAny(Precommits(s, r)) THEN Fault(s)
    ELSE [ScheduleTimeout(s, h, r, StepPrecommitWait) EXCEPT !.triggered_timeout_precommit = TRUE]

\* Faulty variant: the last commit is looked for in the current round.
LastPrecommitsOfRound(s) == [round |-> s.round, set |-> Precommits(s, s.round)]

\* The precommits that become the last commit: those of the commit's round.
LastPrecommits(s) == [round |-> s.commit_round, set |-> Precommits(s, s.commit_round)]

\* cmt_cs_update_to_state and cmt_cs_schedule_round0 on the state after the block.
UpdateToState(s) ==
    LET h == s.height + 1
    IN  ScheduleTimeout(
          [s EXCEPT !.height = h, !.round = 0, !.step = StepNewHeight,
                    !.proposal = None, !.block = None, !.parts = None,
                    !.locked_round = -1, !.locked_block = None, !.locked_parts = None,
                    !.valid_round = -1, !.valid_block = None, !.valid_parts = None,
                    !.last_commit = LastPrecommits(s),
                    !.votes = NewHeightVotes, !.commit_round = -1,
                    !.triggered_timeout_precommit = FALSE],
          h, 0, StepNewHeight)

\* cmt_cs_finalize_commit: the block is checked, stored and applied.  The part set
\* must be the committed one, and the store takes none that is incomplete.
FinalizeCommit(s, h, b) ==
    IF s.step # StepCommit THEN s
    ELSE IF s.parts = None \/ s.parts.header # b.parts \/ ~s.parts.complete
            \/ s.block \notin ValidBlocks
    THEN Fault(s)
    ELSE UpdateToState([s EXCEPT !.decided = @ \cup {[height |-> h, block |-> b]}])

\* Nothing happens until the block of the majority is there.
TryFinalizeCommit(s, h) ==
    LET maj == Maj23(s.votes, s.commit_round, "precommit")
    IN  IF s.fault THEN s
        ELSE IF s.height # h THEN Fault(s)
        ELSE IF HashesTo(s.block, maj) THEN FinalizeCommit(s, h, maj)
        ELSE s

\* The block of the majority is taken from the lock, with the lock's part set, or
\* asked for.
CommitBlock(s, b) ==
    LET taken == IF HashesTo(s.locked_block, b)
                 THEN [s EXCEPT !.block = s.locked_block, !.parts = s.locked_parts] ELSE s
    IN  IF HashesTo(taken.block, b) \/ HasHeader(taken, b)
        THEN taken ELSE WantParts([taken EXCEPT !.block = None], b)

EnterCommit(s, h, cr) ==
    LET maj == Maj23(s.votes, cr, "precommit")
    IN  IF s.fault \/ s.height # h \/ StepCommit <= s.step THEN s
        ELSE IF maj = None THEN Fault(s)
        ELSE TryFinalizeCommit([CommitBlock(s, maj) EXCEPT !.step = StepCommit, !.commit_round = cr], h)

-----------------------------------------------------------------------------
(* Messages.                                                               *)

\* cmt_cs_default_set_proposal on a proposal the round's proposer signed: one of
\* too many parts is refused.
SetProposal(s, h, p) ==
    IF \/ s.proposal # None \/ h # s.height \/ p.round # s.round \/ p.pol >= p.round
       \/ p.block.parts \in TooMany \/ (s.parts = None /\ p.block.parts \in Unbounded)
    THEN s
    ELSE [s EXCEPT !.proposal = p,
                   !.parts = IF @ = None THEN NewPartSet(s, p.block.parts) ELSE @]

\* The proposal block becomes the valid block, with the part set beside it.
TakeValid(s, r) ==
    [s EXCEPT !.valid_round = r, !.valid_block = s.block, !.valid_parts = s.parts]

\* ... when the round has a polka for it.
SetValid(s) ==
    IF s.valid_round < s.round /\ HashesTo(s.block, Maj23(s.votes, s.round, "prevote"))
    THEN TakeValid(s, s.round)
    ELSE s

HandleCompleteProposal(s, h) ==
    LET valid    == SetValid(s)
        prevoted == EnterPrevote(valid, h, s.round)
    IN  CASE s.step <= StepPropose /\ IsProposalComplete(valid) ->
                IF HasTwoThirdsMajority(Prevotes(s, s.round))
                THEN EnterPrecommit(prevoted, h, s.round)
                ELSE prevoted
          [] s.step = StepCommit -> TryFinalizeCommit(valid, h)
          [] OTHER -> valid

\* The block of a complete part set: too many bytes leave the block as it is, and
\* bytes that do not decode leave none.
DecodeBlock(s) ==
    IF s.parts.header \in Oversized THEN s ELSE [s EXCEPT !.block = Content[s.parts.header]]

\* cmt_cs_add_proposal_block_part and what handle_msg does when it completes
\* the set: a part is added to a set of its header that has not got it.
AddProposalBlockPart(s, h, header) ==
    IF h # s.height \/ s.parts = None \/ s.parts.header # header \/ s.parts.complete
    THEN s
    ELSE HandleCompleteProposal(DecodeBlock(FillParts(s)), h)

\* Faulty variant: a polka of any round unlocks.
OvertakenByAny(s, r, maj) == s.locked_block # None /\ ~HashesTo(s.locked_block, maj)

\* A polka for something else, later than the lock and not ahead of the node.
Overtaken(s, r, maj) ==
    /\ s.locked_block # None /\ ~HashesTo(s.locked_block, maj)
    /\ s.locked_round < r /\ r <= s.round

\* Faulty variant: the polka's block is not compared with the proposal block.
PolkaTakesBlock(s, r, maj) ==
    IF maj \in Blocks /\ s.valid_round < r /\ r = s.round /\ s.block # None
    THEN WantParts(TakeValid(s, r), maj)
    ELSE s

\* A polka of the current round: its block becomes the valid block, or is asked
\* for in place of what the node was collecting.
PolkaBlock(s, r, maj) ==
    IF maj \in Blocks /\ s.valid_round < r /\ r = s.round
    THEN WantParts(IF HashesTo(s.block, maj) THEN TakeValid(s, r)
                   ELSE [s EXCEPT !.block = None], maj)
    ELSE s

\* cs_add_vote_prevote, after a prevote of round r was added.
AddVotePrevote(s, h, r) ==
    LET maj   == Maj23(s.votes, r, "prevote")
        any   == HasTwoThirdsAny(Prevotes(s, r))
        polka == IF maj = None THEN s
                 ELSE PolkaBlock(IF Overtaken(s, r, maj) THEN Unlock(s) ELSE s, r, maj)
    IN  IF s.round < r /\ any THEN EnterNewRound(polka, h, r)
        ELSE IF s.round = r /\ StepPrevote <= s.step
        THEN IF maj # None /\ (maj = Nil \/ IsProposalComplete(polka)) THEN EnterPrecommit(polka, h, r)
             ELSE IF any THEN EnterPrevoteWait(polka, h, r) ELSE polka
        ELSE IF s.proposal # None /\ s.proposal.pol = r /\ IsProposalComplete(polka)
        THEN EnterPrevote(polka, h, s.round)
        ELSE polka

\* cs_add_vote_precommit, after a precommit of round r was added.
AddVotePrecommit(s, h, r) ==
    LET maj == Maj23(s.votes, r, "precommit")
        any == HasTwoThirdsAny(Precommits(s, r))
        precommitted == EnterPrecommit(EnterNewRound(s, h, r), h, r)
        committed    == EnterCommit(precommitted, h, r)
    IN  IF maj \in Blocks
        THEN IF SkipTimeoutCommit /\ HasAll(Precommits(s, r))
             THEN EnterNewRound(committed, committed.height, 0) ELSE committed
        ELSE IF maj = Nil THEN EnterPrecommitWait(precommitted, h, r)
        ELSE IF s.round <= r /\ any THEN EnterPrecommitWait(EnterNewRound(s, h, r), h, r)
        ELSE s

\* Faulty variant: only conflicts of prevotes are reported.
ReportPrevotes(s, v, conflicting) ==
    IF conflicting /\ v.val # Self /\ v.type = "prevote"
    THEN [s EXCEPT !.reported = @ \cup {[val |-> v.val, type |-> v.type, round |-> v.round]}]
    ELSE s

\* cmt_cs_try_add_vote reports a conflict, whether or not the vote was added,
\* unless it is the node's own.
Report(s, v, conflicting) ==
    IF conflicting /\ v.val # Self
    THEN [s EXCEPT !.reported = @ \cup {[val |-> v.val, type |-> v.type, round |-> v.round]}]
    ELSE s

\* History: the votes of the instance's height that entered a tally.
Count(s, h, v) ==
    IF h = StartHeight
    THEN [s EXCEPT !.counted[v.type] = @ \cup {<<v.val, v.round, v.block>>}]
    ELSE s

\* cs_add_vote_last_commit: a late precommit for the height before.
AddVoteLastCommit(s, v) ==
    IF s.step # StepNewHeight \/ s.last_commit = None \/ s.last_commit.round # v.round
    THEN s
    ELSE LET lc   == s.last_commit.set
             next == Report([s EXCEPT !.last_commit.set = AddVote(lc, v.val, v.block)],
                            v, Conflicting(lc, v.val, v.block))
         IN  IF /\ Added(lc, v.val, v.block) /\ SkipTimeoutCommit
                /\ HasAll(next.last_commit.set)
             THEN EnterNewRound(next, s.height, 0)
             ELSE next

\* cmt_cs_try_add_vote and cs_add_vote.
TryAddVote(s, h, v, p) ==
    IF h = s.height - 1 /\ v.type = "precommit" THEN AddVoteLastCommit(s, v)
    ELSE IF h # s.height THEN s
    ELSE LET next == Report([s EXCEPT !.votes = HvsAddVote(@, v, p)],
                            v, HvsConflicting(s.votes, v, p))
         IN  IF ~HvsAdded(s.votes, v, p) THEN next
             ELSE IF v.type = "prevote" THEN AddVotePrevote(Count(next, h, v), h, v.round)
             ELSE AddVotePrecommit(Count(next, h, v), h, v.round)

\* cmt_cs_handle_msg
HandleMsg(s, m, p) ==
    CASE m.kind = "proposal" -> SetProposal(s, m.height, m.proposal)
      [] m.kind = "part"     -> AddProposalBlockPart(s, m.height, m.header)
      [] m.kind = "vote"     -> TryAddVote(s, m.height, m.vote, p)

\* cmt_cs_handle_timeout
HandleTimeout(s, ti) ==
    IF \/ ti.height # s.height \/ ti.round < s.round
       \/ ti.round = s.round /\ ti.step < s.step
    THEN s
    ELSE CASE ti.step = StepNewHeight   -> EnterNewRound(s, ti.height, 0)
           [] ti.step = StepNewRound    -> EnterPropose(s, ti.height, ti.round)
           [] ti.step = StepPropose     -> EnterPrevote(s, ti.height, ti.round)
           [] ti.step = StepPrevoteWait -> EnterPrecommit(s, ti.height, ti.round)
           [] ti.step = StepPrecommitWait ->
                 EnterNewRound(EnterPrecommit(s, ti.height, ti.round), ti.height, ti.round + 1)

\* cmt_cs_handle_txs_available
HandleTxsAvailable(s) ==
    CASE s.round = 0 /\ s.step = StepNewHeight /\ ~NeedProofBlock(s.height) ->
            ScheduleTimeout(s, s.height, 0, StepNewRound)
      [] s.round = 0 /\ s.step = StepNewRound -> EnterPropose(s, s.height, 0)
      [] OTHER -> s

=============================================================================
