------------------------ MODULE CmtConsensusLemmas --------------------------
(***************************************************************************)
(* The invariant of CmtConsensus and lemmas about the functions of         *)
(* CmtStateMachine, for every validator set, every block and every number  *)
(* of rounds.                                                              *)
(*                                                                         *)
(* The invariant is a predicate of the record cs, so that there is one     *)
(* lemma for each C function: what it keeps true and what it leaves alone. *)
(***************************************************************************)
EXTENDS CmtStateMachine, CmtVoteSetProof

\* Zenon is the prover where a leaf names none.
USE Zenon

Fields == {"height", "round", "step", "proposal", "block", "parts",
           "locked_round", "locked_block", "locked_parts",
           "valid_round", "valid_block", "valid_parts",
           "votes", "commit_round", "last_commit", "triggered_timeout_precommit",
           "queue", "ti", "armed", "tocks",
           "signed", "counted", "decided", "reported", "refused", "fault"}

\* n differs from s in the fields of X at most.
Same(n, s, X) == DOMAIN n = Fields /\ \A f \in Fields \ X : n[f] = s[f]

Heights == {StartHeight, StartHeight + 1}
Proposals == [round : Int, block : Blocks, pol : Int]
Parts == [slot : Slots, header : Headers, complete : BOOLEAN]
TickSteps == {StepNewHeight, StepNewRound, StepPropose, StepPrevoteWait, StepPrecommitWait}
Ticks == [height : Heights, round : Nat, step : TickSteps]
OwnVotes == [val : {Self}, type : VoteTypes, round : Nat, block : Values]
SignedVotes == [height : Heights, round : Nat, type : VoteTypes, block : Values]
Messages == [kind : {"vote"}, height : Heights, vote : OwnVotes]
              \cup [kind : {"proposal"}, height : Heights, proposal : Proposals]
              \cup [kind : {"part"}, height : Heights, header : Headers]

-----------------------------------------------------------------------------
(* The invariant.                                                          *)

\* The types of the proposal block and of the part sets.
PartsTyped(s) ==
    /\ s.block \in Hashes \cup {None}
    /\ s.parts \in Parts \cup {None}
    /\ s.locked_parts \in Parts \cup {None}
    /\ s.valid_parts \in Parts \cup {None}

\* The types of the fields.
Typed(s) ==
    /\ DOMAIN s = Fields
    /\ s.height \in Heights
    /\ s.round \in Nat
    /\ s.step \in (1..6) \cup {8}
    /\ s.proposal \in Proposals \cup {None}
    /\ PartsTyped(s)
    /\ s.commit_round \in -1..MaxRound
    /\ s.triggered_timeout_precommit \in BOOLEAN
    /\ s.queue \in Seq(Messages)
    /\ s.ti \in Ticks /\ s.armed \in BOOLEAN /\ s.tocks \in Seq(Ticks)
    /\ s.signed \subseteq SignedVotes
    /\ s.counted \in [VoteTypes -> SUBSET (Validators \X Rounds \X Values)]
    /\ s.fault \in BOOLEAN

\* The node's round is tracked, and the next one when it entered the round by
\* enterNewRound.
VotesOk(votes, round) ==
    /\ HvsOk(votes)
    /\ votes.round = round + 1 \/ (votes.round = 0 /\ round = 0)
    /\ round \in DOMAIN votes.sets
    /\ \A r \in DOMAIN votes.sets : -1 <= r /\ (r <= MaxRound \/ r <= round + 1)
VotesInv(s) == VotesOk(s.votes, s.round)

\* The signed votes of the height are not ahead of the round and step.
SignedOk(signed, refused, height, round, step) ==
    /\ ~refused
    /\ \A w \in signed : w.height <= height
    /\ \A w \in signed : w.height = height =>
          /\ w.round <= round
          /\ w.round = round => IF w.type = "prevote" THEN StepPrevote <= step
                                ELSE StepPrecommit <= step
SignedInv(s) == SignedOk(s.signed, s.refused, s.height, s.round, s.step)

\* A precommit of the node for b.
Precommitted(signed, height, r, b) ==
    [height |-> height, round |-> r, type |-> "precommit", block |-> b] \in signed

LockOk(votes, signed, height, round, locked_round, locked_block, valid_round, valid_block) ==
    /\ locked_block \in Hashes \cup {None} /\ locked_round \in -1..round
    /\ locked_round = -1 <=> locked_block = None
    /\ locked_block # None =>
          /\ HashesTo(locked_block, Maj23(votes, locked_round, "prevote"))
          /\ Precommitted(signed, height, locked_round, Maj23(votes, locked_round, "prevote"))
          /\ \E q \in 0..locked_round : \E b \in Blocks :
                /\ Precommitted(signed, height, q, b) /\ b.hash = locked_block
                /\ valid_block = locked_block \/ q < valid_round
LockInv(s) == LockOk(s.votes, s.signed, s.height, s.round, s.locked_round, s.locked_block,
                     s.valid_round, s.valid_block)

\* A polka of a round from q + 1 to r is for something else than the block of b.
Overtakes(votes, q, r, b) ==
    \E p \in (q + 1)..r : /\ Maj23(votes, p, "prevote") # None
                          /\ ~HashesTo(b.hash, Maj23(votes, p, "prevote"))

KeptOk(votes, signed, height, round, locked_round, locked_block) ==
    \A r \in Nat : \A b \in Blocks : Precommitted(signed, height, r, b) =>
        \/ locked_block = b.hash /\ locked_round >= r
        \/ Overtakes(votes, r, round, b)
KeptInv(s) == KeptOk(s.votes, s.signed, s.height, s.round, s.locked_round, s.locked_block)

\* What the node signed, it may let out by the rules of CmtVoting.
RulesOk(votes, signed, height) ==
    /\ \A r \in Nat : \A b \in Blocks :
          Precommitted(signed, height, r, b) => Maj23(votes, r, "prevote") = b
    /\ \A w \in signed : w.height = height /\ w.type = "prevote" =>
          \A q \in Nat : \A b \in Blocks :
             Precommitted(signed, height, q, b) /\ q < w.round /\ ~HashesTo(b.hash, w.block) =>
                Overtakes(votes, q, w.round, b)
RulesInv(s) == RulesOk(s.votes, s.signed, s.height)

ValidOk(votes, round, valid_round, valid_block) ==
    /\ valid_block \in Hashes \cup {None} /\ valid_round \in -1..round
    /\ valid_round = -1 <=> valid_block = None
    /\ valid_block # None => HashesTo(valid_block, Maj23(votes, valid_round, "prevote"))
ValidInv(s) == ValidOk(s.votes, s.round, s.valid_round, s.valid_block)

\* The block was decoded from the part set, or +2/3 prevoted the two together.
PairOk(votes, round, block, parts) ==
    block # None /\ parts # None =>
        \/ parts.complete /\ Content[parts.header] = block
        \/ \E q \in 0..round : Maj23(votes, q, "prevote") = BlockId(block, parts.header)

\* The proposal block and its part set.  Before the commit, a part set that no
\* proposal names was wanted for a polka.
HeldOk(votes, round, step, fault, proposal, block, parts, valid_round) ==
    /\ PairOk(votes, round, block, parts) \/ (step = StepCommit /\ valid_round = round)
    /\ block # None /\ parts = None => fault \/ valid_round = round
    /\ step < StepCommit /\ proposal = None =>
          /\ block # None => parts # None
          /\ parts # None => Maj23(votes, round, "prevote") \in Blocks
HeldInv(s) == HeldOk(s.votes, s.round, s.step, s.fault, s.proposal, s.block, s.parts, s.valid_round)

LockedPair(s) == PairOk(s.votes, s.round, s.locked_block, s.locked_parts)
ValidPair(s) == PairOk(s.votes, s.round, s.valid_block, s.valid_parts)
BlockInv(s) == HeldInv(s) /\ LockedPair(s) /\ ValidPair(s)

\* The proposal block is the valid block as soon as its round has a polka for it.
CurrentOk(votes, round, step, block, valid_round) ==
    step < StepCommit /\ HashesTo(block, Maj23(votes, round, "prevote")) => valid_round = round
ValidCurrent(s) == CurrentOk(s.votes, s.round, s.step, s.block, s.valid_round)

\* The node's own votes wait in the order in which they were signed.
QueueOk(queue, signed, height, step) ==
    /\ \A i \in DOMAIN queue :
          /\ queue[i].height <= height
          /\ queue[i].height = height => step # StepNewHeight
          /\ queue[i].kind = "vote" =>
                [height |-> queue[i].height, round |-> queue[i].vote.round,
                 type |-> queue[i].vote.type, block |-> queue[i].vote.block] \in signed
    /\ \A i, j \in DOMAIN queue :
          i < j /\ queue[i].kind = "vote" /\ queue[j].kind = "vote"
             /\ queue[i].height = queue[j].height =>
                VoteRank(queue[i].vote.type, queue[i].vote.round)
                   < VoteRank(queue[j].vote.type, queue[j].vote.round)
QueueInv(s) == QueueOk(s.queue, s.signed, s.height, s.step)

\* The tallies of the instance's height are the counted votes.
CountedOk(votes, counted, height) ==
    height = StartHeight =>
        \A t \in VoteTypes : \A r \in Int : \A b \in Values :
            TallyOf(VotesOf(votes, r, t), b).votes
               = {i \in Validators : <<i, r, b>> \in counted[t]}
CountedInv(s) == CountedOk(s.votes, s.counted, s.height)

\* The node's own counted votes were signed, before those that wait.
OwnOk(counted, signed, queue) ==
    \A t \in VoteTypes : \A r \in Rounds : \A b \in Values :
        <<Self, r, b>> \in counted[t] =>
            /\ [height |-> StartHeight, round |-> r, type |-> t, block |-> b] \in signed
            /\ \A i \in DOMAIN queue :
                  queue[i].kind = "vote" /\ queue[i].height = StartHeight =>
                     VoteRank(t, r) < VoteRank(queue[i].vote.type, queue[i].vote.round)
OwnInv(s) == OwnOk(s.counted, s.signed, s.queue)

Reported(reported, i, t, r) == [val |-> i, type |-> t, round |-> r] \in reported

EvidenceOk(votes, counted, reported, height) ==
    \A t \in VoteTypes : \A i \in Validators \ {Self} : \A r \in Rounds : \A b \in Values :
        <<i, r, b>> \in counted[t] =>
            /\ height = StartHeight =>
                  /\ VotesOf(votes, r, t).votes[i] # None
                  /\ VotesOf(votes, r, t).votes[i] # b => Reported(reported, i, t, r)
            /\ \A c \in Values : <<i, r, c>> \in counted[t] /\ b # c => Reported(reported, i, t, r)
EvidenceInv(s) == EvidenceOk(s.votes, s.counted, s.reported, s.height)

\* A quorum of the counted precommits of round r is for b.
CommitCounted(counted, r, b) ==
    \E Q \in HeightQuorums : \A i \in Q : <<i, r, b>> \in counted["precommit"]

DecisionOk(last_commit, decided, counted, height) ==
    /\ last_commit # None =>
          /\ last_commit = [round |-> last_commit.round, set |-> last_commit.set]
          /\ last_commit.round \in Int
          /\ Sound(last_commit.set)
    /\ height > InitialHeight => last_commit # None /\ last_commit.set.has_maj23
    /\ height = StartHeight => decided = {}
    /\ height > StartHeight =>
          /\ decided = {[height |-> StartHeight, block |-> last_commit.set.maj23]}
          /\ \E r \in Rounds : CommitCounted(counted, r, last_commit.set.maj23)
DecisionInv(s) == DecisionOk(s.last_commit, s.decided, s.counted, s.height)

\* No timeout is ahead of the node.
TickOk(ti, tocks, height, round) ==
    /\ ti.height <= height /\ (ti.height = height => ti.round <= round)
    /\ \A i \in DOMAIN tocks :
          tocks[i].height <= height /\ (tocks[i].height = height => tocks[i].round <= round)
TickInv(s) == TickOk(s.ti, s.tocks, s.height, s.round)

Core(s) ==
    /\ Typed(s) /\ VotesInv(s) /\ SignedInv(s)
    /\ LockInv(s) /\ KeptInv(s) /\ RulesInv(s) /\ ValidInv(s) /\ BlockInv(s)
    /\ QueueInv(s) /\ CountedInv(s) /\ OwnInv(s) /\ EvidenceInv(s)
    /\ DecisionInv(s) /\ TickInv(s)

Inv(s) == Core(s) /\ ValidCurrent(s)

-----------------------------------------------------------------------------
(* What a change of a few fields keeps.                                    *)

LEMMA ElementOfSeq ==
    ASSUME NEW S, NEW q \in Seq(S), NEW i \in DOMAIN q
    PROVE  q[i] \in S
BY SMT

LEMMA RoundsBounded ==
    ASSUME NEW r \in Rounds
    PROVE  r \in Int /\ -1 <= r /\ r <= MaxRound
BY MaxRoundAssumption, SMT DEF Rounds

LEMMA HeaderTyped ==
    ASSUME NEW parts \in Parts \cup {None}
    PROVE  HeaderOf(parts) \in Headers /\ (parts # None => HeaderOf(parts) = parts.header)
BY BlockAssumption DEF HeaderOf, Parts

LEMMA HashOfBlock ==
    ASSUME NEW b \in Blocks
    PROVE  b.hash \in Hashes /\ b.hash # None /\ b.parts \in Headers /\ b = BlockId(b.hash, b.parts)
           /\ HashesTo(b.hash, b)
BY BlockAssumption DEF BlockId, HashesTo

LEMMA BlockIdTyped ==
    ASSUME NEW hash \in Hashes, NEW header \in Headers
    PROVE  BlockId(hash, header) \in Blocks /\ BlockId(hash, header).hash = hash
           /\ BlockId(hash, header).parts = header /\ HashesTo(hash, BlockId(hash, header))
BY BlockAssumption DEF BlockId, HashesTo

TallyIsCounted(votes, counted, t, r, b) ==
    TallyOf(VotesOf(votes, r, t), b).votes = {i \in Validators : <<i, r, b>> \in counted[t]}

LEMMA CoreTypes ==
    ASSUME NEW s, Core(s)
    PROVE  /\ DOMAIN s = Fields /\ s.round \in Nat /\ s.step \in 1..8 /\ s.step \in Int
           /\ s.height \in Int /\ StartHeight \in Nat /\ s.height \in Heights
           /\ s.locked_round \in -1..s.round /\ s.locked_round \in Int
           /\ s.valid_round \in -1..s.round /\ s.valid_round \in Int
<1>1. /\ DOMAIN s = Fields /\ s.round \in Nat /\ s.step \in (1..6) \cup {8} /\ s.height \in Heights
      /\ s.locked_round \in -1..s.round /\ s.valid_round \in -1..s.round
  BY DEF Core, Typed, LockInv, LockOk, ValidInv, ValidOk
<1>2. s.step \in 1..8 /\ s.locked_round \in Int /\ s.valid_round \in Int
  BY <1>1, SMT
<1>3. StartHeight \in Nat /\ s.height \in Int
  BY <1>1, HeightAssumption, SMT DEF Heights
<1>4. s.step \in Int
  BY <1>2, SMT
<1> QED BY <1>1, <1>2, <1>3, <1>4

LEMMA TalliesCounted ==
    ASSUME NEW s, Core(s), s.height = StartHeight, NEW t \in VoteTypes, NEW r \in Int, NEW b \in Values
    PROVE  TallyIsCounted(s.votes, s.counted, t, r, b)
BY DEF Core, CountedInv, CountedOk, TallyIsCounted

LEMMA CountedFrom ==
    ASSUME NEW n,
           \A t \in VoteTypes : \A r \in Int : \A b \in Values :
              TallyOf(VotesOf(n.votes, r, t), b).votes = {i \in Validators : <<i, r, b>> \in n.counted[t]}
    PROVE  CountedInv(n)
BY DEF CountedInv, CountedOk

\* A vote enters the counted votes of its type.
WithVote(c, T, i, R, b) == [c EXCEPT ![T] = @ \cup {<<i, R, b>>}]

CountedWith(n, c, T, i, R, b) ==
    /\ n \in [VoteTypes -> SUBSET (Validators \X Rounds \X Values)]
    /\ \A t \in VoteTypes : \A j, r, d :
          <<j, r, d>> \in n[t] <=> <<j, r, d>> \in c[t] \/ (t = T /\ j = i /\ r = R /\ d = b)

LEMMA CountedOnce ==
    ASSUME NEW c \in [VoteTypes -> SUBSET (Validators \X Rounds \X Values)],
           NEW T \in VoteTypes, NEW i \in Validators, NEW R \in Rounds, NEW b \in Values
    PROVE  CountedWith(WithVote(c, T, i, R, b), c, T, i, R, b)
BY SMT DEF CountedWith, WithVote

\* The fields that BlockInv is about, the step and the fault apart.
SameBlocks(n, s) ==
    /\ n.votes = s.votes /\ n.round = s.round /\ n.proposal = s.proposal
    /\ n.block = s.block /\ n.parts = s.parts
    /\ n.locked_block = s.locked_block /\ n.locked_parts = s.locked_parts
    /\ n.valid_round = s.valid_round /\ n.valid_block = s.valid_block
    /\ n.valid_parts = s.valid_parts

\* A step forward or a fault keeps what is known of the blocks.
LEMMA BlocksKept ==
    ASSUME NEW s, NEW n, PartsTyped(s), BlockInv(s), SameBlocks(n, s),
           s.step \in Int, n.step \in Int, n.step <= 8, s.step <= n.step, s.fault => n.fault
    PROVE  PartsTyped(n) /\ BlockInv(n)
<1>1. PartsTyped(n) /\ LockedPair(n) /\ ValidPair(n)
  BY DEF SameBlocks, PartsTyped, BlockInv, LockedPair, ValidPair
<1>2. (n.step < StepCommit => s.step < StepCommit) /\ (s.step = StepCommit => n.step = StepCommit)
  BY SMT DEF StepCommit
<1>3. HeldInv(n)
  BY <1>2 DEF SameBlocks, BlockInv, HeldInv, HeldOk
<1> QED BY <1>1, <1>3 DEF BlockInv

\* Timers, the proposal, its block and parts, and a step forward within the round.
LEMMA FrameCore ==
    ASSUME NEW s, NEW n, Core(s),
           Same(n, s, {"ti", "armed", "tocks", "step", "proposal", "block", "parts",
                       "locked_parts", "valid_parts",
                       "triggered_timeout_precommit", "commit_round", "fault"}),
           n.step \in (1..6) \cup {8}, s.step <= n.step,
           n.proposal \in Proposals \cup {None}, PartsTyped(n), n.commit_round \in -1..MaxRound,
           n.triggered_timeout_precommit \in BOOLEAN, n.fault \in BOOLEAN,
           n.ti \in Ticks, n.armed \in BOOLEAN, n.tocks \in Seq(Ticks),
           TickInv(n), BlockInv(n)
    PROVE  Core(n)
<1> /\ n.height = s.height /\ n.round = s.round
      /\ n.locked_round = s.locked_round /\ n.locked_block = s.locked_block
      /\ n.valid_round = s.valid_round /\ n.valid_block = s.valid_block
      /\ n.votes = s.votes /\ n.last_commit = s.last_commit /\ n.queue = s.queue
      /\ n.signed = s.signed /\ n.counted = s.counted /\ n.decided = s.decided
      /\ n.reported = s.reported /\ n.refused = s.refused
  BY DEF Same, Fields
<1>1. Typed(n)
  BY DEF Core, Typed, Same
<1>2. VotesInv(n) /\ ValidInv(n) /\ CountedInv(n)
  BY DEF Core, VotesInv, ValidInv, CountedInv
<1>3. LockInv(n) /\ KeptInv(n) /\ RulesInv(n)
  BY DEF Core, LockInv, KeptInv, RulesInv
<1>4. s.step \in 1..8 /\ n.step \in 1..8
  BY CoreTypes, SMT
<1>5. SignedInv(n)
  BY <1>4, SMT DEF Core, SignedInv, SignedOk, StepPrevote, StepPrecommit
<1>6. s.step # StepNewHeight => n.step # StepNewHeight
  BY <1>4, SMT DEF StepNewHeight
<1>7. QueueInv(n)
  BY <1>6, SMT DEF Core, QueueInv, QueueOk
<1>8. OwnInv(n) /\ EvidenceInv(n) /\ DecisionInv(n)
  BY DEF Core, OwnInv, EvidenceInv, DecisionInv
<1> QED BY <1>1, <1>2, <1>3, <1>5, <1>7, <1>8 DEF Core

\* The vote of the state's round, and the message that carries it.
OwnVote(s, t, b) == [height |-> s.height, round |-> s.round, type |-> t, block |-> b]
OwnVoteMsg(s, t, b) ==
    [kind |-> "vote", height |-> s.height,
     vote |-> [val |-> Self, type |-> t, round |-> s.round, block |-> b]]

\* The step that goes with a vote.
VoteStep(t) == IF t = "prevote" THEN StepPrevote ELSE StepPrecommit

\* A vote that is due is later than all that the node signed at this height.
LEMMA NewestVote ==
    ASSUME NEW s, Typed(s), SignedInv(s), NEW t \in VoteTypes, s.step < VoteStep(t)
    PROVE  \A w \in s.signed : w.height = s.height => VoteRank(w.type, w.round) < VoteRank(t, s.round)
<1> SUFFICES ASSUME NEW w \in s.signed, w.height = s.height
             PROVE  VoteRank(w.type, w.round) < VoteRank(t, s.round)
  OBVIOUS
<1> w.round \in Nat /\ w.type \in VoteTypes /\ s.round \in Nat /\ s.step \in Int
  BY SMT DEF Typed, SignedVotes
<1>2. w.round <= s.round /\ (w.round = s.round => VoteStep(w.type) <= s.step)
  BY DEF SignedInv, SignedOk, VoteStep
<1>3. CASE w.round < s.round
  BY <1>3, SMT DEF VoteRank
<1>4. CASE w.round = s.round
  <2>1. w.type = "prevote" /\ t = "precommit"
    BY <1>2, <1>4, SMT DEF VoteTypes, VoteStep, StepPrevote, StepPrecommit
  <2> QED BY <1>4, <2>1, SMT DEF VoteRank
<1> QED BY <1>2, <1>3, <1>4, SMT

\* The private validator never has a reason to refuse: the vote is later than
\* all that the node signed at this height.
LEMMA Signs ==
    ASSUME NEW s, Typed(s), SignedInv(s), NEW t \in VoteTypes, NEW b, s.step < VoteStep(t)
    PROVE  LET n == SignAddVote(s, t, b)
           IN  /\ Same(n, s, {"signed", "queue"})
               /\ n.signed = s.signed \cup {OwnVote(s, t, b)}
               /\ n.queue = Append(s.queue, OwnVoteMsg(s, t, b))
<1>1. \A w \in s.signed : w.height = s.height => VoteRank(w.type, w.round) < VoteRank(t, s.round)
  BY NewestVote
<1>2. Signable(s, t, b)
  BY <1>1 DEF Signable
<1>3. SignAddVote(s, t, b) = [[s EXCEPT !.signed = @ \cup {OwnVote(s, t, b)}]
                                EXCEPT !.queue = Append(@, OwnVoteMsg(s, t, b))]
  BY <1>2 DEF SignAddVote, SendInternal, OwnVote, OwnVoteMsg
<1>4. DOMAIN s = Fields /\ "signed" \in Fields /\ "queue" \in Fields
  BY DEF Typed, Fields
<1> QED BY <1>3, <1>4 DEF Same

\* A vote is signed and queued, and the step moves to that of the vote.
LEMMA VoteSignedCore ==
    ASSUME NEW s, NEW n, Core(s), NEW t \in VoteTypes, NEW b \in Values, s.step < VoteStep(t),
           Same(n, s, {"signed", "queue", "step", "locked_round", "locked_block", "locked_parts",
                       "block", "parts"}),
           n.step = VoteStep(t),
           n.signed = s.signed \cup {OwnVote(s, t, b)},
           n.queue = Append(s.queue, OwnVoteMsg(s, t, b)),
           PartsTyped(n), LockInv(n), KeptInv(n), RulesInv(n), BlockInv(n)
    PROVE  Core(n)
<1> DEFINE v == OwnVote(s, t, b)
           m == OwnVoteMsg(s, t, b)
           k == Len(s.queue) + 1
<1> /\ n.height = s.height /\ n.round = s.round /\ n.proposal = s.proposal
      /\ n.valid_round = s.valid_round /\ n.valid_block = s.valid_block
      /\ n.votes = s.votes /\ n.last_commit = s.last_commit /\ n.commit_round = s.commit_round
      /\ n.triggered_timeout_precommit = s.triggered_timeout_precommit
      /\ n.ti = s.ti /\ n.armed = s.armed /\ n.tocks = s.tocks
      /\ n.counted = s.counted /\ n.decided = s.decided
      /\ n.reported = s.reported /\ n.refused = s.refused /\ n.fault = s.fault
  BY DEF Same, Fields
<1> /\ s.height \in Heights /\ s.round \in Nat /\ s.step \in 1..8 /\ n.step \in {4, 6}
      /\ s.height \in Int /\ StartHeight \in Int
      /\ s.queue \in Seq(Messages) /\ s.signed \subseteq SignedVotes
  BY HeightAssumption, SMT DEF Core, Typed, VoteStep, StepPrevote, StepPrecommit, Heights
<1>2. v \in SignedVotes /\ m \in Messages
  BY DEF OwnVote, OwnVoteMsg, SignedVotes, Messages, OwnVotes
<1>3. /\ n.queue \in Seq(Messages)
      /\ DOMAIN n.queue = 1..k /\ k \in Nat /\ DOMAIN s.queue = 1..(k - 1)
      /\ n.queue[k] = m
      /\ \A i \in 1..(k - 1) : n.queue[i] = s.queue[i]
  BY <1>2, SMT
<1>4. Typed(n)
  <2>1. n.signed \subseteq SignedVotes
    BY <1>2
  <2>2. n.step \in (1..6) \cup {8}
    BY SMT
  <2>3. n.queue \in Seq(Messages)
    BY <1>3
  <2> HIDE DEF v, m, k
  <2> QED BY <2>1, <2>2, <2>3 DEF Core, Typed, Same
<1>5. VotesInv(n) /\ ValidInv(n) /\ CountedInv(n) /\ EvidenceInv(n) /\ DecisionInv(n) /\ TickInv(n)
  BY DEF Core, VotesInv, ValidInv, CountedInv, EvidenceInv, DecisionInv, TickInv
<1>6. v.height = s.height /\ v.round = s.round /\ v.type = t /\ v.block = b
  BY DEF OwnVote
<1>7. SignedInv(n)
  <2> HIDE DEF v
  <2>1. ~n.refused
    BY DEF Core, SignedInv, SignedOk
  <2>2. \A w \in n.signed : w.height <= n.height
    BY <1>6, SMT DEF Core, SignedInv, SignedOk, v
  <2>3. ASSUME NEW w \in n.signed, w.height = n.height
        PROVE  /\ w.round <= n.round
               /\ w.round = n.round => VoteStep(w.type) <= n.step
    <3>1. CASE w \in s.signed
      BY <2>3, <3>1, SMT DEF Core, SignedInv, SignedOk, VoteStep, StepPrevote, StepPrecommit
    <3>2. CASE w = v
      BY <1>6, <3>2, SMT DEF VoteStep, StepPrevote, StepPrecommit
    <3> QED BY <3>1, <3>2 DEF v
  <2> QED BY <2>1, <2>2, <2>3 DEF SignedInv, SignedOk, VoteStep
<1> /\ m.kind = "vote" /\ m.height = s.height /\ m.vote.round = s.round
      /\ m.vote.type = t /\ m.vote.block = b
  BY DEF OwnVoteMsg
<1>9. \A w \in s.signed : w.height = s.height => VoteRank(w.type, w.round) < VoteRank(t, s.round)
  BY NewestVote DEF Core
<1>10. QueueInv(n)
  <2> HIDE DEF v, m, k
  <2>1. ASSUME NEW i \in DOMAIN n.queue
        PROVE  /\ n.queue[i].height <= n.height
               /\ n.queue[i].height = n.height => n.step # StepNewHeight
               /\ n.queue[i].kind = "vote" =>
                     [height |-> n.queue[i].height, round |-> n.queue[i].vote.round,
                      type |-> n.queue[i].vote.type, block |-> n.queue[i].vote.block] \in n.signed
    <3>1. CASE i = k
      <4>1. v = [height |-> m.height, round |-> m.vote.round, type |-> m.vote.type, block |-> m.vote.block]
        BY DEF v, OwnVote
      <4> QED BY <1>3, <3>1, <4>1, SMT DEF StepNewHeight, v
    <3>2. CASE i # k
      <4>1. i \in DOMAIN s.queue /\ n.queue[i] = s.queue[i]
        BY <1>3, <3>2, SMT
      <4>2. /\ s.queue[i].height <= s.height
            /\ s.queue[i].kind = "vote" =>
                  [height |-> s.queue[i].height, round |-> s.queue[i].vote.round,
                   type |-> s.queue[i].vote.type, block |-> s.queue[i].vote.block] \in s.signed
        BY <4>1 DEF Core, QueueInv, QueueOk
      <4>3. n.step # StepNewHeight
        BY SMT DEF StepNewHeight
      <4> QED BY <4>1, <4>2, <4>3
    <3> QED BY <3>1, <3>2
  <2>2. ASSUME NEW i \in DOMAIN n.queue, NEW j \in DOMAIN n.queue,
               i < j, n.queue[i].kind = "vote", n.queue[j].kind = "vote",
               n.queue[i].height = n.queue[j].height
        PROVE  VoteRank(n.queue[i].vote.type, n.queue[i].vote.round)
                  < VoteRank(n.queue[j].vote.type, n.queue[j].vote.round)
    <3> i \in DOMAIN s.queue /\ n.queue[i] = s.queue[i]
      BY <1>3, <2>2, SMT
    <3>2. CASE j = k
      <4> DEFINE w == [height |-> s.queue[i].height, round |-> s.queue[i].vote.round,
                       type |-> s.queue[i].vote.type, block |-> s.queue[i].vote.block]
      <4>1. w \in s.signed
        BY <2>2 DEF Core, QueueInv, QueueOk
      <4>2. w.height = s.height /\ w.type = s.queue[i].vote.type /\ w.round = s.queue[i].vote.round
        BY <1>3, <2>2, <3>2
      <4> HIDE DEF w
      <4> QED BY <1>3, <1>9, <3>2, <4>1, <4>2, SMT
    <3>3. CASE j # k
      <4>1. j \in DOMAIN s.queue /\ n.queue[j] = s.queue[j]
        BY <1>3, <3>3, SMT
      <4> QED BY <2>2, <4>1 DEF Core, QueueInv, QueueOk
    <3> QED BY <3>2, <3>3
  <2> QED BY <2>1, <2>2 DEF QueueInv, QueueOk
<1>11. OwnInv(n)
  <2> HIDE DEF v, m, k
  <2> SUFFICES ASSUME NEW u \in VoteTypes, NEW r \in Rounds, NEW c \in Values,
                      <<Self, r, c>> \in n.counted[u]
               PROVE  /\ [height |-> StartHeight, round |-> r, type |-> u, block |-> c] \in n.signed
                      /\ \A i \in DOMAIN n.queue :
                            n.queue[i].kind = "vote" /\ n.queue[i].height = StartHeight =>
                               VoteRank(u, r) < VoteRank(n.queue[i].vote.type, n.queue[i].vote.round)
    BY DEF OwnInv, OwnOk
  <2> DEFINE w == [height |-> StartHeight, round |-> r, type |-> u, block |-> c]
  <2>1. /\ w \in s.signed
        /\ \A i \in DOMAIN s.queue :
              s.queue[i].kind = "vote" /\ s.queue[i].height = StartHeight =>
                 VoteRank(u, r) < VoteRank(s.queue[i].vote.type, s.queue[i].vote.round)
    BY DEF Core, OwnInv, OwnOk
  <2>2. w.height = StartHeight /\ w.type = u /\ w.round = r
    OBVIOUS
  <2> HIDE DEF w
  <2>3. ASSUME NEW i \in DOMAIN n.queue, n.queue[i].kind = "vote", n.queue[i].height = StartHeight
        PROVE  VoteRank(u, r) < VoteRank(n.queue[i].vote.type, n.queue[i].vote.round)
    <3>1. CASE i = k
      BY <1>3, <1>9, <2>1, <2>2, <2>3, <3>1, SMT
    <3>2. CASE i # k
      BY <1>3, <2>1, <2>3, <3>2, SMT
    <3> QED BY <3>1, <3>2
  <2> QED BY <2>1, <2>3 DEF w
<1> QED BY <1>4, <1>5, <1>7, <1>10, <1>11 DEF Core

-----------------------------------------------------------------------------
(* One lemma for each C function.                                          *)

\* cmt_cs_schedule_timeout for a round that is not ahead of the node.
LEMMA ScheduleTimeoutCore ==
    ASSUME NEW s, Core(s), NEW r \in Nat, r <= s.round, NEW step \in TickSteps
    PROVE  LET n == ScheduleTimeout(s, s.height, r, step)
           IN  Core(n) /\ Same(n, s, {"ti", "armed"})
<1> DEFINE n == ScheduleTimeout(s, s.height, r, step)
           t == [height |-> s.height, round |-> r, step |-> step]
<1>0. DOMAIN s = Fields /\ "ti" \in Fields /\ "armed" \in Fields
  BY DEF Core, Typed, Fields
<1>1. CASE OldTick(s.ti, s.height, r, step)
  BY <1>0, <1>1 DEF ScheduleTimeout, Same
<1>2. CASE ~OldTick(s.ti, s.height, r, step)
  <2>1. n = [s EXCEPT !.ti = t, !.armed = TRUE]
    BY <1>2 DEF ScheduleTimeout
  <2>2. t \in Ticks /\ t.height = s.height /\ t.round = r
    BY DEF Core, Typed, Ticks
  <2> HIDE DEF n, t
  <2>3. Same(n, s, {"ti", "armed"}) /\ n.ti = t /\ n.armed = TRUE
    BY <1>0, <2>1 DEF Same
  <2> /\ n.step = s.step /\ n.proposal = s.proposal
        /\ n.commit_round = s.commit_round /\ n.fault = s.fault /\ n.tocks = s.tocks
        /\ n.triggered_timeout_precommit = s.triggered_timeout_precommit
        /\ n.height = s.height /\ n.round = s.round
    BY <2>3 DEF Same, Fields
  <2>5. TickInv(n)
    <3>1. s.height <= s.height
      BY CoreTypes, SMT
    <3> QED BY <2>2, <2>3, <3>1 DEF Core, TickInv, TickOk
  <2>6. s.step <= n.step /\ n.step <= 8 /\ s.step \in Int
    BY CoreTypes, SMT
  <2>4. SameBlocks(n, s)
    BY <2>3 DEF Same, Fields, SameBlocks
  <2>10. PartsTyped(n) /\ BlockInv(n)
    BY <2>4, <2>6, BlocksKept DEF Core, Typed
  <2>7. Same(n, s, {"ti", "armed", "tocks", "step", "proposal", "block", "parts",
                    "locked_parts", "valid_parts",
                    "triggered_timeout_precommit", "commit_round", "fault"})
    BY <2>3 DEF Same
  <2>8. /\ n.step \in (1..6) \cup {8}
        /\ n.proposal \in Proposals \cup {None} /\ n.commit_round \in -1..MaxRound
        /\ n.triggered_timeout_precommit \in BOOLEAN /\ n.fault \in BOOLEAN
        /\ n.ti \in Ticks /\ n.armed \in BOOLEAN /\ n.tocks \in Seq(Ticks)
    BY <2>2, <2>3 DEF Core, Typed
  <2>9. Core(n)
    BY <2>5, <2>6, <2>7, <2>8, <2>10, FrameCore
  <2> QED BY <2>3, <2>9 DEF n
<1> QED BY <1>1, <1>2

\* enterPrevote for a round that is not ahead of the node: the locked block if
\* there is one, so that a precommit that the prevote contradicts is overtaken.
LEMMA EnterPrevoteCore ==
    ASSUME NEW s, Core(s), NEW h, NEW r \in Nat, h = s.height => r <= s.round
    PROVE  LET n == EnterPrevote(s, h, r)
           IN  /\ Core(n) /\ Same(n, s, {"signed", "queue", "step"}) /\ s.step <= n.step
               /\ Ahead(s, h, r, StepPrevote) => n.step = StepPrevote
<1> DEFINE n == EnterPrevote(s, h, r)
           b == CASE s.locked_block # None -> BlockId(s.locked_block, HeaderOf(s.locked_parts))
                  [] s.locked_block = None /\ s.block \in ValidBlocks ->
                        BlockId(s.block, HeaderOf(s.parts))
                  [] OTHER -> Nil
           d == SignAddVote(s, "prevote", b)
<1> /\ DOMAIN s = Fields /\ "signed" \in Fields /\ "queue" \in Fields
      /\ "step" \in Fields /\ "round" \in Fields
      /\ s.step \in Int /\ s.round \in Nat
  BY CoreTypes DEF Fields
<1>1. CASE ~Ahead(s, h, r, StepPrevote)
  BY <1>1, SMT DEF EnterPrevote, Same
<1>2. CASE Ahead(s, h, r, StepPrevote)
  <2> r = s.round /\ s.step < VoteStep("prevote") /\ VoteStep("prevote") = StepPrevote
    BY <1>2, SMT DEF Ahead, VoteStep
  <2>2. b \in Values /\ (s.locked_block # None => HashesTo(s.locked_block, b))
    <3>1. HeaderOf(s.locked_parts) \in Headers /\ HeaderOf(s.parts) \in Headers
      BY HeaderTyped DEF Core, Typed, PartsTyped
    <3>2. s.locked_block \in Hashes \cup {None} /\ ValidBlocks \subseteq Hashes
      BY BlockAssumption DEF Core, LockInv, LockOk
    <3> QED BY <3>1, <3>2, BlockIdTyped DEF Values
  <2>3. n = [d EXCEPT !.round = r, !.step = StepPrevote]
    BY <1>2 DEF EnterPrevote, DoPrevote
  <2>4. /\ Same(d, s, {"signed", "queue"})
        /\ d.signed = s.signed \cup {OwnVote(s, "prevote", b)}
        /\ d.queue = Append(s.queue, OwnVoteMsg(s, "prevote", b))
    <3>1. "prevote" \in VoteTypes
      BY DEF VoteTypes
    <3> HIDE DEF b
    <3> QED BY <3>1, Signs DEF Core
  <2> HIDE DEF b, d, n
  <2>6. /\ Same(n, s, {"signed", "queue", "step"})
        /\ n.step = StepPrevote /\ n.signed = d.signed /\ n.queue = d.queue
    <3>1. d.round = s.round
      BY <2>4 DEF Same
    <3> QED BY <2>3, <2>4, <3>1 DEF Same
  <2> /\ n.height = s.height /\ n.round = s.round /\ n.votes = s.votes
        /\ n.locked_round = s.locked_round /\ n.locked_block = s.locked_block
        /\ n.valid_round = s.valid_round /\ n.valid_block = s.valid_block
        /\ n.fault = s.fault
    BY <2>6 DEF Same, Fields
  <2>8. \A q : \A c : Precommitted(n.signed, n.height, q, c) <=> Precommitted(s.signed, s.height, q, c)
    BY <2>4, <2>6, SMT DEF Precommitted, OwnVote
  <2>9. LockInv(n)
    BY <2>8 DEF Core, LockInv, LockOk
  <2>10. KeptInv(n)
    BY <2>8 DEF Core, KeptInv, KeptOk, Overtakes
  <2>11. RulesInv(n)
    <3>1. \A q \in Nat : \A c \in Blocks : Precommitted(n.signed, n.height, q, c) => Maj23(n.votes, q, "prevote") = c
      BY <2>8 DEF Core, RulesInv, RulesOk
    <3>2. ASSUME NEW w \in n.signed, w.height = n.height, w.type = "prevote", NEW q \in Nat, NEW c \in Blocks,
                 Precommitted(n.signed, n.height, q, c), q < w.round, ~HashesTo(c.hash, w.block)
          PROVE  Overtakes(n.votes, q, w.round, c)
      <4>1. CASE w \in s.signed
        BY <2>8, <3>2, <4>1 DEF Core, RulesInv, RulesOk, Overtakes
      <4>2. CASE w = OwnVote(s, "prevote", b)
        <5>1. w.round = s.round /\ w.block = b
          BY <4>2 DEF OwnVote
        <5>2. \/ s.locked_block = c.hash /\ s.locked_round >= q
              \/ Overtakes(s.votes, q, s.round, c)
          BY <2>8, <3>2 DEF Core, KeptInv, KeptOk
        <5>3. s.locked_block # c.hash
          <6>1. c.hash # None
            BY HashOfBlock
          <6> QED BY <2>2, <3>2, <5>1, <6>1
        <5> QED BY <5>1, <5>2, <5>3 DEF Overtakes
      <4> QED BY <2>4, <2>6, <4>1, <4>2
    <3> QED BY <3>1, <3>2 DEF RulesInv, RulesOk
  <2>12. PartsTyped(n) /\ BlockInv(n)
    <3>1. SameBlocks(n, s)
      BY <2>6 DEF Same, Fields, SameBlocks
    <3>2. n.step \in Int /\ n.step <= 8 /\ s.step <= n.step
      BY <2>6, SMT DEF StepPrevote
    <3> QED BY <3>1, <3>2, BlocksKept DEF Core, Typed
  <2>13. Same(n, s, {"signed", "queue", "step", "locked_round", "locked_block", "locked_parts",
                     "block", "parts"})
    BY <2>6 DEF Same
  <2>14. Core(n)
    <3>1. "prevote" \in VoteTypes
      BY DEF VoteTypes
    <3> QED BY <2>2, <2>4, <2>6, <2>9, <2>10, <2>11, <2>12, <2>13, <3>1, VoteSignedCore
  <2>15. s.step <= n.step
    BY <2>6, SMT DEF StepPrevote
  <2> QED BY <2>6, <2>14, <2>15 DEF n
<1> QED BY <1>1, <1>2

\* The node queues its proposal or its block's part.
LEMMA QueuedCore ==
    ASSUME NEW s, NEW n, Core(s), NEW m \in Messages, m.kind # "vote", m.height = s.height,
           Same(n, s, {"queue", "step"}), n.step \in 2..6, s.step <= n.step,
           n.queue = Append(s.queue, m)
    PROVE  Core(n)
<1> DEFINE k == Len(s.queue) + 1
<1>1. SameBlocks(n, s)
  BY DEF Same, Fields, SameBlocks
<1> /\ n.height = s.height /\ n.round = s.round /\ n.proposal = s.proposal
      /\ n.locked_round = s.locked_round /\ n.locked_block = s.locked_block
      /\ n.valid_round = s.valid_round /\ n.valid_block = s.valid_block
      /\ n.votes = s.votes /\ n.last_commit = s.last_commit /\ n.commit_round = s.commit_round
      /\ n.triggered_timeout_precommit = s.triggered_timeout_precommit
      /\ n.ti = s.ti /\ n.armed = s.armed /\ n.tocks = s.tocks
      /\ n.signed = s.signed /\ n.counted = s.counted /\ n.decided = s.decided
      /\ n.reported = s.reported /\ n.refused = s.refused /\ n.fault = s.fault
  BY DEF Same, Fields
<1> s.queue \in Seq(Messages)
  BY DEF Core, Typed
<1> s.step \in 1..8 /\ n.step \in 2..6 /\ s.height \in Int /\ StartHeight \in Int
  BY CoreTypes, SMT
<1>2. /\ n.queue \in Seq(Messages)
      /\ DOMAIN n.queue = 1..k /\ k \in Nat /\ DOMAIN s.queue = 1..(k - 1)
      /\ n.queue[k] = m
      /\ \A i \in 1..(k - 1) : n.queue[i] = s.queue[i]
  BY SMT
<1>10. PartsTyped(n) /\ BlockInv(n)
  <2>1. s.step \in Int /\ n.step \in Int /\ n.step <= 8 /\ s.step <= n.step
    BY SMT
  <2> HIDE DEF k
  <2> QED BY <1>1, <2>1, BlocksKept DEF Core, Typed
<1>3. Typed(n)
  <2>1. n.step \in (1..6) \cup {8}
    BY SMT
  <2> HIDE DEF k
  <2> QED BY <1>2, <1>10, <2>1 DEF Core, Typed, Same
<1>4. VotesInv(n) /\ ValidInv(n) /\ CountedInv(n) /\ EvidenceInv(n) /\ DecisionInv(n) /\ TickInv(n)
  BY DEF Core, VotesInv, ValidInv, CountedInv, EvidenceInv, DecisionInv, TickInv
<1>5. LockInv(n) /\ KeptInv(n) /\ RulesInv(n)
  BY DEF Core, LockInv, KeptInv, RulesInv
<1>6. SignedInv(n)
  BY SMT DEF Core, SignedInv, SignedOk, StepPrevote, StepPrecommit
<1>7. \A i \in DOMAIN n.queue : i = k \/ (i \in DOMAIN s.queue /\ n.queue[i] = s.queue[i])
  BY <1>2, SMT
<1> HIDE DEF k
<1>8. QueueInv(n)
  <2>1. ASSUME NEW i \in DOMAIN n.queue
        PROVE  /\ n.queue[i].height <= n.height
               /\ n.queue[i].height = n.height => n.step # StepNewHeight
               /\ n.queue[i].kind = "vote" =>
                     [height |-> n.queue[i].height, round |-> n.queue[i].vote.round,
                      type |-> n.queue[i].vote.type, block |-> n.queue[i].vote.block] \in n.signed
    <3>1. CASE i = k
      BY <1>2, <3>1, SMT DEF StepNewHeight
    <3>2. CASE i \in DOMAIN s.queue /\ n.queue[i] = s.queue[i]
      <4>1. /\ s.queue[i].height <= s.height
            /\ s.queue[i].kind = "vote" =>
                  [height |-> s.queue[i].height, round |-> s.queue[i].vote.round,
                   type |-> s.queue[i].vote.type, block |-> s.queue[i].vote.block] \in s.signed
        BY <3>2 DEF Core, QueueInv, QueueOk
      <4>2. n.step # StepNewHeight
        BY SMT DEF StepNewHeight
      <4> QED BY <3>2, <4>1, <4>2
    <3> QED BY <1>7, <3>1, <3>2
  <2>2. ASSUME NEW i \in DOMAIN n.queue, NEW j \in DOMAIN n.queue,
               i < j, n.queue[i].kind = "vote", n.queue[j].kind = "vote",
               n.queue[i].height = n.queue[j].height
        PROVE  VoteRank(n.queue[i].vote.type, n.queue[i].vote.round)
                  < VoteRank(n.queue[j].vote.type, n.queue[j].vote.round)
    <3>1. i # k /\ j # k
      BY <1>2, <2>2
    <3>2. i \in DOMAIN s.queue /\ n.queue[i] = s.queue[i] /\ j \in DOMAIN s.queue /\ n.queue[j] = s.queue[j]
      BY <1>7, <3>1
    <3> QED BY <2>2, <3>2 DEF Core, QueueInv, QueueOk
  <2> QED BY <2>1, <2>2 DEF QueueInv, QueueOk
<1>9. OwnInv(n)
  BY <1>2, <1>7, SMT DEF Core, OwnInv, OwnOk
<1> QED BY <1>3, <1>4, <1>5, <1>6, <1>8, <1>9, <1>10 DEF Core

\* A later round, or the first step of this one: the tallies stay as they are.
LEMMA RoundCore ==
    ASSUME NEW s, NEW n, Core(s),
           Same(n, s, {"round", "step", "votes", "proposal", "block", "parts",
                       "triggered_timeout_precommit"}),
           n.round \in Nat, s.round <= n.round,
           n.step \in 2..6, n.round = s.round => s.step <= n.step,
           n.proposal \in Proposals \cup {None}, PartsTyped(n),
           n.triggered_timeout_precommit \in BOOLEAN,
           VotesInv(n), SameTallies(n.votes, s.votes), BlockInv(n)
    PROVE  Core(n)
<1> /\ n.height = s.height
      /\ n.locked_round = s.locked_round /\ n.locked_block = s.locked_block
      /\ n.valid_round = s.valid_round /\ n.valid_block = s.valid_block
      /\ n.last_commit = s.last_commit /\ n.commit_round = s.commit_round
      /\ n.queue = s.queue
      /\ n.ti = s.ti /\ n.armed = s.armed /\ n.tocks = s.tocks
      /\ n.signed = s.signed /\ n.counted = s.counted /\ n.decided = s.decided
      /\ n.reported = s.reported /\ n.refused = s.refused /\ n.fault = s.fault
  BY DEF Same, Fields
<1> s.step \in 1..8 /\ n.step \in 2..6 /\ s.round \in Nat
  BY CoreTypes, SMT
<1>2. Typed(n)
  <2>1. n.step \in (1..6) \cup {8}
    BY SMT
  <2> QED BY <2>1 DEF Core, Typed, Same
<1>3. /\ \A r : \A t \in VoteTypes : VotesOf(n.votes, r, t) = VotesOf(s.votes, r, t)
      /\ \A r : Maj23(n.votes, r, "prevote") = Maj23(s.votes, r, "prevote")
  BY DEF SameTallies, Maj23, VoteTypes
<1>4. CountedInv(n)
  BY <1>3, SMT DEF Core, CountedInv, CountedOk
<1>5. EvidenceInv(n)
  <2> SUFFICES ASSUME NEW t \in VoteTypes, NEW i \in Validators \ {Self}, NEW r \in Rounds, NEW b \in Values,
                      <<i, r, b>> \in n.counted[t]
               PROVE  /\ n.height = StartHeight =>
                            /\ VotesOf(n.votes, r, t).votes[i] # None
                            /\ VotesOf(n.votes, r, t).votes[i] # b => Reported(n.reported, i, t, r)
                      /\ \A c \in Values : <<i, r, c>> \in n.counted[t] /\ b # c => Reported(n.reported, i, t, r)
    BY DEF EvidenceInv, EvidenceOk
  <2>1. VotesOf(n.votes, r, t) = VotesOf(s.votes, r, t)
    BY <1>3
  <2> QED BY <2>1, SMT DEF Core, EvidenceInv, EvidenceOk, Reported
<1>6. DecisionInv(n) /\ OwnInv(n)
  <2>1. DecisionInv(n)
    BY DEF Core, DecisionInv, DecisionOk, CommitCounted
  <2>2. OwnInv(n)
    BY DEF Core, OwnInv
  <2> QED BY <2>1, <2>2
<1>7. LockInv(n)
  <2>1. n.locked_round \in -1..n.round
    BY CoreTypes, SMT
  <2> QED BY <1>3, <2>1 DEF Core, LockInv, LockOk, Precommitted
<1>8. ValidInv(n)
  <2>1. n.valid_round \in -1..n.round
    BY CoreTypes, SMT
  <2> QED BY <1>3, <2>1 DEF Core, ValidInv, ValidOk
<1>9. KeptInv(n)
  <2>1. ASSUME NEW r \in Nat, NEW b \in Blocks, Overtakes(s.votes, r, s.round, b)
        PROVE  Overtakes(n.votes, r, n.round, b)
    BY <1>3, <2>1, SMT DEF Overtakes
  <2> QED BY <2>1 DEF Core, KeptInv, KeptOk, Precommitted
<1>10. RulesInv(n)
  BY <1>3, SMT DEF Core, RulesInv, RulesOk, Precommitted, Overtakes
<1>11. SignedInv(n)
  <2>1. ASSUME NEW w \in s.signed, w.height = s.height
        PROVE  /\ w.round <= n.round
               /\ w.round = n.round => VoteStep(w.type) <= n.step
    <3>1. w.round \in Nat
      BY DEF Core, Typed, SignedVotes
    <3>2. w.round <= s.round /\ (w.round = s.round => VoteStep(w.type) <= s.step)
      BY <2>1 DEF Core, SignedInv, SignedOk, VoteStep
    <3> QED BY <3>1, <3>2, SMT DEF VoteStep, StepPrevote, StepPrecommit
  <2> QED BY <2>1 DEF Core, SignedInv, SignedOk, VoteStep
<1>12. QueueInv(n)
  <2>1. n.step # StepNewHeight
    BY SMT DEF StepNewHeight
  <2>2. QueueOk(s.queue, s.signed, s.height, s.step)
    BY DEF Core, QueueInv
  <2> QED BY <2>1, <2>2 DEF QueueInv, QueueOk
<1>13. TickInv(n)
  <2>1. s.ti.round \in Nat /\ \A i \in DOMAIN s.tocks : s.tocks[i].round \in Nat
    <3>1. s.ti \in Ticks /\ s.tocks \in Seq(Ticks)
      BY DEF Core, Typed
    <3>2. \A i \in DOMAIN s.tocks : s.tocks[i] \in Ticks
      BY <3>1, SMT
    <3> QED BY <3>1, <3>2 DEF Ticks
  <2> QED BY <2>1, SMT DEF Core, TickInv, TickOk
<1> QED BY <1>2, <1>4, <1>5, <1>6, <1>7, <1>8, <1>9, <1>10, <1>11, <1>12, <1>13 DEF Core

\* The step, a flag or the commit's round alone.
LEMMA StepCore ==
    ASSUME NEW s, NEW n, Core(s),
           Same(n, s, {"step", "triggered_timeout_precommit", "commit_round", "fault"}),
           n.step \in (1..6) \cup {8}, s.step <= n.step, n.commit_round \in -1..MaxRound,
           n.triggered_timeout_precommit \in BOOLEAN, n.fault \in BOOLEAN, s.fault => n.fault
    PROVE  Core(n)
<1>1. /\ n.height = s.height /\ n.round = s.round /\ n.proposal = s.proposal
      /\ n.ti = s.ti /\ n.armed = s.armed /\ n.tocks = s.tocks
  BY DEF Same, Fields
<1>2. TickInv(n)
  BY <1>1 DEF Core, TickInv
<1>3. /\ n.proposal \in Proposals \cup {None}
      /\ n.ti \in Ticks /\ n.armed \in BOOLEAN /\ n.tocks \in Seq(Ticks)
  BY <1>1 DEF Core, Typed
<1>4. Same(n, s, {"ti", "armed", "tocks", "step", "proposal", "block", "parts",
                  "locked_parts", "valid_parts",
                  "triggered_timeout_precommit", "commit_round", "fault"})
  BY DEF Same
<1>5. PartsTyped(n) /\ BlockInv(n)
  <2>1. SameBlocks(n, s)
    BY DEF Same, Fields, SameBlocks
  <2>2. s.step \in Int /\ n.step \in Int /\ n.step <= 8
    BY CoreTypes, SMT
  <2> QED BY <2>1, <2>2, BlocksKept DEF Core, Typed
<1> QED BY <1>2, <1>3, <1>4, <1>5, FrameCore

\* A fault changes nothing else.
LEMMA FaultCore ==
    ASSUME NEW s, Core(s)
    PROVE  LET n == Fault(s)
           IN  Core(n) /\ Same(n, s, {"fault"}) /\ n.fault
<1> DEFINE n == Fault(s)
<1>1. DOMAIN s = Fields /\ "fault" \in Fields
  BY DEF Core, Typed, Fields
<1>2. Same(n, s, {"fault"}) /\ n.fault = TRUE
  BY <1>1 DEF Fault, Same
<1> HIDE DEF n
<1>3. /\ n.step \in (1..6) \cup {8} /\ s.step <= n.step /\ n.commit_round \in -1..MaxRound
      /\ n.triggered_timeout_precommit \in BOOLEAN /\ n.fault \in BOOLEAN
  <2>1. n.step = s.step /\ n.commit_round = s.commit_round
        /\ n.triggered_timeout_precommit = s.triggered_timeout_precommit
    BY <1>2 DEF Same, Fields
  <2>2. s.step \in Int
    BY CoreTypes
  <2>3. n.step \in (1..6) \cup {8} /\ n.commit_round \in -1..MaxRound /\ n.triggered_timeout_precommit \in BOOLEAN
    BY <2>1 DEF Core, Typed
  <2>4. n.fault \in BOOLEAN
    BY <1>2
  <2>5. s.step <= n.step
    BY <2>1, <2>2, SMT
  <2> QED BY <2>3, <2>4, <2>5
<1>4. Same(n, s, {"step", "triggered_timeout_precommit", "commit_round", "fault"})
  BY <1>2 DEF Same
<1>5. Core(n)
  BY <1>2, <1>3, <1>4, StepCore
<1> QED BY <1>2, <1>5 DEF n

\* The messages that carry the node's proposal and its block.
ProposalMsg(s, r, b) ==
    [kind |-> "proposal", height |-> s.height,
     proposal |-> [round |-> r, block |-> b, pol |-> s.valid_round]]
PartMsg(s, b) == [kind |-> "part", height |-> s.height, header |-> b.parts]

\* What enterPropose leaves: the step, the proposal in the queue if the node made
\* one, and a fault if it could not send the valid block.
LEMMA ProposedCore ==
    ASSUME NEW s, NEW n, Core(s), NEW r \in Nat, NEW b \in Blocks, s.step < StepPropose,
           Same(n, s, {"queue", "step", "fault"}), n.step = StepPropose,
           \/ n.queue = s.queue /\ n.fault \in {s.fault, TRUE}
           \/ /\ n.queue = Append(Append(s.queue, ProposalMsg(s, r, b)), PartMsg(s, b))
              /\ n.fault = s.fault
    PROVE  Core(n)
<1> DEFINE m1 == ProposalMsg(s, r, b)
           m2 == PartMsg(s, b)
           m  == [s EXCEPT !.queue = Append(@, m1), !.step = StepPropose]
<1>0. /\ DOMAIN s = Fields /\ "queue" \in Fields /\ "step" \in Fields
      /\ s.step \in 1..8
  BY CoreTypes DEF Fields
<1>1. n.step \in (1..6) \cup {8} /\ s.step <= n.step /\ n.step \in 2..6
  BY <1>0, SMT DEF StepPropose
<1>2. CASE n.queue = s.queue /\ n.fault \in {s.fault, TRUE}
  <2>1. Same(n, s, {"step", "triggered_timeout_precommit", "commit_round", "fault"})
    BY <1>2 DEF Same
  <2>2. /\ n.triggered_timeout_precommit = s.triggered_timeout_precommit
        /\ n.commit_round = s.commit_round
    BY DEF Same, Fields
  <2>3. /\ n.triggered_timeout_precommit \in BOOLEAN /\ n.commit_round \in -1..MaxRound
        /\ n.fault \in BOOLEAN /\ (s.fault => n.fault)
    BY <1>2, <2>2 DEF Core, Typed
  <2> QED BY <1>1, <2>1, <2>3, StepCore
<1>3. CASE n.queue = Append(Append(s.queue, m1), m2) /\ n.fault = s.fault
  <2>1. m1 \in Messages /\ m2 \in Messages
    <3>1. s.valid_round \in Int /\ s.height \in Heights /\ b.parts \in Headers
      BY CoreTypes, HashOfBlock
    <3> QED BY <3>1, SMT DEF Messages, Proposals, ProposalMsg, PartMsg
  <2>2. m1.kind # "vote" /\ m1.height = s.height /\ m2.kind # "vote" /\ m2.height = s.height
    BY DEF ProposalMsg, PartMsg
  <2> HIDE DEF m1, m2
  <2>3. Same(m, s, {"queue", "step"}) /\ m.step = StepPropose /\ m.queue = Append(s.queue, m1)
    BY <1>0 DEF Same
  <2> HIDE DEF m
  <2>4. Core(m)
    BY <1>1, <2>1, <2>2, <2>3, QueuedCore
  <2>5. Same(n, m, {"queue", "step"}) /\ n.queue = Append(m.queue, m2) /\ m.height = s.height
    BY <1>3, <2>3 DEF Same, Fields
  <2>6. n.step \in 2..6 /\ m.step <= n.step
    BY <2>3, SMT DEF StepPropose
  <2> QED BY <2>1, <2>2, <2>4, <2>5, <2>6, QueuedCore
<1> QED BY <1>2, <1>3

\* enterPropose for a round that is not ahead of the node.
LEMMA EnterProposeCore ==
    ASSUME NEW s, Core(s), NEW h, NEW r \in Nat, h = s.height => r <= s.round
    PROVE  LET n == EnterPropose(s, h, r)
           IN  /\ Core(n) /\ Same(n, s, {"ti", "armed", "queue", "step", "signed", "fault"})
               /\ s.step <= n.step
<1> DEFINE n == EnterPropose(s, h, r)
           timed    == ScheduleTimeout(s, h, r, StepPropose)
           decided  == IF Proposer[s.round] = Self THEN DecideProposal(timed, r) ELSE timed
           proposed == [decided EXCEPT !.round = r, !.step = StepPropose]
<1> DOMAIN s = Fields /\ s.step \in Int /\ s.round \in Nat
  BY CoreTypes
<1>1. CASE ~Ahead(s, h, r, StepPropose)
  BY <1>1, SMT DEF EnterPropose, Same
<1>2. CASE Ahead(s, h, r, StepPropose)
  <2> r = s.round /\ h = s.height /\ s.step < StepPropose
    BY <1>2, SMT DEF Ahead
  <2>2. Core(timed) /\ Same(timed, s, {"ti", "armed"})
    <3>1. StepPropose \in TickSteps /\ r <= s.round
      BY DEF TickSteps
    <3> QED BY <3>1, ScheduleTimeoutCore
  <2>3. n \in {proposed, EnterPrevote(proposed, h, r)}
    BY <1>2 DEF EnterPropose
  <2>4. decided = timed \/ decided = DecideProposal(timed, r)
    OBVIOUS
  <2>12. proposed = [decided EXCEPT !.round = r, !.step = StepPropose]
    OBVIOUS
  <2> HIDE DEF n, timed, decided, proposed
  <2>5. timed.step = s.step /\ timed.round = s.round /\ timed.height = s.height
    BY <2>2 DEF Same, Fields
  <2>6. Core(proposed) /\ Same(proposed, timed, {"queue", "step", "fault"}) /\ proposed.step = StepPropose
    <3> DEFINE b  == IF timed.valid_block # None
                     THEN BlockId(timed.valid_block, HeaderOf(timed.valid_parts)) ELSE OwnBlock
               m1 == ProposalMsg(timed, r, b)
               m2 == PartMsg(timed, b)
    <3>0. /\ DOMAIN timed = Fields /\ "queue" \in Fields /\ "step" \in Fields /\ "round" \in Fields
          /\ "fault" \in Fields
      BY <2>2 DEF Same, Fields
    <3>1. b \in Blocks
      <4>1. HeaderOf(timed.valid_parts) \in Headers
        BY <2>2, HeaderTyped DEF Core, Typed, PartsTyped
      <4>2. timed.valid_block \in Hashes \cup {None}
        BY <2>2 DEF Core, ValidInv, ValidOk
      <4> QED BY <4>1, <4>2, BlockIdTyped, OwnBlockAssumption
    <3>2. \/ decided = timed
          \/ decided = [timed EXCEPT !.fault = TRUE]
          \/ decided = [[timed EXCEPT !.queue = Append(@, m1)] EXCEPT !.queue = Append(@, m2)]
      BY <2>4 DEF DecideProposal, Fault, SendInternal, ProposalMsg, PartMsg
    <3> HIDE DEF m1, m2, b
    <3>3. /\ Same(proposed, timed, {"queue", "step", "fault"}) /\ proposed.step = StepPropose
          /\ \/ proposed.queue = timed.queue /\ proposed.fault \in {timed.fault, TRUE}
             \/ /\ proposed.queue = Append(Append(timed.queue, m1), m2)
                /\ proposed.fault = timed.fault
      <4>1. CASE decided = timed
        BY <3>0, <4>1, <2>5, <2>12 DEF Same
      <4>2. CASE decided = [timed EXCEPT !.fault = TRUE]
        BY <3>0, <4>2, <2>5, <2>12 DEF Same
      <4>3. CASE decided = [[timed EXCEPT !.queue = Append(@, m1)] EXCEPT !.queue = Append(@, m2)]
        BY <3>0, <4>3, <2>5, <2>12 DEF Same
      <4> QED BY <3>2, <4>1, <4>2, <4>3
    <3>4. timed.step < StepPropose
      BY <2>5
    <3>5. Core(proposed)
      BY <2>2, <3>1, <3>3, <3>4, ProposedCore DEF m1, m2
    <3> QED BY <3>3, <3>5
  <2>7. Same(proposed, s, {"ti", "armed", "queue", "step", "fault"})
    BY <2>2, <2>6 DEF Same
  <2>8. proposed.height = s.height /\ proposed.round = s.round
    BY <2>7 DEF Same, Fields
  <2> DEFINE p == EnterPrevote(proposed, h, r)
  <2>9. Core(p) /\ Same(p, proposed, {"signed", "queue", "step"}) /\ proposed.step <= p.step
    <3>1. h = proposed.height => r <= proposed.round
      BY <2>8
    <3> QED BY <2>6, <3>1, EnterPrevoteCore
  <2> HIDE DEF p
  <2>10. /\ Same(p, s, {"ti", "armed", "queue", "step", "signed", "fault"})
         /\ Same(proposed, s, {"ti", "armed", "queue", "step", "signed", "fault"})
    BY <2>7, <2>9 DEF Same
  <2>11. s.step <= p.step /\ s.step <= proposed.step
    <3>1. p.step \in Int
      BY <2>9, CoreTypes
    <3> QED BY <2>6, <2>9, <3>1, SMT DEF StepPropose
  <2> QED BY <2>3, <2>6, <2>9, <2>10, <2>11 DEF n, p
<1> QED BY <1>1, <1>2

\* A new round that enterNewRound enters, before it goes on to propose.
LEMMA FreshRoundCore ==
    ASSUME NEW s, NEW n, Core(s), NEW r \in Nat, s.round <= r, s.round = r => s.step = StepNewHeight,
           Same(n, s, {"round", "step", "votes", "proposal", "block", "parts",
                       "triggered_timeout_precommit"}),
           n.round = r, n.step = StepNewRound, n.votes = SetRound(s.votes, r + 1),
           n.triggered_timeout_precommit = FALSE,
           r = 0 => n.proposal = s.proposal /\ n.block = s.block /\ n.parts = s.parts,
           r # 0 => n.proposal = None /\ n.block = None /\ n.parts = None
    PROVE  Core(n) /\ SameTallies(n.votes, s.votes) /\ (ValidCurrent(s) => ValidCurrent(n))
<1> s.step \in 1..8 /\ s.round \in Nat /\ n.valid_round = s.valid_round
  BY CoreTypes DEF Same, Fields
<1>1. /\ HvsOk(n.votes) /\ n.votes.round = r + 1 /\ n.votes.catchup = s.votes.catchup
      /\ DOMAIN n.votes.sets = DOMAIN s.votes.sets \cup ((s.votes.round - 1)..(r + 1))
      /\ SameTallies(n.votes, s.votes)
  <2>1. HvsOk(s.votes) /\ r + 1 \in Int
    <3>1. HvsOk(s.votes)
      BY DEF Core, VotesInv, VotesOk
    <3>2. r + 1 \in Int
      BY SMT
    <3> QED BY <3>1, <3>2
  <2> DEFINE w == SetRound(s.votes, r + 1)
  <2>2. /\ HvsOk(w) /\ w.round = r + 1 /\ w.catchup = s.votes.catchup
        /\ DOMAIN w.sets = DOMAIN s.votes.sets \cup ((s.votes.round - 1)..(r + 1))
        /\ SameTallies(w, s.votes)
    BY <2>1, SetRoundOk
  <2> HIDE DEF w
  <2> QED BY <2>2 DEF w
<1>2. VotesInv(n)
  <2>1. s.votes.round = s.round + 1 \/ (s.votes.round = 0 /\ s.round = 0)
    BY DEF Core, VotesInv, VotesOk
  <2>2. r \in DOMAIN n.votes.sets
    BY <1>1, <2>1, SMT
  <2>3. ASSUME NEW q \in DOMAIN n.votes.sets
        PROVE  -1 <= q /\ (q <= MaxRound \/ q <= r + 1)
    <3>1. CASE q \in DOMAIN s.votes.sets
      <4>1. q \in Int /\ -1 <= q /\ (q <= MaxRound \/ q <= s.round + 1)
        BY <3>1 DEF Core, VotesInv, VotesOk, HvsOk
      <4> QED BY <4>1, MaxRoundAssumption, SMT
    <3>2. CASE q \in (s.votes.round - 1)..(r + 1)
      BY <2>1, <3>2, SMT
    <3> QED BY <1>1, <3>1, <3>2
  <2> QED BY <1>1, <2>2, <2>3 DEF VotesInv, VotesOk
<1> /\ n.locked_block = s.locked_block /\ n.locked_parts = s.locked_parts
    /\ n.valid_block = s.valid_block /\ n.valid_parts = s.valid_parts /\ n.fault = s.fault
  BY DEF Same, Fields
<1>3. n.proposal \in Proposals \cup {None} /\ PartsTyped(n)
  BY DEF Core, Typed, PartsTyped
<1>4. BlockInv(n)
  <2> \A q : Maj23(n.votes, q, "prevote") = Maj23(s.votes, q, "prevote")
    BY <1>1 DEF SameTallies, Maj23, VoteTypes
  <2>1. ASSUME NEW block, NEW parts, PairOk(s.votes, s.round, block, parts)
        PROVE  PairOk(n.votes, n.round, block, parts)
    <3>1. 0..s.round \subseteq 0..n.round
      BY SMT
    <3> QED BY <2>1, <3>1 DEF PairOk
  <2>2. LockedPair(n) /\ ValidPair(n)
    BY <2>1 DEF Core, BlockInv, LockedPair, ValidPair
  <2>3. HeldInv(n)
    <3>1. CASE r = 0
      <4>1. s.round = r /\ s.step < StepCommit /\ s.step # StepCommit
        BY <3>1, SMT DEF StepNewHeight, StepCommit
      <4> QED BY <2>1, <3>1, <4>1 DEF Core, BlockInv, HeldInv, HeldOk
    <3>2. CASE r # 0
      BY <3>2 DEF HeldInv, HeldOk, PairOk
    <3> QED BY <3>1, <3>2
  <2> QED BY <2>2, <2>3 DEF BlockInv
<1>5. n.step \in 2..6 /\ (n.round = s.round => s.step <= n.step) /\ s.round <= n.round /\ n.round \in Nat
  BY SMT DEF StepNewHeight, StepNewRound
<1>6. n.triggered_timeout_precommit \in BOOLEAN
  OBVIOUS
<1>7. Core(n)
  BY <1>1, <1>2, <1>3, <1>4, <1>5, <1>6, RoundCore
<1>8. ASSUME ValidCurrent(s)
      PROVE  ValidCurrent(n)
  <2>1. CASE r = 0
    <3>1. s.round = r /\ s.step < StepCommit
      BY <2>1, SMT DEF StepNewHeight, StepCommit
    <3>2. Maj23(n.votes, r, "prevote") = Maj23(s.votes, r, "prevote")
      BY <1>1 DEF SameTallies, Maj23, VoteTypes
    <3> QED BY <1>8, <2>1, <3>1, <3>2 DEF ValidCurrent, CurrentOk
  <2>2. CASE r # 0
    BY <2>2, HashOfBlock DEF ValidCurrent, CurrentOk, HashesTo
  <2> QED BY <2>1, <2>2
<1> QED BY <1>1, <1>7, <1>8

\* The fields of ValidCurrent other than the step.
LEMMA ValidCurrentKept ==
    ASSUME NEW s, NEW n, ValidCurrent(s), s.step \in Int, n.step \in Int, s.step <= n.step,
           n.block = s.block, n.round = s.round, n.valid_round = s.valid_round,
           SameTallies(n.votes, s.votes)
    PROVE  ValidCurrent(n)
<1>1. Maj23(n.votes, n.round, "prevote") = Maj23(s.votes, s.round, "prevote")
  BY DEF SameTallies, Maj23, VoteTypes
<1>2. n.step < StepCommit => s.step < StepCommit
  BY SMT DEF StepCommit
<1> QED BY <1>1, <1>2 DEF ValidCurrent, CurrentOk

\* enterNewRound: the node is in round r after it.
LEMMA EnterNewRoundCore ==
    ASSUME NEW s, Core(s), NEW h, NEW r \in Nat
    PROVE  LET n == EnterNewRound(s, h, r)
           IN  /\ Core(n) /\ SameTallies(n.votes, s.votes)
               /\ ValidCurrent(s) => ValidCurrent(n)
               /\ Same(n, s, {"round", "step", "votes", "proposal", "block", "parts",
                              "triggered_timeout_precommit", "ti", "armed", "queue", "signed",
                              "fault"})
               /\ s.round <= n.round
               /\ ~n.fault /\ h = s.height => r <= n.round
<1> DEFINE n == EnterNewRound(s, h, r)
           idle  == s.fault \/ s.height # h \/ r < s.round \/ (s.round = r /\ s.step # StepNewHeight)
           reset == [s EXCEPT !.round = r, !.step = StepNewRound, !.votes = SetRound(@, r + 1),
                              !.triggered_timeout_precommit = FALSE]
           fresh == ForgetProposal(reset, r)
<1> DOMAIN s = Fields /\ s.round \in Nat
  BY DEF Core, Typed
<1>1. CASE idle
  <2>1. n = s
    BY <1>1 DEF EnterNewRound
  <2> HIDE DEF n
  <2> QED BY <1>1, <2>1, SMT DEF SameTallies, Same, n
<1>2. CASE ~idle
  <2> h = s.height /\ s.round <= r /\ (s.round = r => s.step = StepNewHeight)
    BY <1>2, SMT
  <2>1. /\ Same(fresh, s, {"round", "step", "votes", "proposal", "block", "parts",
                           "triggered_timeout_precommit"})
        /\ fresh.round = r /\ fresh.step = StepNewRound /\ fresh.votes = SetRound(s.votes, r + 1)
        /\ fresh.triggered_timeout_precommit = FALSE
        /\ r = 0 => fresh.proposal = s.proposal /\ fresh.block = s.block /\ fresh.parts = s.parts
        /\ r # 0 => fresh.proposal = None /\ fresh.block = None /\ fresh.parts = None
    <3>1. /\ DOMAIN reset = Fields
          /\ reset.round = r /\ reset.step = StepNewRound /\ reset.votes = SetRound(s.votes, r + 1)
          /\ reset.triggered_timeout_precommit = FALSE
          /\ \A f \in Fields \ {"round", "step", "votes", "triggered_timeout_precommit"} : reset[f] = s[f]
      BY DEF Fields
    <3> HIDE DEF reset
    <3> QED BY <3>1 DEF ForgetProposal, Same, Fields
  <2>2. Core(fresh) /\ SameTallies(fresh.votes, s.votes) /\ (ValidCurrent(s) => ValidCurrent(fresh))
    <3> HIDE DEF fresh
    <3> QED BY <2>1, FreshRoundCore
  <2> DEFINE timed == ScheduleTimeout(fresh, h, r, StepNewRound)
             prop  == EnterPropose(fresh, h, r)
  <2>3. n = fresh \/ n = timed \/ n = prop
    <3>1. ~(s.votes.round # 0 /\ r + 1 < s.votes.round - 1)
      <4>1. s.votes.round = s.round + 1 \/ (s.votes.round = 0 /\ s.round = 0)
        BY DEF Core, VotesInv, VotesOk
      <4> QED BY <4>1, CoreTypes, SMT
    <3> HIDE DEF fresh, timed, prop
    <3>2. CASE WaitForTxs /\ r = 0 /\ ~NeedProofBlock(h)
      BY <1>2, <3>1, <3>2 DEF EnterNewRound, fresh, timed
    <3>3. CASE ~(WaitForTxs /\ r = 0 /\ ~NeedProofBlock(h))
      BY <1>2, <3>1, <3>3 DEF EnterNewRound, fresh, prop
    <3> QED BY <3>2, <3>3
  <2>4. fresh.height = h
    <3> HIDE DEF fresh
    <3> QED BY <2>1 DEF Same, Fields
  <2> HIDE DEF fresh, n
  <2>5. Core(timed) /\ Same(timed, fresh, {"ti", "armed"})
    <3>1. StepNewRound \in TickSteps /\ r <= fresh.round
      BY <2>1, SMT DEF TickSteps
    <3> QED BY <2>2, <2>4, <3>1, ScheduleTimeoutCore
  <2>6. Core(prop) /\ Same(prop, fresh, {"ti", "armed", "queue", "step", "signed", "fault"}) /\ fresh.step <= prop.step
    <3>1. h = fresh.height => r <= fresh.round
      BY <2>1, SMT
    <3> QED BY <2>2, <3>1, EnterProposeCore
  <2> HIDE DEF timed, prop
  <2>7. Core(n) /\ Same(n, fresh, {"ti", "armed", "queue", "step", "signed", "fault"}) /\ fresh.step <= n.step
    <3> DOMAIN fresh = Fields /\ fresh.step <= fresh.step
      BY <2>1, SMT DEF Same, StepNewRound
    <3>2. Same(fresh, fresh, {"ti", "armed", "queue", "step", "signed", "fault"})
      BY DEF Same
    <3>3. Same(timed, fresh, {"ti", "armed", "queue", "step", "signed", "fault"}) /\ fresh.step <= timed.step
      BY <2>5 DEF Same, Fields
    <3> QED BY <2>2, <2>3, <2>5, <2>6, <3>2, <3>3
  <2> /\ n.round = fresh.round /\ n.votes = fresh.votes /\ n.block = fresh.block
        /\ n.valid_round = fresh.valid_round
    BY <2>7 DEF Same, Fields
  <2>9. ValidCurrent(s) => ValidCurrent(n)
    <3>1. fresh.step \in Int /\ n.step \in Int
      BY <2>2, <2>7, CoreTypes
    <3>2. SameTallies(n.votes, fresh.votes)
      BY DEF SameTallies
    <3> QED BY <2>2, <2>7, <3>1, <3>2, ValidCurrentKept
  <2>10. Same(n, s, {"round", "step", "votes", "proposal", "block", "parts",
                     "triggered_timeout_precommit", "ti", "armed", "queue", "signed", "fault"})
    BY <2>1, <2>7 DEF Same
  <2>11. r <= r
    BY SMT
  <2> QED BY <2>1, <2>2, <2>7, <2>9, <2>10, <2>11 DEF n
<1> QED BY <1>1, <1>2

\* enterPrevoteWait for a round that is not ahead of the node.
LEMMA EnterPrevoteWaitCore ==
    ASSUME NEW s, Core(s), NEW h, NEW r \in Nat, h = s.height => r <= s.round
    PROVE  LET n == EnterPrevoteWait(s, h, r)
           IN  Core(n) /\ Same(n, s, {"ti", "armed", "step", "fault"}) /\ s.step <= n.step
<1> DEFINE n     == EnterPrevoteWait(s, h, r)
           timed == ScheduleTimeout(s, h, r, StepPrevoteWait)
<1> DOMAIN s = Fields /\ s.step \in 1..8 /\ s.step \in Int /\ s.round \in Nat
  BY CoreTypes
<1>1. CASE ~Ahead(s, h, r, StepPrevoteWait)
  <2>1. n = s
    BY <1>1 DEF EnterPrevoteWait
  <2> HIDE DEF n
  <2> QED BY <2>1, SMT DEF Same, n
<1>2. CASE Ahead(s, h, r, StepPrevoteWait) /\ ~HasTwoThirdsAny(Prevotes(s, r))
  <2>1. n = Fault(s)
    BY <1>2 DEF EnterPrevoteWait
  <2>2. Core(Fault(s)) /\ Same(Fault(s), s, {"fault"})
    BY FaultCore
  <2> HIDE DEF n
  <2>3. Core(n) /\ Same(n, s, {"fault"})
    BY <2>1, <2>2
  <2>4. Same(n, s, {"ti", "armed", "step", "fault"}) /\ n.step = s.step
    BY <2>3 DEF Same, Fields
  <2> QED BY <2>3, <2>4, SMT DEF n
<1>3. CASE Ahead(s, h, r, StepPrevoteWait) /\ HasTwoThirdsAny(Prevotes(s, r))
  <2> r = s.round /\ h = s.height /\ s.step < StepPrevoteWait
    BY <1>3, SMT DEF Ahead
  <2>2. Core(timed) /\ Same(timed, s, {"ti", "armed"})
    <3>1. StepPrevoteWait \in TickSteps /\ r <= s.round
      BY DEF TickSteps
    <3> QED BY <3>1, ScheduleTimeoutCore
  <2>3. n = [timed EXCEPT !.round = r, !.step = StepPrevoteWait]
    BY <1>3 DEF EnterPrevoteWait
  <2> HIDE DEF n, timed
  <2>4. /\ DOMAIN timed = Fields /\ "round" \in Fields /\ "step" \in Fields
        /\ timed.round = r /\ timed.step = s.step
    BY <2>2 DEF Same, Fields
  <2>5. Same(n, timed, {"step"}) /\ n.step = StepPrevoteWait
    BY <2>3, <2>4 DEF Same
  <2>6. Core(n)
    <3>1. /\ n.triggered_timeout_precommit = timed.triggered_timeout_precommit
          /\ n.commit_round = timed.commit_round /\ n.fault = timed.fault
      BY <2>5 DEF Same, Fields
    <3>2. /\ n.triggered_timeout_precommit \in BOOLEAN /\ n.commit_round \in -1..MaxRound
          /\ n.fault \in BOOLEAN /\ (timed.fault => n.fault)
      BY <2>2, <3>1 DEF Core, Typed
    <3>3. n.step \in (1..6) \cup {8} /\ timed.step <= n.step
      BY <2>4, <2>5, SMT DEF StepPrevoteWait
    <3>4. Same(n, timed, {"step", "triggered_timeout_precommit", "commit_round", "fault"})
      BY <2>5 DEF Same
    <3> QED BY <2>2, <3>2, <3>3, <3>4, StepCore
  <2>7. Same(n, s, {"ti", "armed", "step", "fault"})
    BY <2>2, <2>5 DEF Same
  <2>8. s.step <= n.step
    BY <2>5, SMT DEF StepPrevoteWait
  <2> QED BY <2>6, <2>7, <2>8 DEF n
<1> QED BY <1>1, <1>2, <1>3

\* enterPrecommitWait likewise.
LEMMA EnterPrecommitWaitCore ==
    ASSUME NEW s, Core(s), NEW h, NEW r \in Nat, ~s.fault /\ h = s.height => r <= s.round
    PROVE  LET n == EnterPrecommitWait(s, h, r)
           IN  Core(n) /\ Same(n, s, {"ti", "armed", "triggered_timeout_precommit", "fault"})
<1> DEFINE n     == EnterPrecommitWait(s, h, r)
           idle  == s.fault \/ s.height # h \/ r < s.round \/ (s.round = r /\ s.triggered_timeout_precommit)
           timed == ScheduleTimeout(s, h, r, StepPrecommitWait)
<1> DOMAIN s = Fields /\ s.step \in 1..8 /\ s.step \in Int /\ s.round \in Nat
  BY CoreTypes
<1>1. CASE idle
  <2>1. n = s
    BY <1>1 DEF EnterPrecommitWait
  <2> HIDE DEF n
  <2> QED BY <2>1 DEF Same, n
<1>2. CASE ~idle /\ ~HasTwoThirdsAny(Precommits(s, r))
  <2>1. n = Fault(s)
    BY <1>2 DEF EnterPrecommitWait
  <2>2. Core(Fault(s)) /\ Same(Fault(s), s, {"fault"})
    BY FaultCore
  <2> HIDE DEF n
  <2>3. Core(n) /\ Same(n, s, {"fault"})
    BY <2>1, <2>2
  <2>4. Same(n, s, {"ti", "armed", "triggered_timeout_precommit", "fault"})
    BY <2>3 DEF Same
  <2> QED BY <2>3, <2>4 DEF n
<1>3. CASE ~idle /\ HasTwoThirdsAny(Precommits(s, r))
  <2> r = s.round /\ h = s.height
    BY <1>3, SMT
  <2>2. Core(timed) /\ Same(timed, s, {"ti", "armed"})
    <3>1. StepPrecommitWait \in TickSteps /\ r <= s.round
      BY SMT DEF TickSteps
    <3> QED BY <3>1, ScheduleTimeoutCore
  <2>3. n = [timed EXCEPT !.triggered_timeout_precommit = TRUE]
    BY <1>3 DEF EnterPrecommitWait
  <2> HIDE DEF n, timed
  <2>4. /\ DOMAIN timed = Fields /\ "triggered_timeout_precommit" \in Fields /\ timed.step = s.step
    BY <2>2 DEF Same, Fields
  <2>5. Same(n, timed, {"triggered_timeout_precommit"}) /\ n.triggered_timeout_precommit = TRUE
    BY <2>3, <2>4 DEF Same
  <2>6. Core(n)
    <3>1. /\ n.commit_round = timed.commit_round /\ n.fault = timed.fault /\ n.step = timed.step
      BY <2>5 DEF Same, Fields
    <3>2. /\ n.commit_round \in -1..MaxRound /\ n.fault \in BOOLEAN /\ n.step \in (1..6) \cup {8}
          /\ (timed.fault => n.fault)
      BY <2>2, <3>1 DEF Core, Typed
    <3>3. timed.step <= n.step
      BY <2>4, <3>1, SMT
    <3>4. Same(n, timed, {"step", "triggered_timeout_precommit", "commit_round", "fault"})
      BY <2>5 DEF Same
    <3>5. n.triggered_timeout_precommit \in BOOLEAN
      BY <2>5
    <3> QED BY <2>2, <3>2, <3>3, <3>4, <3>5, StepCore
  <2>7. Same(n, s, {"ti", "armed", "triggered_timeout_precommit", "fault"})
    BY <2>2, <2>5 DEF Same
  <2> QED BY <2>6, <2>7 DEF n
<1> QED BY <1>1, <1>2, <1>3

\* A part set for a new header has a slot of its own.
LEMMA NewPartSetTyped ==
    ASSUME NEW s, NEW header \in Headers
    PROVE  LET p == NewPartSet(s, header)
           IN  /\ p \in Parts \cup {None}
               /\ p # None => p.header = header /\ p.complete = FALSE
               /\ header \notin Unbounded => p # None
<1>1. FreeSlot(s) \in Slots
  <2> DEFINE S == {s.locked_parts, s.valid_parts} \ {None}
             l == s.locked_parts.slot
             v == s.valid_parts.slot
  <2>1. \E i \in Slots : i # l /\ i # v
    <3> HIDE DEF l, v
    <3>1. 1 \in Slots /\ 2 \in Slots /\ 3 \in Slots /\ 1 # 2 /\ 2 # 3 /\ 1 # 3
      BY SMT DEF Slots
    <3> QED BY <3>1
  <2>2. \E i \in Slots : \A parts \in S : parts.slot # i
    BY <2>1
  <2> QED BY <2>2 DEF FreeSlot
<1> DEFINE f == FreeSlot(s)
           p == [slot |-> f, header |-> header, complete |-> FALSE]
<1>2. p \in Parts /\ p.header = header /\ p.complete = FALSE
  <2> HIDE DEF f
  <2>1. f \in Slots
    BY <1>1 DEF f
  <2> QED BY <2>1 DEF Parts
<1>3. p # None
  BY <1>2, StructAssumption DEF Parts
<1>4. NewPartSet(s, header) = IF header \in Unbounded THEN None ELSE p
  BY DEF NewPartSet
<1> HIDE DEF p
<1> QED BY <1>2, <1>3, <1>4

\* Without the lock.
LEMMA UnlockBlocks ==
    ASSUME NEW s, DOMAIN s = Fields, PartsTyped(s), BlockInv(s)
    PROVE  LET n == Unlock(s)
           IN  /\ Same(n, s, {"locked_round", "locked_block", "locked_parts"})
               /\ n.locked_round = -1 /\ n.locked_block = None /\ n.locked_parts = None
               /\ PartsTyped(n) /\ BlockInv(n)
<1> DEFINE n == Unlock(s)
<1>1. "locked_round" \in Fields /\ "locked_block" \in Fields /\ "locked_parts" \in Fields
  BY DEF Fields
<1>2. /\ Same(n, s, {"locked_round", "locked_block", "locked_parts"})
      /\ n.locked_round = -1 /\ n.locked_block = None /\ n.locked_parts = None
  BY <1>1 DEF Unlock, Same
<1> HIDE DEF n
<1> /\ n.votes = s.votes /\ n.round = s.round /\ n.step = s.step /\ n.fault = s.fault
    /\ n.proposal = s.proposal /\ n.block = s.block /\ n.parts = s.parts
    /\ n.valid_round = s.valid_round /\ n.valid_block = s.valid_block
    /\ n.valid_parts = s.valid_parts
  BY <1>2 DEF Same, Fields
<1>3. PartsTyped(n)
  BY <1>2 DEF PartsTyped
<1>4. HeldInv(n) /\ ValidPair(n)
  BY DEF BlockInv, HeldInv, ValidPair
<1>5. LockedPair(n)
  BY <1>2 DEF LockedPair, PairOk
<1> QED BY <1>2, <1>3, <1>4, <1>5 DEF BlockInv, n

\* A precommit of the round is signed.  Either it is for nil, and a lock goes
\* only on a polka for something else; or it is for the polka's block, and so
\* is the lock.
LEMMA PrecommitCore ==
    ASSUME NEW s, NEW n, Core(s), NEW b \in Values, s.step < StepPrecommit,
           Same(n, s, {"signed", "queue", "step", "locked_round", "locked_block", "locked_parts",
                       "block", "parts"}),
           n.step = StepPrecommit,
           n.signed = s.signed \cup {OwnVote(s, "precommit", b)},
           n.queue = Append(s.queue, OwnVoteMsg(s, "precommit", b)),
           PartsTyped(n), BlockInv(n),
           LET maj == Maj23(s.votes, s.round, "prevote")
           IN  \/ /\ b = Nil
                  /\ n.locked_round = s.locked_round /\ n.locked_block = s.locked_block
               \/ /\ b = Nil /\ maj # None /\ ~HashesTo(s.locked_block, maj)
                  /\ n.locked_round = -1 /\ n.locked_block = None
               \/ /\ b = maj /\ b \in Blocks /\ b.hash \in {s.locked_block, s.valid_block}
                  /\ n.locked_round = s.round /\ n.locked_block = b.hash
    PROVE  Core(n)
<1> DEFINE maj == Maj23(s.votes, s.round, "prevote")
           v   == OwnVote(s, "precommit", b)
<1> s.step \in 1..8 /\ s.round \in Nat
  BY CoreTypes
<1> /\ n.height = s.height /\ n.round = s.round /\ n.votes = s.votes
      /\ n.valid_round = s.valid_round /\ n.valid_block = s.valid_block
  BY DEF Same, Fields
<1> Nil \notin Blocks /\ None \notin Blocks
  BY NoneAssumption
<1>3. \A q : \A c : Precommitted(n.signed, n.height, q, c) <=> Precommitted(s.signed, s.height, q, c) \/ (q = s.round /\ c = b)
  BY DEF Precommitted, OwnVote
<1>4. \A q \in Nat : \A c : Precommitted(s.signed, s.height, q, c) => q < s.round
  <2> SUFFICES ASSUME NEW q \in Nat, NEW c, Precommitted(s.signed, s.height, q, c)
               PROVE  q < s.round
    OBVIOUS
  <2> DEFINE w == [height |-> s.height, round |-> q, type |-> "precommit", block |-> c]
  <2>1. w \in s.signed /\ w.height = s.height /\ w.round = q /\ w.type = "precommit"
    BY DEF Precommitted
  <2> HIDE DEF w
  <2>2. w.round <= s.round /\ (w.round = s.round => StepPrecommit <= s.step)
    BY <2>1 DEF Core, SignedInv, SignedOk
  <2> QED BY <2>1, <2>2, SMT DEF StepPrecommit
<1> LockInv(s) /\ s.locked_round \in Int
  BY CoreTypes DEF Core
<1> HIDE DEF maj, v
<1>6. LockInv(n)
  <2>1. CASE n.locked_round = s.locked_round /\ n.locked_block = s.locked_block
    <3>1. \A q : \A c : Precommitted(s.signed, s.height, q, c) => Precommitted(n.signed, n.height, q, c)
      BY <1>3
    <3>2. ASSUME s.locked_block # None
          PROVE  \E q \in 0..s.locked_round : \E c \in Blocks :
                    /\ Precommitted(n.signed, n.height, q, c) /\ c.hash = s.locked_block
                    /\ s.valid_block = s.locked_block \/ q < s.valid_round
      BY <3>1, <3>2 DEF LockInv, LockOk
    <3> QED BY <2>1, <3>1, <3>2 DEF LockInv, LockOk
  <2>2. CASE n.locked_round = -1 /\ n.locked_block = None
    <3>1. -1 \in -1..n.round
      BY SMT
    <3> QED BY <2>2, <3>1 DEF LockInv, LockOk
  <2>3. CASE /\ b = maj /\ b \in Blocks /\ b.hash \in {s.locked_block, s.valid_block}
             /\ n.locked_round = s.round /\ n.locked_block = b.hash
    <3>0. HashesTo(b.hash, b) /\ b.hash # None /\ b.hash \in Hashes
      BY <2>3, HashOfBlock
    <3>1. Maj23(n.votes, n.locked_round, "prevote") = b
      BY <2>3 DEF maj
    <3>2. Precommitted(n.signed, n.height, n.locked_round, b)
      BY <1>3, <2>3
    <3>3. n.locked_round \in -1..n.round /\ n.locked_round # -1 /\ n.locked_block # None
      <4>1. n.locked_round \in -1..n.round /\ n.locked_round # -1
        BY <2>3, SMT
      <4> QED BY <2>3, <3>0, <4>1
    <3>4. \E q \in 0..n.locked_round : \E c \in Blocks :
             /\ Precommitted(n.signed, n.height, q, c) /\ c.hash = n.locked_block
             /\ n.valid_block = n.locked_block \/ q < n.valid_round
      <4>1. CASE b.hash = s.valid_block
        <5>1. s.round \in 0..n.locked_round
          BY <2>3, SMT
        <5> QED BY <2>3, <3>2, <4>1, <5>1
      <4>2. CASE b.hash = s.locked_block
        <5>1. PICK q \in 0..s.locked_round : \E c \in Blocks :
                 /\ Precommitted(s.signed, s.height, q, c) /\ c.hash = s.locked_block
                 /\ s.valid_block = s.locked_block \/ q < s.valid_round
          BY <2>3, <3>0, <4>2 DEF LockInv, LockOk
        <5>2. q \in 0..n.locked_round
          BY <2>3, <5>1, SMT DEF LockInv, LockOk
        <5> QED BY <1>3, <2>3, <4>2, <5>1, <5>2
      <4> QED BY <2>3, <4>1, <4>2
    <3> QED BY <2>3, <3>0, <3>1, <3>2, <3>3, <3>4 DEF LockInv, LockOk
  <2> QED BY <2>1, <2>2, <2>3 DEF maj
<1>7. ASSUME NEW q \in Nat, NEW c \in Blocks, q < s.round, maj # None, ~HashesTo(c.hash, maj)
      PROVE  Overtakes(n.votes, q, n.round, c)
  BY <1>7, SMT DEF Overtakes, maj
<1>8. KeptInv(n)
  <2> SUFFICES ASSUME NEW q \in Nat, NEW c \in Blocks,
                      Precommitted(s.signed, s.height, q, c) \/ (q = s.round /\ c = b)
               PROVE  (n.locked_block = c.hash /\ n.locked_round >= q) \/ Overtakes(n.votes, q, n.round, c)
    <3>1. SUFFICES ASSUME NEW q \in Nat, NEW c \in Blocks, Precommitted(n.signed, n.height, q, c)
                   PROVE  (n.locked_block = c.hash /\ n.locked_round >= q) \/ Overtakes(n.votes, q, n.round, c)
      BY DEF KeptInv, KeptOk
    <3>2. Precommitted(s.signed, s.height, q, c) \/ (q = s.round /\ c = b)
      BY <1>3, <3>1, SMT
    <3> QED BY <3>1, <3>2
  <2>1. Precommitted(s.signed, s.height, q, c) => (s.locked_block = c.hash /\ s.locked_round >= q) \/ Overtakes(n.votes, q, n.round, c)
    BY DEF Core, KeptInv, KeptOk, Overtakes
  <2>2. CASE b = Nil /\ n.locked_round = s.locked_round /\ n.locked_block = s.locked_block
    BY <1>3, <2>1, <2>2
  <2>3. CASE /\ b = Nil /\ maj # None /\ ~HashesTo(s.locked_block, maj)
             /\ n.locked_round = -1 /\ n.locked_block = None
    <3>1. q < s.round
      BY <1>4, <2>3
    <3>2. ~HashesTo(c.hash, maj) \/ s.locked_block # c.hash
      BY <2>3
    <3> QED BY <1>7, <2>1, <2>3, <3>1, <3>2
  <2>4. CASE /\ b = maj /\ b \in Blocks /\ b.hash \in {s.locked_block, s.valid_block}
             /\ n.locked_round = s.round /\ n.locked_block = b.hash
    <3>1. q <= s.round
      BY <1>4, SMT
    <3>2. CASE c.hash = b.hash
      BY <2>4, <3>1, <3>2
    <3>3. CASE c.hash # b.hash
      <4>1. q < s.round /\ ~HashesTo(c.hash, maj)
        BY <1>4, <2>4, <3>3 DEF HashesTo
      <4> QED BY <1>7, <2>4, <4>1
    <3> QED BY <3>2, <3>3
  <2> QED BY <2>2, <2>3, <2>4 DEF maj
<1>9. RulesInv(n)
  <2>1. ASSUME NEW q \in Nat, NEW c \in Blocks, Precommitted(n.signed, n.height, q, c)
        PROVE  Maj23(n.votes, q, "prevote") = c
    <3>1. CASE Precommitted(s.signed, s.height, q, c)
      BY <3>1 DEF Core, RulesInv, RulesOk
    <3>2. CASE q = s.round /\ c = b
      BY <3>2 DEF maj
    <3> QED BY <1>3, <2>1, <3>1, <3>2, SMT
  <2>2. ASSUME NEW w \in n.signed, w.height = n.height, w.type = "prevote", NEW q \in Nat, NEW c \in Blocks,
               Precommitted(n.signed, n.height, q, c), q < w.round, ~HashesTo(c.hash, w.block)
        PROVE  Overtakes(n.votes, q, w.round, c)
    <3>1. w \in s.signed
      BY <2>2, SMT DEF OwnVote
    <3>2. w.round <= s.round /\ w.round \in Nat
      BY <2>2, <3>1 DEF Core, SignedInv, SignedOk, Typed, SignedVotes
    <3>3. Precommitted(s.signed, s.height, q, c)
      BY <1>3, <2>2, <3>2, SMT
    <3> QED BY <2>2, <3>1, <3>3 DEF Core, RulesInv, RulesOk, Overtakes
  <2> QED BY <2>1, <2>2 DEF RulesInv, RulesOk
<1>10. "precommit" \in VoteTypes /\ VoteStep("precommit") = StepPrecommit
  BY DEF VoteTypes, VoteStep
<1> QED BY <1>6, <1>8, <1>9, <1>10, VoteSignedCore, SMT

\* What enterPrecommit ends with, after a change of the lock.
PrecommitDone(x, r, b) ==
    [SignAddVote(x, "precommit", b) EXCEPT !.round = r, !.step = StepPrecommit]

\* The precommit that ends enterPrecommit, after a change of the lock.
LEMMA PrecommitSigned ==
    ASSUME NEW s, Core(s), s.step < StepPrecommit, NEW b,
           NEW x, Same(x, s, {"locked_round", "locked_block", "locked_parts", "block", "parts"})
    PROVE  LET n == PrecommitDone(x, s.round, b)
           IN  /\ Same(n, x, {"signed", "queue", "step"}) /\ n.step = StepPrecommit
               /\ n.signed = s.signed \cup {OwnVote(s, "precommit", b)}
               /\ n.queue = Append(s.queue, OwnVoteMsg(s, "precommit", b))
<1> DEFINE n == PrecommitDone(x, s.round, b)
           v == OwnVote(s, "precommit", b)
           m == OwnVoteMsg(s, "precommit", b)
<1> x.height = s.height /\ x.round = s.round /\ x.signed = s.signed /\ x.queue = s.queue
  BY DEF Same, Fields
<1>2. \A w \in s.signed : w.height = s.height => VoteRank(w.type, w.round) < VoteRank("precommit", s.round)
  <2>1. "precommit" \in VoteTypes /\ VoteStep("precommit") = StepPrecommit
    BY DEF VoteTypes, VoteStep
  <2> QED BY <2>1, NewestVote DEF Core
<1>3. Signable(x, "precommit", b)
  BY <1>2 DEF Signable
<1>4. SignAddVote(x, "precommit", b) = [[x EXCEPT !.signed = @ \cup {v}] EXCEPT !.queue = Append(@, m)]
  BY <1>3 DEF SignAddVote, SendInternal, OwnVote, OwnVoteMsg
<1>5. /\ DOMAIN x = Fields /\ "signed" \in Fields /\ "queue" \in Fields
      /\ "round" \in Fields /\ "step" \in Fields
  BY DEF Same, Fields
<1> HIDE DEF v, m
<1> QED BY <1>4, <1>5 DEF Same, v, m, PrecommitDone

\* The state and the vote with which enterPrecommit signs.
PrecommitFrom(s, x, b) ==
    LET maj == Maj23(s.votes, s.round, "prevote")
    IN  /\ b \in Values
        /\ Same(x, s, {"locked_round", "locked_block", "locked_parts", "block", "parts"})
        /\ PartsTyped(x) /\ BlockInv(x) /\ x.block \in {s.block, None}
        /\ \/ b = Nil /\ x.locked_round = s.locked_round /\ x.locked_block = s.locked_block
           \/ /\ b = Nil /\ maj # None /\ ~HashesTo(s.locked_block, maj)
              /\ x.locked_round = -1 /\ x.locked_block = None
           \/ /\ b = maj /\ b \in Blocks /\ b.hash \in {s.locked_block, s.valid_block}
              /\ x.locked_round = s.round /\ x.locked_block = b.hash

\* A polka for a block that the node has not got.
LEMMA PrecommitUnknownFrom ==
    ASSUME NEW s, Core(s), s.step < StepPrecommit, NEW b \in Blocks,
           Maj23(s.votes, s.round, "prevote") = b, ~HashesTo(s.locked_block, b)
    PROVE  PrecommitFrom(s, PrecommitUnknown(s, b), Nil)
<1> DEFINE l == Unlock(s)
           u == [l EXCEPT !.block = None]
           x == PrecommitUnknown(s, b)
<1> DOMAIN s = Fields /\ PartsTyped(s) /\ Nil \in Values /\ b # None
  BY NoneAssumption DEF Core, Typed, Values
<1>1. /\ Same(l, s, {"locked_round", "locked_block", "locked_parts"})
      /\ l.locked_round = -1 /\ l.locked_block = None /\ l.locked_parts = None
      /\ PartsTyped(l) /\ BlockInv(l)
  BY UnlockBlocks DEF Core
<1>2. x = IF HasHeader(s, b) THEN l ELSE WantParts(u, b)
  BY DEF PrecommitUnknown
<1> HIDE DEF l, x
<1>3. CASE HasHeader(s, b)
  <2>1. Same(l, s, {"locked_round", "locked_block", "locked_parts", "block", "parts"}) /\ l.block = s.block
    BY <1>1 DEF Same, Fields
  <2>2. x = l
    BY <1>2, <1>3
  <2>3. PrecommitFrom(s, l, Nil)
    BY <1>1, <2>1 DEF PrecommitFrom
  <2> QED BY <2>2, <2>3 DEF x
<1>4. CASE ~HasHeader(s, b)
  <2> DEFINE p == NewPartSet(u, b.parts)
  <2>1. "block" \in Fields /\ "parts" \in Fields
    BY DEF Fields
  <2>2. /\ DOMAIN u = Fields /\ u.block = None
        /\ \A f \in Fields \ {"block"} : u[f] = l[f]
    BY <1>1, <2>1 DEF Same
  <2>3. u.parts = s.parts
    BY <1>1, <2>1, <2>2 DEF Same
  <2> HIDE DEF u
  <2>4. x = [u EXCEPT !.parts = p]
    BY <1>2, <1>4, <2>3 DEF WantParts, HasHeader
  <2>5. p \in Parts \cup {None} /\ (p # None => p.header = b.parts)
    BY HashOfBlock, NewPartSetTyped
  <2> HIDE DEF p
  <2>6. /\ DOMAIN x = Fields /\ x.parts = p /\ x.block = None
        /\ \A f \in Fields \ {"block", "parts"} : x[f] = l[f]
    BY <2>1, <2>2, <2>4
  <2>7. /\ Same(x, s, {"locked_round", "locked_block", "locked_parts", "block", "parts"})
        /\ x.locked_round = -1 /\ x.locked_block = None
    BY <1>1, <2>6 DEF Same, Fields
  <2> /\ x.locked_block = l.locked_block /\ x.locked_parts = l.locked_parts /\ x.valid_parts = l.valid_parts
      /\ x.valid_block = l.valid_block /\ x.votes = l.votes /\ x.round = l.round
    BY <2>6 DEF Fields
  <2>8. PartsTyped(x)
    BY <1>1, <2>5, <2>6 DEF PartsTyped
  <2>9. LockedPair(x) /\ ValidPair(x)
    BY <1>1 DEF BlockInv, LockedPair, ValidPair
  <2>10. x.votes = s.votes /\ x.round = s.round
    BY <2>7 DEF Same, Fields
  <2>11. HeldInv(x)
    BY <2>6, <2>10 DEF HeldInv, HeldOk, PairOk
  <2>12. PrecommitFrom(s, x, Nil)
    BY <2>6, <2>7, <2>8, <2>9, <2>11 DEF PrecommitFrom, BlockInv
  <2> QED BY <2>12 DEF x
<1> QED BY <1>3, <1>4

\* A polka for the locked block, or for the proposal block.
LEMMA LockFrom ==
    ASSUME NEW s, Core(s), s.step < StepPrecommit, NEW b \in Blocks,
           Maj23(s.votes, s.round, "prevote") = b
    PROVE  /\ HashesTo(s.locked_block, b) => PrecommitFrom(s, Relock(s, s.round), b)
           /\ HashesTo(s.block, b) /\ s.block = s.valid_block => PrecommitFrom(s, Lock(s, s.round), b)
<1> DEFINE x == Relock(s, s.round)
           l == Lock(s, s.round)
<1> /\ DOMAIN s = Fields /\ PartsTyped(s) /\ BlockInv(s) /\ b \in Values
    /\ "locked_round" \in Fields /\ "locked_block" \in Fields /\ "locked_parts" \in Fields
  BY DEF Core, Typed, Values, Fields
<1> s.step \in Int /\ s.step <= 8 /\ s.step < StepCommit /\ s.step # StepCommit
  <2>1. s.step \in 1..8
    BY CoreTypes
  <2> QED BY <2>1, SMT DEF StepPrecommit, StepCommit
<1>1. ASSUME HashesTo(s.locked_block, b)
      PROVE  PrecommitFrom(s, x, b)
  <2>1. Same(x, s, {"locked_round"}) /\ x.locked_round = s.round
    BY DEF Relock, Same
  <2> HIDE DEF x
  <2>2. /\ Same(x, s, {"locked_round", "locked_block", "locked_parts", "block", "parts"})
        /\ SameBlocks(x, s) /\ x.step = s.step /\ x.fault = s.fault
    BY <2>1 DEF Same, Fields, SameBlocks
  <2>3. s.step <= s.step
    BY SMT
  <2>4. PartsTyped(x) /\ BlockInv(x)
    BY <2>2, <2>3, BlocksKept
  <2>5. b.hash = s.locked_block /\ x.locked_block = s.locked_block /\ x.block = s.block
    BY <1>1, <2>2 DEF HashesTo, SameBlocks
  <2> QED BY <2>1, <2>2, <2>4, <2>5 DEF PrecommitFrom
<1>2. ASSUME HashesTo(s.block, b), s.block = s.valid_block
      PROVE  PrecommitFrom(s, l, b)
  <2>1. /\ Same(l, s, {"locked_round", "locked_block", "locked_parts"})
        /\ l.locked_round = s.round /\ l.locked_block = s.block /\ l.locked_parts = s.parts
    BY DEF Lock, Same
  <2> HIDE DEF l
  <2>2. Same(l, s, {"locked_round", "locked_block", "locked_parts", "block", "parts"})
    BY <2>1 DEF Same
  <2> /\ l.votes = s.votes /\ l.round = s.round /\ l.step = s.step /\ l.fault = s.fault
      /\ l.proposal = s.proposal /\ l.block = s.block /\ l.parts = s.parts
      /\ l.valid_round = s.valid_round /\ l.valid_block = s.valid_block
      /\ l.valid_parts = s.valid_parts
    BY <2>1 DEF Same, Fields
  <2>3. PartsTyped(l)
    BY <2>1 DEF PartsTyped
  <2>4. HeldInv(l) /\ ValidPair(l)
    BY DEF BlockInv, HeldInv, ValidPair
  <2>5. LockedPair(l)
    BY <2>1 DEF BlockInv, HeldInv, HeldOk, LockedPair
  <2>6. b.hash = s.block
    BY <1>2 DEF HashesTo
  <2> QED BY <1>2, <2>1, <2>2, <2>3, <2>4, <2>5, <2>6 DEF PrecommitFrom, BlockInv
<1> QED BY <1>1, <1>2

\* enterPrecommit for a round that is not ahead of the node.
LEMMA EnterPrecommitCore ==
    ASSUME NEW s, Core(s), ValidCurrent(s), NEW h, NEW r \in Nat, ~s.fault /\ h = s.height => r <= s.round
    PROVE  LET n == EnterPrecommit(s, h, r)
           IN  /\ Core(n) /\ ValidCurrent(n) /\ s.step <= n.step
               /\ Same(n, s, {"signed", "queue", "step", "locked_round", "locked_block", "locked_parts",
                              "block", "parts", "fault"})
<1> DEFINE n   == EnterPrecommit(s, h, r)
           maj == Maj23(s.votes, r, "prevote")
<1> DOMAIN s = Fields /\ s.step \in 1..8 /\ s.step \in Int /\ s.round \in Nat
  BY CoreTypes
<1>1. CASE ~PrecommitDue(s, h, r)
  <2>1. n = s
    BY <1>1 DEF EnterPrecommit, PrecommitDone
  <2> HIDE DEF n
  <2> QED BY <2>1, SMT DEF Same, n
<1>2. CASE n = Fault(s)
  <2>1. Core(Fault(s)) /\ Same(Fault(s), s, {"fault"})
    BY FaultCore
  <2> HIDE DEF n
  <2>2. Core(n) /\ Same(n, s, {"fault"})
    BY <1>2, <2>1
  <2>3. /\ n.step = s.step /\ n.block = s.block /\ n.round = s.round
        /\ n.valid_round = s.valid_round /\ n.votes = s.votes
    BY <2>2 DEF Same, Fields
  <2>4. ValidCurrent(n)
    BY <2>3 DEF ValidCurrent, CurrentOk
  <2>5. Same(n, s, {"signed", "queue", "step", "locked_round", "locked_block", "locked_parts",
                    "block", "parts", "fault"})
    BY <2>2 DEF Same
  <2> QED BY <2>2, <2>3, <2>4, <2>5, SMT DEF n
<1>3. CASE PrecommitDue(s, h, r) /\ n # Fault(s)
  <2> r = s.round /\ s.step < StepPrecommit /\ s.step < StepCommit
    BY <1>3, SMT DEF PrecommitDue, Ahead, StepPrecommit, StepCommit
  <2>2. /\ maj \in Values \cup {None}
        /\ HashesTo(s.block, maj) => s.block = s.valid_block
    <3>1. WellFormed(VotesOf(s.votes, r, "prevote"))
      BY VotesOfSound DEF Core, VotesInv, VotesOk, VoteTypes, Sound
    <3>2. maj \in Values \cup {None}
      BY <3>1 DEF Maj23, WellFormed, VoteSets
    <3>3. ASSUME HashesTo(s.block, maj)
          PROVE  s.block = s.valid_block
      <4>1. s.valid_round = s.round
        BY <3>3 DEF ValidCurrent, CurrentOk
      <4>2. s.valid_round # -1
        BY <4>1, CoreTypes, SMT
      <4>3. HashesTo(s.valid_block, maj)
        BY <4>1, <4>2 DEF Core, ValidInv, ValidOk
      <4> QED BY <3>3, <4>3 DEF HashesTo
    <3> QED BY <3>2, <3>3
  <2>3. \E x, b : n = PrecommitDone(x, r, b) /\ PrecommitFrom(s, x, b)
    <3>1. CASE maj = None
      <4>1. n = PrecommitDone(s, r, Nil)
        BY <1>3, <3>1 DEF EnterPrecommit, PrecommitDone
      <4>2. PrecommitFrom(s, s, Nil)
        BY DEF PrecommitFrom, Same, Core, Typed, Values
      <4> HIDE DEF n
      <4> QED BY <4>1, <4>2
    <3>2. CASE maj = Nil
      <4> DEFINE u == Unlock(s)
      <4>1. n = PrecommitDone(u, r, Nil)
        BY <1>3, <3>2, NoneAssumption DEF EnterPrecommit, PrecommitDone
      <4>2. /\ Same(u, s, {"locked_round", "locked_block", "locked_parts"})
            /\ u.locked_round = -1 /\ u.locked_block = None
            /\ PartsTyped(u) /\ BlockInv(u)
        BY UnlockBlocks DEF Core, Typed
      <4>3. ~HashesTo(s.locked_block, maj) /\ maj # None
        BY <3>2, NoneAssumption DEF HashesTo
      <4> HIDE DEF n, u
      <4>4. Same(u, s, {"locked_round", "locked_block", "locked_parts", "block", "parts"}) /\ u.block = s.block
        BY <4>2 DEF Same, Fields
      <4>5. PrecommitFrom(s, u, Nil)
        BY <4>2, <4>3, <4>4 DEF PrecommitFrom, Values
      <4> QED BY <4>1, <4>5
    <3>3. CASE maj \in Blocks
      <4>1. maj # None /\ maj # Nil
        BY <3>3, NoneAssumption
      <4>2. CASE HashesTo(s.locked_block, maj)
        <5>1. n = PrecommitDone(Relock(s, r), r, maj)
          BY <1>3, <4>1, <4>2 DEF EnterPrecommit, PrecommitDone
        <5>2. PrecommitFrom(s, Relock(s, r), maj)
          BY <3>3, <4>2, LockFrom
        <5> HIDE DEF n, maj
        <5> QED BY <5>1, <5>2
      <4>3. CASE ~HashesTo(s.locked_block, maj) /\ ~HashesTo(s.block, maj)
        <5>1. n = PrecommitDone(PrecommitUnknown(s, maj), r, Nil)
          BY <1>3, <4>1, <4>3 DEF EnterPrecommit, PrecommitDone
        <5>2. PrecommitFrom(s, PrecommitUnknown(s, maj), Nil)
          BY <3>3, <4>3, PrecommitUnknownFrom
        <5> HIDE DEF n, maj
        <5> QED BY <5>1, <5>2
      <4>4. CASE ~HashesTo(s.locked_block, maj) /\ HashesTo(s.block, maj)
        <5>1. n = PrecommitDone(Lock(s, r), r, maj)
          BY <1>3, <4>1, <4>4 DEF EnterPrecommit, PrecommitDone
        <5>2. PrecommitFrom(s, Lock(s, r), maj)
          BY <2>2, <3>3, <4>4, LockFrom
        <5> HIDE DEF n, maj
        <5> QED BY <5>1, <5>2
      <4> QED BY <4>2, <4>3, <4>4
    <3> QED BY <2>2, <3>1, <3>2, <3>3 DEF Values
  <2>4. PICK x, b : n = PrecommitDone(x, r, b) /\ PrecommitFrom(s, x, b)
    BY <2>3
  <2>5. /\ Same(n, x, {"signed", "queue", "step"}) /\ n.step = StepPrecommit
        /\ n.signed = s.signed \cup {OwnVote(s, "precommit", b)}
        /\ n.queue = Append(s.queue, OwnVoteMsg(s, "precommit", b))
    <3> DEFINE d == PrecommitDone(x, s.round, b)
    <3>1. Same(x, s, {"locked_round", "locked_block", "locked_parts", "block", "parts"}) /\ n = d
      BY <2>4 DEF PrecommitFrom
    <3>2. /\ Same(d, x, {"signed", "queue", "step"}) /\ d.step = StepPrecommit
          /\ d.signed = s.signed \cup {OwnVote(s, "precommit", b)}
          /\ d.queue = Append(s.queue, OwnVoteMsg(s, "precommit", b))
      BY <3>1, PrecommitSigned
    <3> HIDE DEF n, d
    <3> QED BY <3>1, <3>2
  <2> HIDE DEF n
  <2>6. /\ n.locked_round = x.locked_round /\ n.locked_block = x.locked_block /\ n.block = x.block
        /\ n.fault = x.fault /\ SameBlocks(n, x)
    BY <2>5 DEF Same, Fields, SameBlocks
  <2>7. Same(n, s, {"signed", "queue", "step", "locked_round", "locked_block", "locked_parts",
                    "block", "parts"})
    BY <2>4, <2>5 DEF Same, PrecommitFrom
  <2>8. s.step <= n.step /\ n.step <= 8 /\ n.step \in Int
    BY <2>5, SMT DEF StepPrecommit
  <2>9. PartsTyped(n) /\ BlockInv(n)
    <3>1. x.step = s.step
      BY <2>4 DEF PrecommitFrom, Same, Fields
    <3> QED BY <2>4, <2>6, <2>8, <3>1, BlocksKept DEF PrecommitFrom
  <2>10. Core(n)
    BY <2>4, <2>5, <2>6, <2>7, <2>9, PrecommitCore DEF PrecommitFrom
  <2>11. ValidCurrent(n)
    <3>1. n.round = s.round /\ n.valid_round = s.valid_round /\ n.votes = s.votes
      BY <2>7 DEF Same, Fields
    <3>2. n.block = s.block \/ n.block = None
      BY <2>4, <2>6 DEF PrecommitFrom
    <3> QED BY <3>1, <3>2, HashOfBlock DEF ValidCurrent, CurrentOk, HashesTo
  <2>12. Same(n, s, {"signed", "queue", "step", "locked_round", "locked_block", "locked_parts",
                     "block", "parts", "fault"})
    BY <2>7 DEF Same
  <2> QED BY <2>8, <2>10, <2>11, <2>12 DEF n
<1> QED BY <1>1, <1>2, <1>3

LEMMA WellFormedInVoteSets ==
    ASSUME NEW vs, WellFormed(vs)
    PROVE  vs \in VoteSets
<1>1. vs.votes_by_block \in UNION {[D -> BlockVotes] : D \in SUBSET Values}
  BY DEF WellFormed
<1>2. /\ vs.votes \in [Validators -> Values \cup {None}]
      /\ vs.sum \in Nat
      /\ vs.has_maj23 \in BOOLEAN
      /\ vs.maj23 \in Values \cup {None}
      /\ vs.peer_maj23s \in [Peers -> Values \cup {None}]
      /\ vs = [votes |-> vs.votes, sum |-> vs.sum, has_maj23 |-> vs.has_maj23, maj23 |-> vs.maj23,
               votes_by_block |-> vs.votes_by_block, peer_maj23s |-> vs.peer_maj23s]
  BY DEF WellFormed
<1> QED BY <1>1, <1>2 DEF VoteSets

\* A majority stands for a quorum of counted votes.
LEMMA MajorityCounted ==
    ASSUME NEW s, Core(s), s.height = StartHeight, NEW t \in VoteTypes, NEW r \in Int, NEW b \in Values,
           Maj23(s.votes, r, t) = b
    PROVE  /\ r \in Rounds
           /\ \E Q \in HeightQuorums : \A i \in Q : <<i, r, b>> \in s.counted[t]
<1> DEFINE vs == VotesOf(s.votes, r, t)
           Q  == {i \in Validators : <<i, r, b>> \in s.counted[t]}
<1>1. TallyOf(vs, b).votes = Q
  BY DEF Core, CountedInv, CountedOk
<1> Sound(vs) /\ vs.maj23 = b
  BY VotesOfSound DEF Core, VotesInv, VotesOk, Maj23
<1>3. b # None
  BY NoneAssumption DEF Values
<1> HIDE DEF vs
<1>4. vs.has_maj23
  BY <1>3 DEF Sound, WellFormed
<1>5. Weight(Q) >= Quorum
  <2> Tracks(vs, b) /\ Quorum <= vs.votes_by_block[b].sum
    BY <1>4 DEF Sound, MajorityBacked
  <2>2. vs.votes_by_block[b].sum = Weight(vs.votes_by_block[b].votes)
    BY DEF Sound, SumsExact, Tracks
  <2>3. vs.votes_by_block[b].votes = Q
    BY <1>1 DEF TallyOf
  <2> HIDE DEF Q
  <2>4. Weight(Q) \in Nat /\ Quorum \in Nat
    BY WeightNat, QuorumNat DEF Q
  <2>5. vs.votes_by_block[b].sum = Weight(Q)
    BY <2>2, <2>3
  <2> QED BY <2>4, <2>5
<1>6. Q \in HeightQuorums
  BY <1>5 DEF HeightQuorums
<1>7. Q # {}
  <2>1. Quorum \in Nat /\ TotalPower \in Nat /\ Quorum > 0
    BY QuorumNat, SMT DEF Quorum
  <2> HIDE DEF Q
  <2> QED BY <1>5, <2>1, WeightOfNobody, SMT
<1>8. PICK i \in Validators : <<i, r, b>> \in s.counted[t]
  BY <1>7
<1>9. s.counted[t] \subseteq Validators \X Rounds \X Values
  BY DEF Core, Typed
<1> QED BY <1>6, <1>8, <1>9

\* cmt_cs_update_to_state after the block is decided.
LEMMA UpdateToStateCore ==
    ASSUME NEW s, Core(s), s.height = StartHeight, NEW b \in Blocks,
           Maj23(s.votes, s.commit_round, "precommit") = b
    PROVE  LET n == UpdateToState([s EXCEPT !.decided = @ \cup {[height |-> s.height, block |-> b]}])
           IN  Core(n) /\ ValidCurrent(n) /\ n.counted = s.counted
<1> DEFINE d == [s EXCEPT !.decided = @ \cup {[height |-> s.height, block |-> b]}]
           n == UpdateToState(d)
           H == StartHeight + 1
           t == [height |-> H, round |-> 0, step |-> StepNewHeight]
           x == [d EXCEPT !.height = H, !.round = 0, !.step = StepNewHeight,
                          !.proposal = None, !.block = None, !.parts = None,
                          !.locked_round = -1, !.locked_block = None, !.locked_parts = None,
                          !.valid_round = -1, !.valid_block = None, !.valid_parts = None,
                          !.last_commit = LastPrecommits(d),
                          !.votes = NewHeightVotes, !.commit_round = -1,
                          !.triggered_timeout_precommit = FALSE]
<1> DOMAIN s = Fields /\ StartHeight \in Nat /\ s.commit_round \in Int
  <2>1. DOMAIN s = Fields /\ s.commit_round \in -1..MaxRound
    BY DEF Core, Typed
  <2> QED BY <2>1, CoreTypes, SMT
<1>1. /\ DOMAIN d = Fields /\ d.decided = s.decided \cup {[height |-> s.height, block |-> b]}
      /\ \A f \in Fields \ {"decided"} : d[f] = s[f]
  BY DEF Fields
<1> HIDE DEF d
<1>2. /\ d.height = s.height /\ d.commit_round = s.commit_round /\ d.votes = s.votes /\ d.ti = s.ti
      /\ LastPrecommits(d) = [round |-> s.commit_round, set |-> Precommits(s, s.commit_round)]
  BY <1>1 DEF Fields, LastPrecommits, Precommits
<1>3. n = ScheduleTimeout(x, H, 0, StepNewHeight)
  BY <1>2 DEF UpdateToState
<1>4. /\ DOMAIN x = Fields /\ x.height = H /\ x.round = 0 /\ x.step = StepNewHeight
      /\ x.proposal = None /\ x.block = None /\ x.parts = None
      /\ x.locked_round = -1 /\ x.locked_block = None /\ x.locked_parts = None
      /\ x.valid_round = -1 /\ x.valid_block = None /\ x.valid_parts = None
      /\ x.last_commit = LastPrecommits(d) /\ x.votes = NewHeightVotes /\ x.commit_round = -1
      /\ x.triggered_timeout_precommit = FALSE
      /\ x.queue = s.queue /\ x.ti = s.ti /\ x.tocks = s.tocks /\ x.signed = s.signed
      /\ x.counted = s.counted /\ x.reported = s.reported /\ x.refused = s.refused
      /\ x.fault = s.fault /\ x.decided = d.decided
  BY <1>1 DEF Fields
<1> HIDE DEF x, n
<1>5. s.ti \in Ticks /\ s.ti.height \in Int /\ s.ti.height <= StartHeight
  <2>1. s.ti \in Ticks
    BY DEF Core, Typed
  <2>2. s.ti.height <= StartHeight
    BY DEF Core, TickInv, TickOk
  <2>3. s.ti.height \in Heights
    BY <2>1 DEF Ticks
  <2> QED BY <2>1, <2>2, <2>3, SMT DEF Heights
<1>6. n = [x EXCEPT !.ti = t, !.armed = TRUE]
  <2>1. ~OldTick(x.ti, H, 0, StepNewHeight)
    BY <1>4, <1>5, SMT DEF OldTick
  <2> QED BY <1>3, <2>1 DEF ScheduleTimeout
<1> DEFINE lc == [round |-> s.commit_round, set |-> Precommits(s, s.commit_round)]
<1> /\ DOMAIN n = Fields /\ n.height = H /\ n.round = 0 /\ n.step = StepNewHeight
      /\ n.proposal = None /\ n.block = None /\ n.parts = None
      /\ n.locked_round = -1 /\ n.locked_block = None /\ n.locked_parts = None
      /\ n.valid_round = -1 /\ n.valid_block = None /\ n.valid_parts = None
      /\ n.last_commit = lc /\ n.votes = NewHeightVotes /\ n.commit_round = -1
      /\ n.triggered_timeout_precommit = FALSE
      /\ n.queue = s.queue /\ n.ti = t /\ n.armed = TRUE /\ n.tocks = s.tocks /\ n.signed = s.signed
      /\ n.counted = s.counted /\ n.reported = s.reported /\ n.refused = s.refused
      /\ n.fault = s.fault /\ n.decided = s.decided \cup {[height |-> s.height, block |-> b]}
  <2>1. "ti" \in Fields /\ "armed" \in Fields
    BY DEF Fields
  <2> HIDE DEF t, lc
  <2> QED BY <1>1, <1>2, <1>4, <1>6, <2>1, SMT DEF lc
<1> H \in Heights /\ H \in Nat /\ StartHeight < H /\ H # StartHeight
  BY SMT DEF Heights
<1>9. t \in Ticks /\ t.height = H /\ t.round = 0
  BY DEF Ticks, TickSteps
<1> HIDE DEF t, H
<1>10. Typed(n)
  <2>1. n.step \in (1..6) \cup {8} /\ n.commit_round \in -1..MaxRound /\ n.round \in Nat
    BY MaxRoundAssumption, SMT DEF StepNewHeight
  <2>2. n.armed \in BOOLEAN /\ n.triggered_timeout_precommit \in BOOLEAN
    OBVIOUS
  <2>3. PartsTyped(n)
    BY DEF PartsTyped
  <2> QED BY <1>9, <2>1, <2>2, <2>3 DEF Core, Typed
<1>11. VotesInv(n)
  <2>1. -1 <= 0 /\ 0 <= MaxRound
    BY MaxRoundAssumption, SMT
  <2> QED BY <2>1, NewHeightVotesOk DEF VotesInv, VotesOk
<1>12. \A w \in s.signed : w.height <= StartHeight /\ w.height \in Int
  <2>1. s.signed \subseteq SignedVotes
    BY DEF Core, Typed
  <2>2. \A w \in s.signed : w.height <= StartHeight
    BY DEF Core, SignedInv, SignedOk
  <2>3. \A w \in SignedVotes : w.height \in Heights
    BY DEF SignedVotes
  <2>4. Heights \subseteq Int
    BY SMT DEF Heights
  <2> QED BY <2>1, <2>2, <2>3, <2>4
<1>13. SignedInv(n)
  <2>1. \A k \in Int : k <= StartHeight => k <= H /\ k # H
    BY SMT
  <2>2. ~s.refused
    BY DEF Core, SignedInv, SignedOk
  <2> QED BY <1>12, <2>1, <2>2 DEF SignedInv, SignedOk
<1>14. \A q, c : ~Precommitted(n.signed, n.height, q, c)
  <2> SUFFICES ASSUME NEW q, NEW c, Precommitted(n.signed, n.height, q, c) PROVE FALSE
    OBVIOUS
  <2> DEFINE w == [height |-> n.height, round |-> q, type |-> "precommit", block |-> c]
  <2>1. w \in s.signed /\ w.height = H
    BY DEF Precommitted
  <2>2. \A k \in Int : k <= StartHeight => k # H
    BY SMT
  <2> HIDE DEF w
  <2> QED BY <1>12, <2>1, <2>2
<1>15. LockInv(n) /\ ValidInv(n) /\ BlockInv(n) /\ KeptInv(n) /\ ValidCurrent(n)
  <2>1. -1 \in -1..n.round
    BY SMT
  <2>2. LockInv(n) /\ ValidInv(n) /\ KeptInv(n)
    BY <1>14, <2>1 DEF LockInv, LockOk, ValidInv, ValidOk, KeptInv, KeptOk
  <2>3. BlockInv(n)
    BY DEF BlockInv, HeldInv, HeldOk, LockedPair, ValidPair, PairOk
  <2>4. ValidCurrent(n)
    BY HashOfBlock DEF ValidCurrent, CurrentOk, HashesTo
  <2> QED BY <2>2, <2>3, <2>4
<1>16. RulesInv(n)
  BY <1>14 DEF RulesInv, RulesOk
<1>17. \A i \in DOMAIN s.queue : s.queue[i].height <= StartHeight /\ s.queue[i].height \in Int
  <2>1. \A i \in DOMAIN s.queue : s.queue[i] \in Messages
    <3>1. s.queue \in Seq(Messages)
      BY DEF Core, Typed
    <3> QED BY <3>1, ElementOfSeq
  <2>2. \A m \in Messages : m.height \in Heights
    BY DEF Messages
  <2> SUFFICES ASSUME NEW i \in DOMAIN s.queue
               PROVE  s.queue[i].height <= StartHeight /\ s.queue[i].height \in Int
    OBVIOUS
  <2>3. s.queue[i].height \in Heights
    BY <2>1, <2>2
  <2>4. s.queue[i].height <= s.height
    BY DEF Core, QueueInv, QueueOk
  <2>5. Heights \subseteq Int
    BY SMT DEF Heights
  <2> QED BY <2>3, <2>4, <2>5
<1>18. QueueInv(n)
  <2>1. \A k \in Int : k <= StartHeight => k <= H /\ k # H
    BY SMT
  <2>2. \A i \in DOMAIN s.queue : s.queue[i].height <= H /\ s.queue[i].height # H
    <3> SUFFICES ASSUME NEW i \in DOMAIN s.queue
                 PROVE  s.queue[i].height <= H /\ s.queue[i].height # H
      OBVIOUS
    <3>1. s.queue[i].height <= StartHeight /\ s.queue[i].height \in Int
      BY <1>17
    <3> QED BY <2>1, <3>1, ZenonT(40)
  <2> QED BY <2>2 DEF Core, QueueInv, QueueOk
<1>19. CountedInv(n)
  BY DEF CountedInv, CountedOk
<1>20. OwnInv(n)
  BY DEF Core, OwnInv, OwnOk
<1>21. EvidenceInv(n)
  <2> SUFFICES ASSUME NEW u \in VoteTypes, NEW i \in Validators \ {Self}, NEW r \in Rounds, NEW c \in Values,
                      <<i, r, c>> \in n.counted[u], NEW e \in Values, <<i, r, e>> \in n.counted[u], c # e
               PROVE  Reported(n.reported, i, u, r)
    BY ZenonT(40) DEF EvidenceInv, EvidenceOk
  <2> QED BY DEF Core, EvidenceInv, EvidenceOk, Reported
<1>22. DecisionInv(n)
  <2>1. Sound(Precommits(s, s.commit_round)) /\ Precommits(s, s.commit_round).maj23 = b
    BY VotesOfSound DEF Core, VotesInv, VotesOk, Precommits, VoteTypes, Maj23
  <2>2. Precommits(s, s.commit_round).has_maj23
    BY <2>1, NoneAssumption DEF Sound, WellFormed
  <2>3. \E r \in Rounds : CommitCounted(s.counted, r, b)
    <3>1. b \in Values /\ "precommit" \in VoteTypes
      BY DEF Values, VoteTypes
    <3>2. s.commit_round \in Rounds /\ CommitCounted(s.counted, s.commit_round, b)
      BY <3>1, MajorityCounted DEF CommitCounted
    <3> QED BY <3>2
  <2>4. s.decided = {}
    BY DEF Core, DecisionInv, DecisionOk
  <2> lc.set.maj23 = b /\ lc.set.has_maj23 /\ Sound(lc.set) /\ lc.round \in Int /\ lc = [round |-> lc.round, set |-> lc.set]
    BY <2>1, <2>2
  <2>6. lc # None
    <3>1. lc.set \in VoteSets
      BY WellFormedInVoteSets DEF Sound
    <3>2. lc \in [round : Int, set : VoteSets]
      BY <3>1
    <3> QED BY <3>2, StructAssumption
  <2> HIDE DEF lc
  <2>7. \E r \in Rounds : CommitCounted(n.counted, r, b)
    BY <2>3 DEF CommitCounted
  <2> QED BY <2>4, <2>6, <2>7 DEF DecisionInv, DecisionOk
<1>23. TickInv(n)
  <2>1. \A i \in DOMAIN s.tocks : s.tocks[i].height <= StartHeight /\ s.tocks[i].height \in Int
    <3>1. s.tocks \in Seq(Ticks)
      BY DEF Core, Typed
    <3>2. \A i \in DOMAIN s.tocks : s.tocks[i] \in Ticks
      BY <3>1, ElementOfSeq
    <3>3. \A i \in DOMAIN s.tocks : s.tocks[i].height <= StartHeight
      BY DEF Core, TickInv, TickOk
    <3>4. \A k \in Ticks : k.height \in Heights
      BY DEF Ticks
    <3>5. Heights \subseteq Int
      BY SMT DEF Heights
    <3> QED BY <3>2, <3>3, <3>4, <3>5
  <2>2. H <= H /\ 0 <= 0 /\ \A k \in Int : k <= StartHeight => k <= H /\ k # H
    BY SMT
  <2>3. \A i \in DOMAIN s.tocks : s.tocks[i].height <= H /\ s.tocks[i].height # H
    <3> SUFFICES ASSUME NEW i \in DOMAIN s.tocks
                 PROVE  s.tocks[i].height <= H /\ s.tocks[i].height # H
      OBVIOUS
    <3>1. s.tocks[i].height <= StartHeight /\ s.tocks[i].height \in Int
      BY <2>1
    <3> QED BY <2>2, <3>1
  <2> QED BY <1>9, <2>2, <2>3 DEF TickInv, TickOk
<1>24. Core(n)
  BY <1>10, <1>11, <1>13, <1>15, <1>16, <1>18, <1>19, <1>20, <1>21, <1>22, <1>23 DEF Core
<1> QED BY <1>15, <1>24 DEF n, d

\* tryFinalizeCommit and finalizeCommit at the instance's height.
LEMMA TryFinalizeCommitCore ==
    ASSUME NEW s, Core(s), ValidCurrent(s)
    PROVE  LET n == TryFinalizeCommit(s, StartHeight)
           IN  Core(n) /\ ValidCurrent(n) /\ n.counted = s.counted
<1> DEFINE n   == TryFinalizeCommit(s, StartHeight)
           maj == Maj23(s.votes, s.commit_round, "precommit")
           u   == UpdateToState([s EXCEPT !.decided = @ \cup {[height |-> StartHeight, block |-> maj]}])
<1>1. CASE n = s
  <2> HIDE DEF n
  <2> QED BY <1>1 DEF n
<1>2. CASE n = Fault(s)
  <2>1. Core(Fault(s)) /\ Same(Fault(s), s, {"fault"})
    BY FaultCore
  <2> HIDE DEF n
  <2>2. Core(n) /\ Same(n, s, {"fault"})
    BY <1>2, <2>1
  <2>3. /\ n.step = s.step /\ n.block = s.block /\ n.round = s.round
        /\ n.valid_round = s.valid_round /\ n.votes = s.votes /\ n.counted = s.counted
    BY <2>2 DEF Same, Fields
  <2>4. ValidCurrent(n)
    BY <2>3 DEF ValidCurrent, CurrentOk
  <2> QED BY <2>2, <2>3, <2>4 DEF n
<1>3. CASE s.height = StartHeight /\ maj \in Blocks /\ n = u
  <2>1. Core(u) /\ ValidCurrent(u) /\ u.counted = s.counted
    <3> DEFINE w == UpdateToState([s EXCEPT !.decided = @ \cup {[height |-> s.height, block |-> maj]}])
    <3>1. Core(w) /\ ValidCurrent(w) /\ w.counted = s.counted
      <4> HIDE DEF maj
      <4> QED BY <1>3, UpdateToStateCore DEF maj
    <3>2. w = u
      BY <1>3
    <3> HIDE DEF w, u
    <3> QED BY <3>1, <3>2
  <2> HIDE DEF n, u
  <2> QED BY <1>3, <2>1 DEF n
<1>4. n = s \/ n = Fault(s) \/ (s.height = StartHeight /\ maj \in Blocks /\ n = u)
  <2> HIDE DEF maj
  <2> QED BY DEF TryFinalizeCommit, FinalizeCommit, HashesTo, maj
<1> QED BY <1>1, <1>2, <1>3, <1>4

\* The block and the part set with which the node waits for the commit's block.
LEMMA CommitBlockHeld ==
    ASSUME NEW s, Core(s), s.step < StepCommit, NEW b \in Blocks
    PROVE  LET c == CommitBlock(s, b)
           IN  /\ Same(c, s, {"block", "parts"}) /\ PartsTyped(c)
               /\ PairOk(s.votes, s.round, c.block, c.parts)
               /\ c.block # None /\ c.parts = None =>
                     s.fault \/ s.valid_round = s.round \/ HashesTo(c.block, b)
<1> DEFINE c == CommitBlock(s, b)
<1> /\ DOMAIN s = Fields /\ "block" \in Fields /\ "parts" \in Fields
    /\ PartsTyped(s) /\ s.locked_block \in Hashes \cup {None}
  BY DEF Core, Typed, Fields, LockInv, LockOk
<1> s.step # StepCommit
  BY CoreTypes, SMT DEF StepCommit
<1>1. CASE HashesTo(s.locked_block, b)
  <2>1. c = [s EXCEPT !.block = s.locked_block, !.parts = s.locked_parts]
    BY <1>1 DEF CommitBlock
  <2> HIDE DEF c
  <2>2. Same(c, s, {"block", "parts"}) /\ c.block = s.locked_block /\ c.parts = s.locked_parts
    BY <2>1 DEF Same
  <2>3. c.locked_parts = s.locked_parts /\ c.valid_parts = s.valid_parts
    BY <2>2 DEF Same, Fields
  <2>4. PartsTyped(c)
    BY <2>2, <2>3 DEF PartsTyped
  <2>5. PairOk(s.votes, s.round, c.block, c.parts)
    BY <2>2 DEF Core, BlockInv, LockedPair
  <2> QED BY <1>1, <2>2, <2>4, <2>5 DEF c
<1>2. CASE ~HashesTo(s.locked_block, b) /\ (HashesTo(s.block, b) \/ HasHeader(s, b))
  <2>1. c = s
    BY <1>2 DEF CommitBlock
  <2> HIDE DEF c
  <2> QED BY <2>1 DEF Same, Core, BlockInv, HeldInv, HeldOk, c
<1>3. CASE ~HashesTo(s.locked_block, b) /\ ~HashesTo(s.block, b) /\ ~HasHeader(s, b)
  <2> DEFINE u == [s EXCEPT !.block = None]
             p == NewPartSet(u, b.parts)
  <2>1. c = WantParts(u, b)
    BY <1>3 DEF CommitBlock
  <2>2. /\ DOMAIN u = Fields /\ u.block = None /\ u.parts = s.parts
        /\ \A f \in Fields \ {"block"} : u[f] = s[f]
    OBVIOUS
  <2> HIDE DEF c, u
  <2>3. c = [u EXCEPT !.parts = p]
    BY <1>3, <2>1, <2>2 DEF WantParts, HasHeader
  <2>4. p \in Parts \cup {None}
    BY HashOfBlock, NewPartSetTyped
  <2> HIDE DEF p
  <2>5. Same(c, s, {"block", "parts"}) /\ c.block = None /\ c.parts = p
    BY <2>2, <2>3 DEF Same
  <2>6. c.locked_parts = s.locked_parts /\ c.valid_parts = s.valid_parts
    BY <2>5 DEF Same, Fields
  <2>7. PartsTyped(c)
    BY <2>4, <2>5, <2>6 DEF PartsTyped
  <2> QED BY <2>5, <2>7 DEF PairOk, c
<1> QED BY <1>1, <1>2, <1>3

\* The step of the commit, with the block and the part set it waits with.
LEMMA CommitStepCore ==
    ASSUME NEW s, NEW x, Core(s), s.step < StepCommit,
           Same(x, s, {"block", "parts", "step", "commit_round", "fault"}),
           x.step = StepCommit, x.commit_round \in Rounds, x.fault \in BOOLEAN, PartsTyped(x),
           PairOk(s.votes, s.round, x.block, x.parts),
           x.block # None /\ x.parts = None => x.fault \/ s.valid_round = s.round
    PROVE  Core(x) /\ ValidCurrent(x)
<1> /\ x.proposal = s.proposal /\ x.triggered_timeout_precommit = s.triggered_timeout_precommit
    /\ x.ti = s.ti /\ x.armed = s.armed /\ x.tocks = s.tocks
    /\ x.height = s.height /\ x.round = s.round /\ x.votes = s.votes
    /\ x.locked_block = s.locked_block /\ x.locked_parts = s.locked_parts
    /\ x.valid_round = s.valid_round /\ x.valid_block = s.valid_block /\ x.valid_parts = s.valid_parts
  BY DEF Same, Fields
<1>1. TickInv(x)
  BY DEF Core, TickInv
<1>2. /\ x.proposal \in Proposals \cup {None} /\ x.triggered_timeout_precommit \in BOOLEAN
      /\ x.ti \in Ticks /\ x.armed \in BOOLEAN /\ x.tocks \in Seq(Ticks)
  BY DEF Core, Typed
<1>3. x.step \in (1..6) \cup {8} /\ s.step <= x.step /\ x.commit_round \in -1..MaxRound
  BY CoreTypes, MaxRoundAssumption, SMT DEF StepCommit, Rounds
<1>4. ~(x.step < StepCommit)
  BY SMT DEF StepCommit
<1>5. HeldInv(x)
  BY <1>4 DEF HeldInv, HeldOk
<1>6. BlockInv(x)
  BY <1>5 DEF Core, BlockInv, LockedPair, ValidPair
<1>7. Same(x, s, {"ti", "armed", "tocks", "step", "proposal", "block", "parts",
                  "locked_parts", "valid_parts",
                  "triggered_timeout_precommit", "commit_round", "fault"})
  BY DEF Same
<1>8. Core(x)
  BY <1>1, <1>2, <1>3, <1>6, <1>7, FrameCore
<1>9. ValidCurrent(x)
  BY <1>4 DEF ValidCurrent, CurrentOk
<1> QED BY <1>8, <1>9

\* enterCommit at the instance's height, on a commit for a block.
LEMMA EnterCommitCore ==
    ASSUME NEW s, Core(s), ValidCurrent(s), NEW r \in Rounds, Maj23(s.votes, r, "precommit") \in Blocks
    PROVE  LET n == EnterCommit(s, StartHeight, r)
           IN  Core(n) /\ ValidCurrent(n) /\ n.counted = s.counted
<1> DEFINE n    == EnterCommit(s, StartHeight, r)
           maj  == Maj23(s.votes, r, "precommit")
           c    == CommitBlock(s, maj)
           x    == [c EXCEPT !.step = StepCommit, !.commit_round = r]
           idle == s.fault \/ s.height # StartHeight \/ StepCommit <= s.step
<1> DOMAIN s = Fields /\ s.step \in 1..8 /\ maj # None
  BY CoreTypes, NoneAssumption
<1>1. CASE idle
  <2>1. n = s
    BY <1>1 DEF EnterCommit
  <2> HIDE DEF n
  <2> QED BY <2>1 DEF n
<1>2. CASE ~idle
  <2> ~s.fault /\ s.height = StartHeight /\ s.step < StepCommit
    BY <1>2, SMT DEF StepCommit
  <2>0. n = TryFinalizeCommit(x, StartHeight)
    <3> HIDE DEF maj, x
    <3> QED BY <1>2 DEF EnterCommit, maj, c, x
  <2>1. /\ Same(c, s, {"block", "parts"}) /\ PartsTyped(c)
        /\ PairOk(s.votes, s.round, c.block, c.parts)
        /\ c.block # None /\ c.parts = None =>
              s.fault \/ s.valid_round = s.round \/ HashesTo(c.block, maj)
    <3> HIDE DEF maj
    <3>1. maj \in Blocks
      BY DEF maj
    <3> QED BY <3>1, CommitBlockHeld
  <2> HIDE DEF c, n
  <2>2. /\ Same(x, s, {"block", "parts", "step", "commit_round"}) /\ x.step = StepCommit /\ x.commit_round = r
        /\ x.block = c.block /\ x.parts = c.parts
        /\ x.locked_parts = c.locked_parts /\ x.valid_parts = c.valid_parts
    <3>1. /\ "step" \in Fields /\ "commit_round" \in Fields /\ "block" \in Fields /\ "parts" \in Fields
          /\ "locked_parts" \in Fields /\ "valid_parts" \in Fields /\ DOMAIN c = Fields
      BY <2>1 DEF Fields, Same
    <3> QED BY <2>1, <3>1 DEF Same
  <2> HIDE DEF x
  <2>3. x.fault = s.fault /\ x.counted = s.counted /\ x.height = s.height /\ x.votes = s.votes
    BY <2>2 DEF Same, Fields
  <2>4. PartsTyped(x) /\ x.fault \in BOOLEAN
    BY <2>1, <2>2, <2>3 DEF PartsTyped, Core, Typed
  <2>5. CASE x.block # None /\ x.parts = None => s.valid_round = s.round
    <3>1. Same(x, s, {"block", "parts", "step", "commit_round", "fault"})
      BY <2>2 DEF Same
    <3>2. Core(x) /\ ValidCurrent(x)
      BY <2>1, <2>2, <2>4, <2>5, <3>1, CommitStepCore
    <3> DEFINE y == TryFinalizeCommit(x, StartHeight)
    <3>3. Core(y) /\ ValidCurrent(y) /\ y.counted = x.counted
      BY <3>2, TryFinalizeCommitCore
    <3> HIDE DEF y
    <3> QED BY <2>0, <2>3, <3>3 DEF n, y
  <2>6. CASE HashesTo(x.block, maj) /\ x.parts = None
    <3> DEFINE f == Fault(x)
    <3>1. n = f
      BY <2>0, <2>2, <2>3, <2>6 DEF TryFinalizeCommit, FinalizeCommit
    <3>2. /\ Same(f, s, {"block", "parts", "step", "commit_round", "fault"}) /\ f.fault = TRUE
          /\ f.step = x.step /\ f.commit_round = x.commit_round /\ f.block = x.block /\ f.parts = x.parts
          /\ f.locked_parts = x.locked_parts /\ f.valid_parts = x.valid_parts /\ f.counted = x.counted
      <4>1. DOMAIN x = Fields /\ "fault" \in Fields
        BY <2>2 DEF Same, Fields
      <4> QED BY <2>2, <4>1 DEF Fault, Same, Fields
    <3> HIDE DEF f
    <3>3. PartsTyped(f) /\ f.fault \in BOOLEAN
      BY <2>4, <3>2 DEF PartsTyped
    <3>4. Core(f) /\ ValidCurrent(f)
      BY <2>1, <2>2, <3>2, <3>3, CommitStepCore
    <3> QED BY <2>3, <3>1, <3>2, <3>4 DEF n
  <2> QED BY <2>1, <2>2, <2>5, <2>6
<1> QED BY <1>1, <1>2

\* The proposal, its block and the part sets alone.
LEMMA PartsCore ==
    ASSUME NEW s, NEW n, Core(s),
           Same(n, s, {"proposal", "block", "parts", "locked_parts", "valid_parts"}),
           n.proposal \in Proposals \cup {None}, PartsTyped(n), BlockInv(n)
    PROVE  Core(n)
<1> /\ n.height = s.height /\ n.round = s.round /\ n.step = s.step /\ n.commit_round = s.commit_round
      /\ n.triggered_timeout_precommit = s.triggered_timeout_precommit /\ n.fault = s.fault
      /\ n.ti = s.ti /\ n.armed = s.armed /\ n.tocks = s.tocks
  BY DEF Same, Fields
<1>2. TickInv(n)
  BY DEF Core, TickInv, TickOk
<1>3. /\ n.step \in (1..6) \cup {8} /\ n.commit_round \in -1..MaxRound
      /\ n.triggered_timeout_precommit \in BOOLEAN /\ n.fault \in BOOLEAN
      /\ n.ti \in Ticks /\ n.armed \in BOOLEAN /\ n.tocks \in Seq(Ticks)
  BY DEF Core, Typed
<1>4. s.step <= n.step
  BY CoreTypes, SMT
<1>5. Same(n, s, {"ti", "armed", "tocks", "step", "proposal", "block", "parts",
                  "locked_parts", "valid_parts",
                  "triggered_timeout_precommit", "commit_round", "fault"})
  BY DEF Same
<1> QED BY <1>2, <1>3, <1>4, <1>5, FrameCore

\* cmt_cs_default_set_proposal: before the commit, a node that has neither a
\* proposal nor a part set has no block either.
LEMMA SetProposalCore ==
    ASSUME NEW s, Core(s), ~s.fault, NEW h, NEW p \in Proposals
    PROVE  LET n == SetProposal(s, h, p)
           IN  Core(n) /\ Same(n, s, {"proposal", "parts"})
<1> DEFINE n == SetProposal(s, h, p)
           w == NewPartSet(s, p.block.parts)
<1>0. DOMAIN s = Fields /\ "proposal" \in Fields /\ "parts" \in Fields
  BY CoreTypes DEF Fields
<1>1. CASE n = s
  <2> HIDE DEF n
  <2> QED BY <1>0, <1>1 DEF Same, n
<1>2. CASE /\ s.proposal = None /\ (s.parts = None => p.block.parts \notin Unbounded)
           /\ n = [s EXCEPT !.proposal = p, !.parts = IF @ = None THEN w ELSE @]
  <2> HIDE DEF n
  <2>1. /\ Same(n, s, {"proposal", "parts"}) /\ n.proposal = p
        /\ n.parts = IF s.parts = None THEN w ELSE s.parts
    BY <1>0, <1>2 DEF Same
  <2>2. p.block \in Blocks /\ p # None
    BY StructAssumption DEF Proposals
  <2>3. w \in Parts \cup {None} /\ (p.block.parts \notin Unbounded => w # None)
    BY <2>2, HashOfBlock, NewPartSetTyped
  <2> HIDE DEF w
  <2> /\ n.votes = s.votes /\ n.round = s.round /\ n.step = s.step /\ n.fault = s.fault
      /\ n.block = s.block /\ n.locked_block = s.locked_block /\ n.locked_parts = s.locked_parts
      /\ n.valid_round = s.valid_round /\ n.valid_block = s.valid_block
      /\ n.valid_parts = s.valid_parts
    BY <2>1 DEF Same, Fields
  <2>4. PartsTyped(n) /\ n.proposal \in Proposals \cup {None}
    BY <2>1, <2>3 DEF Core, Typed, PartsTyped
  <2>5. LockedPair(n) /\ ValidPair(n)
    BY DEF Core, BlockInv, LockedPair, ValidPair
  <2>6. HeldInv(n)
    <3>1. HeldInv(s)
      BY DEF Core, BlockInv
    <3>2. CASE s.parts # None
      BY <2>1, <2>2, <3>1, <3>2 DEF HeldInv, HeldOk
    <3>3. CASE s.parts = None
      <4>1. n.parts # None
        BY <1>2, <2>1, <2>3, <3>3
      <4>2. s.step < StepCommit \/ s.step = StepCommit
        BY CoreTypes, SMT DEF StepCommit
      <4>3. s.block = None \/ (s.step = StepCommit /\ s.valid_round = s.round)
        BY <1>2, <3>1, <3>3, <4>2 DEF HeldInv, HeldOk
      <4> QED BY <2>1, <2>2, <4>1, <4>3 DEF HeldInv, HeldOk, PairOk
    <3> QED BY <3>2, <3>3
  <2>7. Same(n, s, {"proposal", "block", "parts", "locked_parts", "valid_parts"})
    BY <2>1 DEF Same
  <2>8. Core(n)
    BY <2>4, <2>5, <2>6, <2>7, PartsCore DEF BlockInv
  <2> QED BY <2>1, <2>8 DEF n
<1> QED BY <1>1, <1>2 DEF SetProposal

\* The block of the round's polka becomes the valid block.
LEMMA ValidCore ==
    ASSUME NEW s, Core(s), s.valid_round < s.round, HashesTo(s.block, Maj23(s.votes, s.round, "prevote"))
    PROVE  LET n == TakeValid(s, s.round)
           IN  /\ Core(n) /\ ValidCurrent(n) /\ n.valid_round = s.round
               /\ Same(n, s, {"valid_round", "valid_block", "valid_parts"})
<1> DEFINE n == TakeValid(s, s.round)
<1>1. /\ Same(n, s, {"valid_round", "valid_block", "valid_parts"})
      /\ n.valid_round = s.round /\ n.valid_block = s.block /\ n.valid_parts = s.parts
  <2>1. /\ DOMAIN s = Fields /\ "valid_round" \in Fields /\ "valid_block" \in Fields
        /\ "valid_parts" \in Fields
    BY CoreTypes DEF Fields
  <2> QED BY <2>1 DEF TakeValid, Same
<1> HIDE DEF n
<1> /\ n.height = s.height /\ n.round = s.round /\ n.step = s.step /\ n.proposal = s.proposal
      /\ n.block = s.block /\ n.parts = s.parts /\ n.locked_parts = s.locked_parts
      /\ n.locked_round = s.locked_round /\ n.locked_block = s.locked_block
      /\ n.votes = s.votes /\ n.last_commit = s.last_commit /\ n.commit_round = s.commit_round
      /\ n.triggered_timeout_precommit = s.triggered_timeout_precommit
      /\ n.queue = s.queue /\ n.ti = s.ti /\ n.armed = s.armed /\ n.tocks = s.tocks
      /\ n.signed = s.signed /\ n.counted = s.counted /\ n.decided = s.decided
      /\ n.reported = s.reported /\ n.refused = s.refused /\ n.fault = s.fault
  BY <1>1 DEF Same, Fields
<1> s.round \in Nat /\ s.valid_round # s.round /\ s.block \in Hashes
  <2>1. s.valid_round \in -1..s.round
    BY DEF Core, ValidInv, ValidOk
  <2> QED BY <2>1, CoreTypes, HashOfBlock, SMT DEF HashesTo
<1>2. Typed(n)
  BY <1>1 DEF Core, Typed, PartsTyped, Same
<1>3. VotesInv(n) /\ CountedInv(n) /\ EvidenceInv(n) /\ DecisionInv(n) /\ TickInv(n)
  BY DEF Core, VotesInv, CountedInv, EvidenceInv, DecisionInv, TickInv
<1>10. BlockInv(n)
  <2>1. PairOk(s.votes, s.round, s.block, s.parts)
    BY DEF Core, BlockInv, HeldInv, HeldOk
  <2>2. HeldInv(n)
    BY <1>1, <2>1 DEF Core, BlockInv, HeldInv, HeldOk
  <2>3. LockedPair(n) /\ ValidPair(n)
    BY <1>1, <2>1 DEF Core, BlockInv, LockedPair, ValidPair
  <2> QED BY <2>2, <2>3 DEF BlockInv
<1>4. KeptInv(n) /\ RulesInv(n)
  BY DEF Core, KeptInv, RulesInv
<1>5. SignedInv(n) /\ QueueInv(n)
  BY DEF Core, SignedInv, QueueInv
<1>6. OwnInv(n)
  BY DEF Core, OwnInv
<1>7. ValidInv(n)
  <2>1. n.valid_round \in -1..n.round /\ n.valid_round # -1
    BY <1>1, SMT
  <2>2. n.valid_block # None
    BY <1>1, BlockAssumption
  <2> QED BY <1>1, <2>1, <2>2 DEF ValidInv, ValidOk
<1>8. LockInv(n)
  <2>1. ASSUME s.locked_block # None
        PROVE  \E q \in 0..n.locked_round : \E b \in Blocks :
                  /\ Precommitted(n.signed, n.height, q, b) /\ b.hash = n.locked_block
                  /\ n.valid_block = n.locked_block \/ q < n.valid_round
    <3>1. PICK q \in 0..s.locked_round, b \in Blocks :
             Precommitted(s.signed, s.height, q, b) /\ b.hash = s.locked_block
      BY <2>1 DEF Core, LockInv, LockOk
    <3> /\ s.locked_round \in -1..s.round
        /\ HashesTo(s.locked_block, Maj23(s.votes, s.locked_round, "prevote"))
      BY <2>1 DEF Core, LockInv, LockOk
    <3>3. CASE q = s.round
      <4>1. s.locked_round = s.round
        BY <3>1, <3>3, SMT
      <4>2. s.locked_block = s.block
        BY <4>1 DEF HashesTo
      <4> QED BY <1>1, <3>1, <4>2 DEF Precommitted
    <3>4. CASE q < s.round
      BY <1>1, <3>1, <3>4 DEF Precommitted
    <3> QED BY <3>1, <3>3, <3>4, SMT
  <2> QED BY <2>1 DEF Core, LockInv, LockOk, Precommitted
<1>9. ValidCurrent(n)
  BY <1>1 DEF ValidCurrent, CurrentOk
<1> QED BY <1>1, <1>2, <1>3, <1>4, <1>5, <1>6, <1>7, <1>8, <1>9, <1>10 DEF Core, n

LEMMA SetValidCore ==
    ASSUME NEW s, Core(s)
    PROVE  LET n == SetValid(s)
           IN  /\ Core(n) /\ ValidCurrent(n)
               /\ Same(n, s, {"valid_round", "valid_block", "valid_parts"})
<1> DEFINE n   == SetValid(s)
           C   == s.valid_round < s.round /\ HashesTo(s.block, Maj23(s.votes, s.round, "prevote"))
<1> DOMAIN s = Fields /\ s.round \in Nat
  BY CoreTypes
<1>1. CASE C
  <2>1. n = TakeValid(s, s.round)
    BY <1>1 DEF SetValid
  <2> HIDE DEF n
  <2> QED BY <1>1, <2>1, ValidCore DEF n
<1>2. CASE ~C
  <2>1. n = s
    BY <1>2 DEF SetValid
  <2>2. ValidCurrent(s)
    <3>1. s.valid_round \in -1..s.round
      BY DEF Core, ValidInv, ValidOk
    <3> QED BY <1>2, <3>1, SMT DEF ValidCurrent, CurrentOk
  <2> HIDE DEF n
  <2> QED BY <2>1, <2>2 DEF Same, n
<1> QED BY <1>1, <1>2

\* handleCompleteProposal at the instance's height.
LEMMA HandleCompleteProposalCore ==
    ASSUME NEW s, Core(s)
    PROVE  LET n == HandleCompleteProposal(s, StartHeight)
           IN  Core(n) /\ ValidCurrent(n) /\ n.counted = s.counted
<1> DEFINE n == HandleCompleteProposal(s, StartHeight)
           valid      == SetValid(s)
           prevoted   == EnterPrevote(valid, StartHeight, s.round)
           precommits == EnterPrecommit(prevoted, StartHeight, s.round)
           finalized  == TryFinalizeCommit(valid, StartHeight)
<1> s.step \in 1..8 /\ s.round \in Nat
  BY CoreTypes
<1>1. n = valid \/ n = prevoted \/ n = precommits \/ n = finalized
  <2> HIDE DEF valid, prevoted, precommits, finalized
  <2>1. CASE s.step <= StepPropose /\ IsProposalComplete(valid)
    <3>1. s.step # StepCommit
      BY <2>1, SMT DEF StepPropose, StepCommit
    <3> QED BY <2>1, <3>1 DEF HandleCompleteProposal, valid, prevoted, precommits
  <2>2. CASE ~(s.step <= StepPropose /\ IsProposalComplete(valid)) /\ s.step = StepCommit
    BY <2>2 DEF HandleCompleteProposal, valid, finalized
  <2>3. CASE ~(s.step <= StepPropose /\ IsProposalComplete(valid)) /\ s.step # StepCommit
    BY <2>3 DEF HandleCompleteProposal, valid
  <2> QED BY <2>1, <2>2, <2>3
<1>2. Core(valid) /\ ValidCurrent(valid) /\ Same(valid, s, {"valid_round", "valid_block", "valid_parts"})
  BY SetValidCore
<1> HIDE DEF n, valid
<1> valid.round = s.round /\ valid.counted = s.counted /\ s.round <= s.round
  BY <1>2, SMT DEF Same, Fields
<1>4. Core(prevoted) /\ Same(prevoted, valid, {"signed", "queue", "step"}) /\ valid.step <= prevoted.step
  BY <1>2, EnterPrevoteCore
<1> HIDE DEF prevoted
<1> /\ prevoted.round = valid.round /\ prevoted.counted = s.counted /\ prevoted.block = valid.block
      /\ prevoted.valid_round = valid.valid_round /\ prevoted.votes = valid.votes
  BY <1>4 DEF Same, Fields
<1>6. ValidCurrent(prevoted)
  <2>1. SameTallies(prevoted.votes, valid.votes)
    BY DEF SameTallies
  <2>2. valid.step \in Int /\ prevoted.step \in Int
    BY <1>2, <1>4, CoreTypes
  <2> QED BY <1>2, <1>4, <2>1, <2>2, ValidCurrentKept
<1>7. Core(precommits) /\ ValidCurrent(precommits) /\ precommits.counted = s.counted
  <2>1. prevoted.step <= precommits.step /\ Core(precommits) /\ ValidCurrent(precommits)
        /\ Same(precommits, prevoted, {"signed", "queue", "step", "locked_round", "locked_block",
                                       "locked_parts", "block", "parts", "fault"})
    BY <1>4, <1>6, EnterPrecommitCore
  <2> HIDE DEF precommits
  <2> QED BY <2>1 DEF Same, Fields
<1>8. Core(finalized) /\ ValidCurrent(finalized) /\ finalized.counted = s.counted
  <2>1. Core(finalized) /\ ValidCurrent(finalized) /\ finalized.counted = valid.counted
    BY <1>2, TryFinalizeCommitCore
  <2> HIDE DEF finalized
  <2> QED BY <2>1
<1> HIDE DEF precommits, finalized
<1> QED BY <1>1, <1>2, <1>4, <1>6, <1>7, <1>8 DEF n

\* The last part comes and the block is decoded: an incomplete part set went
\* with a block only where +2/3 prevoted the two together, and it goes on to.
LEMMA PartFilled ==
    ASSUME NEW s, Core(s), s.parts # None, ~s.parts.complete
    PROVE  LET x == DecodeBlock(FillParts(s))
           IN  Core(x) /\ Same(x, s, {"block", "parts", "locked_parts", "valid_parts"})
<1> DEFINE F(p) == IF p = s.parts THEN [s.parts EXCEPT !.complete = TRUE] ELSE p
           f == FillParts(s)
           x == DecodeBlock(f)
<1> /\ DOMAIN s = Fields /\ s.parts \in Parts /\ PartsTyped(s)
  BY DEF Core, Typed, PartsTyped
<1>1. /\ Same(f, s, {"parts", "locked_parts", "valid_parts"}) /\ f.parts = F(s.parts)
      /\ f.locked_parts = F(s.locked_parts) /\ f.valid_parts = F(s.valid_parts)
  <2>1. "parts" \in Fields /\ "locked_parts" \in Fields /\ "valid_parts" \in Fields
    BY DEF Fields
  <2> QED BY <2>1 DEF FillParts, Same
<1> HIDE DEF f
<1>2. /\ F(s.parts) \in Parts /\ F(s.parts).header = s.parts.header /\ F(s.parts).complete
      /\ F(s.parts) # None
  BY StructAssumption DEF Parts
<1>3. ASSUME NEW hash, NEW p \in Parts \cup {None}, PairOk(s.votes, s.round, hash, p)
      PROVE  F(p) \in Parts \cup {None} /\ PairOk(s.votes, s.round, hash, F(p))
  <2> HIDE DEF F
  <2>1. CASE p = s.parts
    BY <1>2, <1>3, <2>1 DEF PairOk
  <2>2. CASE p # s.parts
    BY <1>3, <2>2 DEF F
  <2> QED BY <2>1, <2>2
<1> HIDE DEF F
<1>4. /\ Same(x, s, {"block", "parts", "locked_parts", "valid_parts"})
      /\ x.parts = f.parts /\ x.locked_parts = f.locked_parts /\ x.valid_parts = f.valid_parts
      /\ x.block = s.block \/ x.block = Content[s.parts.header]
  <2>1. /\ "block" \in Fields /\ "parts" \in Fields /\ "locked_parts" \in Fields /\ "valid_parts" \in Fields
        /\ DOMAIN f = Fields /\ f.block = s.block
    BY <1>1 DEF Fields, Same
  <2> QED BY <1>1, <1>2, <2>1 DEF DecodeBlock, Same
<1> HIDE DEF x
<1> /\ x.votes = s.votes /\ x.round = s.round /\ x.step = s.step /\ x.fault = s.fault
    /\ x.proposal = s.proposal /\ x.locked_block = s.locked_block
    /\ x.valid_round = s.valid_round /\ x.valid_block = s.valid_block
  BY <1>4 DEF Same, Fields
<1>5. Content[s.parts.header] \in Hashes \cup {None}
  BY BlockAssumption DEF Parts
<1>6. LockedPair(x) /\ ValidPair(x)
  BY <1>1, <1>3, <1>4 DEF Core, BlockInv, LockedPair, ValidPair, PartsTyped
<1>7. PartsTyped(x)
  BY <1>1, <1>2, <1>3, <1>4, <1>5 DEF Core, BlockInv, LockedPair, ValidPair, PartsTyped
<1>8. HeldInv(x)
  <2>1. HeldInv(s)
    BY DEF Core, BlockInv
  <2>2. PairOk(x.votes, x.round, x.block, x.parts) \/ (x.step = StepCommit /\ x.valid_round = x.round)
    <3>1. CASE x.block = Content[s.parts.header]
      BY <1>1, <1>2, <1>4, <3>1 DEF PairOk
    <3>2. CASE x.block = s.block
      BY <1>1, <1>3, <1>4, <2>1, <3>2 DEF HeldInv, HeldOk
    <3> QED BY <1>4, <3>1, <3>2
  <2> QED BY <1>1, <1>2, <1>4, <2>1, <2>2 DEF HeldInv, HeldOk
<1>9. x.proposal \in Proposals \cup {None}
  BY DEF Core, Typed
<1>10. Same(x, s, {"proposal", "block", "parts", "locked_parts", "valid_parts"})
  BY <1>4 DEF Same
<1>11. Core(x)
  BY <1>6, <1>7, <1>8, <1>9, <1>10, PartsCore DEF BlockInv
<1> QED BY <1>4, <1>11 DEF x, f

\* cmt_cs_add_proposal_block_part at the instance's height.
LEMMA AddProposalBlockPartCore ==
    ASSUME NEW s, Core(s), ValidCurrent(s), NEW header \in Headers
    PROVE  LET n == AddProposalBlockPart(s, StartHeight, header)
           IN  Core(n) /\ ValidCurrent(n) /\ n.counted = s.counted
<1> DEFINE n == AddProposalBlockPart(s, StartHeight, header)
           x == DecodeBlock(FillParts(s))
           c == HandleCompleteProposal(x, StartHeight)
<1>1. n = s \/ (n = c /\ s.parts # None /\ ~s.parts.complete)
  BY DEF AddProposalBlockPart
<1> HIDE DEF n, c
<1>2. CASE n = s
  BY <1>2 DEF n
<1>3. CASE n = c /\ s.parts # None /\ ~s.parts.complete
  <2>1. Core(x) /\ Same(x, s, {"block", "parts", "locked_parts", "valid_parts"})
    BY <1>3, PartFilled
  <2> HIDE DEF x
  <2>2. x.counted = s.counted
    BY <2>1 DEF Same, Fields
  <2>3. Core(c) /\ ValidCurrent(c) /\ c.counted = x.counted
    BY <2>1, HandleCompleteProposalCore DEF c
  <2> QED BY <1>3, <2>2, <2>3 DEF n
<1> QED BY <1>1, <1>2, <1>3


-----------------------------------------------------------------------------
(* Votes and claims.                                                       *)

\* The majorities of o are majorities of n.
Finals(n, o) ==
    \A r : \A t \in VoteTypes : Maj23(o, r, t) # None => Maj23(n, r, t) = Maj23(o, r, t)

\* What the locks, the rules and the valid block rest on is final.
LEMMA FinalsCore ==
    ASSUME NEW s, NEW n, Core(s), s.height = StartHeight,
           Same(n, s, {"votes", "counted", "reported"}),
           n.counted \in [VoteTypes -> SUBSET (Validators \X Rounds \X Values)],
           VotesInv(n), Finals(n.votes, s.votes), CountedInv(n), OwnInv(n), EvidenceInv(n)
    PROVE  Core(n)
<1> /\ n.height = s.height /\ n.round = s.round /\ n.step = s.step /\ n.proposal = s.proposal
    /\ n.block = s.block /\ n.parts = s.parts
    /\ n.locked_round = s.locked_round /\ n.locked_block = s.locked_block
    /\ n.valid_round = s.valid_round /\ n.valid_block = s.valid_block
    /\ n.locked_parts = s.locked_parts /\ n.valid_parts = s.valid_parts
    /\ n.last_commit = s.last_commit /\ n.commit_round = s.commit_round
    /\ n.triggered_timeout_precommit = s.triggered_timeout_precommit
    /\ n.queue = s.queue /\ n.ti = s.ti /\ n.armed = s.armed /\ n.tocks = s.tocks
    /\ n.signed = s.signed /\ n.decided = s.decided /\ n.refused = s.refused /\ n.fault = s.fault
  BY DEF Same, Fields
<1>1. Typed(n)
  BY DEF Core, Typed, PartsTyped, Same
<1>2. SignedInv(n) /\ QueueInv(n) /\ TickInv(n)
  BY DEF Core, SignedInv, QueueInv, TickInv
<1>3. \A r : \A b \in Values : Maj23(s.votes, r, "prevote") = b => Maj23(n.votes, r, "prevote") = b
  BY NoneAssumption DEF Finals, VoteTypes, Values
<1>4. Blocks \subseteq Values
  BY DEF Values
<1>11. ASSUME NEW hash, NEW r, HashesTo(hash, Maj23(s.votes, r, "prevote"))
       PROVE  Maj23(n.votes, r, "prevote") = Maj23(s.votes, r, "prevote")
  BY <1>3, <1>4, <1>11 DEF HashesTo
<1>12. ASSUME NEW hash \in Hashes \cup {None}, NEW parts \in Parts \cup {None},
              PairOk(s.votes, s.round, hash, parts)
       PROVE  PairOk(n.votes, n.round, hash, parts)
  <2>1. hash # None /\ parts # None => BlockId(hash, parts.header) \in Values
    BY <1>4, BlockIdTyped DEF Parts
  <2> QED BY <1>3, <1>12, <2>1 DEF PairOk
<1>13. BlockInv(n)
  <2>1. PartsTyped(s) /\ s.locked_block \in Hashes \cup {None} /\ s.valid_block \in Hashes \cup {None}
    BY DEF Core, Typed, LockInv, LockOk, ValidInv, ValidOk
  <2>2. LockedPair(n) /\ ValidPair(n)
    BY <1>12, <2>1 DEF Core, BlockInv, LockedPair, ValidPair, PartsTyped
  <2>3. PairOk(s.votes, s.round, s.block, s.parts) => PairOk(n.votes, n.round, n.block, n.parts)
    BY <1>12, <2>1 DEF PartsTyped
  <2>4. Maj23(s.votes, s.round, "prevote") \in Blocks => Maj23(n.votes, n.round, "prevote") \in Blocks
    BY <1>3, <1>4
  <2>5. HeldInv(n)
    BY <2>3, <2>4 DEF Core, BlockInv, HeldInv, HeldOk
  <2> QED BY <2>2, <2>5 DEF BlockInv
<1>5. LockInv(n)
  BY <1>11 DEF Core, LockInv, LockOk
<1>6. ValidInv(n)
  BY <1>11 DEF Core, ValidInv, ValidOk
<1>7. ASSUME NEW q, NEW r, NEW b, Overtakes(s.votes, q, r, b)
      PROVE  Overtakes(n.votes, q, r, b)
  BY <1>7 DEF Finals, VoteTypes, Overtakes
<1>8. KeptInv(n)
  BY <1>7 DEF Core, KeptInv, KeptOk
<1>9. RulesInv(n)
  BY <1>3, <1>4, <1>7 DEF Core, RulesInv, RulesOk
<1>10. DecisionInv(n)
  BY HeightAssumption DEF Core, DecisionInv, DecisionOk
<1> QED BY <1>1, <1>2, <1>5, <1>6, <1>8, <1>9, <1>10, <1>13 DEF Core

\* After a vote, a node that has no proposal and a block of the round's polka
\* has taken it for its valid block: it wanted the block for a polka, and the
\* polka has not changed.
Fresh(s) ==
    s.step < StepCommit /\ s.proposal = None /\ HashesTo(s.block, Maj23(s.votes, s.round, "prevote")) =>
        s.valid_round = s.round

LEMMA FreshAfterVote ==
    ASSUME NEW s, NEW n, Core(s), ValidCurrent(s),
           Same(n, s, {"votes", "counted", "reported"}), Finals(n.votes, s.votes)
    PROVE  Fresh(n)
<1> /\ n.round = s.round /\ n.step = s.step /\ n.proposal = s.proposal
    /\ n.block = s.block /\ n.valid_round = s.valid_round
  BY DEF Same, Fields
<1> SUFFICES ASSUME s.step < StepCommit, s.proposal = None, s.valid_round # s.round,
                    HashesTo(s.block, Maj23(n.votes, s.round, "prevote"))
             PROVE  FALSE
  BY DEF Fresh
<1>1. s.block # None
  BY HashOfBlock DEF HashesTo
<1>2. Maj23(s.votes, s.round, "prevote") \in Blocks
  BY <1>1 DEF Core, BlockInv, HeldInv, HeldOk
<1>3. Maj23(n.votes, s.round, "prevote") = Maj23(s.votes, s.round, "prevote")
  BY <1>2, NoneAssumption DEF Finals, VoteTypes
<1> QED BY <1>3 DEF ValidCurrent, CurrentOk

\* The node's own vote is counted after it was signed, and before the votes
\* that wait in the queue.
OwnDue(s, v) ==
    v.val = Self =>
        /\ [height |-> StartHeight, round |-> v.round, type |-> v.type, block |-> v.block] \in s.signed
        /\ \A i \in DOMAIN s.queue :
              s.queue[i].kind = "vote" /\ s.queue[i].height = StartHeight =>
                 VoteRank(v.type, v.round) < VoteRank(s.queue[i].vote.type, s.queue[i].vote.round)

\* A vote of the height: it is tallied and counted, refused, or known, and a
\* conflict is reported.
LEMMA VoteCounted ==
    ASSUME NEW s, NEW n, Core(s), s.height = StartHeight, NEW p \in Peers,
           NEW v, v.val \in Validators, v.type \in VoteTypes, v.round \in Rounds, v.block \in Values,
           OwnDue(s, v),
           Same(n, s, {"votes", "counted", "reported"}),
           n.votes = HvsAddVote(s.votes, v, p),
           s.reported \subseteq n.reported,
           HvsConflicting(s.votes, v, p) /\ v.val # Self => Reported(n.reported, v.val, v.type, v.round),
           n.counted = IF HvsAdded(s.votes, v, p)
                       THEN [s.counted EXCEPT ![v.type] = @ \cup {<<v.val, v.round, v.block>>}]
                       ELSE s.counted
    PROVE  /\ Core(n) /\ Finals(n.votes, s.votes)
           /\ \A r : Maj23(n.votes, r, "prevote") # Maj23(s.votes, r, "prevote") =>
                 HvsAdded(s.votes, v, p) /\ v.type = "prevote" /\ v.round = r
<1> DEFINE i   == v.val
           R   == v.round
           T   == v.type
           b   == v.block
           A   == HvsAdded(s.votes, v, p)
           C   == HvsConflicting(s.votes, v, p)
           old == VotesOf(s.votes, R, T)
           new == VotesOf(n.votes, R, T)
<1> i \in Validators /\ R \in Rounds /\ T \in VoteTypes /\ b \in Values
  OBVIOUS
<1> n.round = s.round /\ n.height = s.height /\ n.signed = s.signed /\ n.queue = s.queue
  BY DEF Same, Fields
<1>1. /\ HvsOk(n.votes) /\ n.votes.round = s.votes.round
      /\ DOMAIN s.votes.sets \subseteq DOMAIN n.votes.sets
      /\ DOMAIN n.votes.sets \subseteq DOMAIN s.votes.sets \cup {R}
      /\ new = IF Wants(s.votes, R, p) THEN AddVote(old, i, b) ELSE old
      /\ \A r : \A t \in VoteTypes : r # R \/ t # T => VotesOf(n.votes, r, t) = VotesOf(s.votes, r, t)
  <2>1. HvsOk(s.votes)
    BY DEF Core, VotesInv, VotesOk
  <2>2. VoteEntered(n.votes, s.votes, v, p)
    BY <2>1, HvsAddVoteOk
  <2> QED BY <2>2 DEF VoteEntered
<1>2. Sound(old)
  BY VotesOfSound DEF Core, VotesInv, VotesOk
<1>3. /\ A <=> Wants(s.votes, R, p) /\ Added(old, i, b)
      /\ C <=> Wants(s.votes, R, p) /\ Conflicting(old, i, b)
  BY DEF HvsAdded, HvsConflicting
<1>4. /\ Extends(new, old)
      /\ \A c : TallyOf(new, c).votes = TallyOf(old, c).votes \cup IF c = b /\ A THEN {i} ELSE {}
      /\ \A j \in Validators : old.votes[j] # None => new.votes[j] # None
      /\ \A j \in Validators : j # i /\ new.votes[j] # old.votes[j] =>
            new.votes[j] = b /\ j \in TallyOf(old, b).votes
      /\ new.votes[i] # old.votes[i] => old.votes[i] = None \/ C
      /\ A => /\ new.votes[i] # None
              /\ old.votes[i] # None => C
              /\ new.votes[i] # b => C
      /\ ~A => new.maj23 = old.maj23
  <2> HIDE DEF A, C, old, new, i, R, T, b
  <2>1. CASE Wants(s.votes, R, p)
    <3> DEFINE nv == AddVote(old, i, b)
    <3>1. /\ Extends(nv, old)
          /\ \A c : TallyOf(nv, c).votes =
                TallyOf(old, c).votes \cup IF c = b /\ Added(old, i, b) THEN {i} ELSE {}
      <4>1. TallyExtended(nv, old, i, b)
        BY <1>2, AddVoteExtends
      <4> HIDE DEF nv
      <4> QED BY <4>1 DEF TallyExtended
    <3>2. /\ \A j \in Validators : old.votes[j] # None => nv.votes[j] # None
          /\ \A j \in Validators : j # i /\ nv.votes[j] # old.votes[j] =>
                nv.votes[j] = b /\ j \in TallyOf(old, b).votes
          /\ nv.votes[i] # old.votes[i] => old.votes[i] = None \/ Conflicting(old, i, b)
          /\ Added(old, i, b) =>
                /\ nv.votes[i] # None
                /\ old.votes[i] # None => Conflicting(old, i, b)
                /\ nv.votes[i] # b => Conflicting(old, i, b)
          /\ ~Added(old, i, b) => nv.maj23 = old.maj23
      <4>1. VotesChanged(nv, old, i, b)
        BY <1>2, AddVoteVotes
      <4> HIDE DEF nv
      <4> QED BY <4>1 DEF VotesChanged
    <3>3. nv = new /\ (A <=> Added(old, i, b)) /\ (C <=> Conflicting(old, i, b))
      BY <1>1, <1>3, <2>1
    <3> HIDE DEF nv
    <3> QED BY <3>1, <3>2, <3>3
  <2>2. CASE ~Wants(s.votes, R, p)
    <3>1. new = old /\ ~A /\ ~C /\ old.sum \in Nat
      BY <1>1, <1>2, <1>3, <2>2 DEF Sound, WellFormed
    <3>2. Extends(old, old)
      BY <1>2, ExtendsItself
    <3>3. \A c : TallyOf(old, c).votes = TallyOf(old, c).votes \cup {}
      OBVIOUS
    <3> QED BY <3>1, <3>2, <3>3
  <2> QED BY <2>1, <2>2
<1>5. A => CountedWith(n.counted, s.counted, T, i, R, b)
  <2>1. s.counted \in [VoteTypes -> SUBSET (Validators \X Rounds \X Values)]
    BY DEF Core, Typed
  <2> SUFFICES ASSUME A PROVE CountedWith(n.counted, s.counted, T, i, R, b)
    OBVIOUS
  <2>2. n.counted = WithVote(s.counted, T, i, R, b)
    BY DEF WithVote
  <2> HIDE DEF A, i, R, T, b
  <2> QED BY <2>1, <2>2, CountedOnce
<1>6. /\ n.counted \in [VoteTypes -> SUBSET (Validators \X Rounds \X Values)]
      /\ \A t \in VoteTypes : \A j, r, c :
            <<j, r, c>> \in n.counted[t] <=>
               \/ <<j, r, c>> \in s.counted[t]
               \/ A /\ t = T /\ j = i /\ r = R /\ c = b
  <2>1. s.counted \in [VoteTypes -> SUBSET (Validators \X Rounds \X Values)]
    BY DEF Core, Typed
  <2> HIDE DEF A
  <2>2. CASE A
    BY <1>5, <2>2 DEF CountedWith
  <2>3. CASE ~A
    <3>1. n.counted = s.counted
      BY <2>3 DEF A
    <3> QED BY <2>1, <2>3, <3>1
  <2> QED BY <2>2, <2>3
<1>7. VotesInv(n)
  <2>1. VotesOk(s.votes, s.round)
    BY DEF Core, VotesInv
  <2>2. R \in Int /\ -1 <= R /\ R <= MaxRound
    BY RoundsBounded
  <2> HIDE DEF R
  <2> QED BY <1>1, <2>1, <2>2 DEF VotesInv, VotesOk
<1> HIDE DEF A, C, old, new, i, R, T, b
<1>8. /\ Finals(n.votes, s.votes)
      /\ \A r : Maj23(n.votes, r, "prevote") # Maj23(s.votes, r, "prevote") => A /\ T = "prevote" /\ R = r
  <2>1. old.maj23 # None => new.maj23 = old.maj23
    BY <1>2, <1>4 DEF Extends, Sound, WellFormed
  <2>2. new.maj23 # old.maj23 => A
    BY <1>4
  <2> QED BY <1>1, <2>1, <2>2 DEF Finals, Maj23, VoteTypes, old, new
<1>9. s.counted[T] \subseteq Validators \X Rounds \X Values
  BY DEF Core, Typed
<1>10. CountedInv(n)
  <2> SUFFICES ASSUME NEW t \in VoteTypes, NEW r \in Int, NEW c \in Values
               PROVE  TallyOf(VotesOf(n.votes, r, t), c).votes = {j \in Validators : <<j, r, c>> \in n.counted[t]}
    BY DEF CountedInv, CountedOk
  <2>1. TallyOf(VotesOf(s.votes, r, t), c).votes = {j \in Validators : <<j, r, c>> \in s.counted[t]}
    <3>1. TallyIsCounted(s.votes, s.counted, t, r, c)
      BY TalliesCounted
    <3> QED BY <3>1 DEF TallyIsCounted
  <2>0. \A j : <<j, r, c>> \in n.counted[t] <=>
                  <<j, r, c>> \in s.counted[t] \/ (A /\ t = T /\ j = i /\ r = R /\ c = b)
    BY <1>6
  <2>2. CASE r # R \/ t # T
    <3>1. \A j \in Validators : <<j, r, c>> \in n.counted[t] <=> <<j, r, c>> \in s.counted[t]
      BY <2>0, <2>2
    <3> QED BY <1>1, <2>1, <2>2, <3>1
  <2>3. CASE r = R /\ t = T
    <3>1. \A j : <<j, r, c>> \in n.counted[t] <=> <<j, r, c>> \in s.counted[t] \/ (A /\ j = i /\ c = b)
      BY <2>0, <2>3
    <3>2. TallyOf(VotesOf(n.votes, r, t), c).votes
             = TallyOf(VotesOf(s.votes, r, t), c).votes \cup IF c = b /\ A THEN {i} ELSE {}
      BY <1>4, <2>3 DEF old, new
    <3> QED BY <2>1, <3>1, <3>2
  <2> QED BY <2>2, <2>3
<1>11. OwnInv(n)
  <2> SUFFICES ASSUME NEW t \in VoteTypes, NEW r \in Rounds, NEW c \in Values, <<Self, r, c>> \in n.counted[t]
               PROVE  /\ [height |-> StartHeight, round |-> r, type |-> t, block |-> c] \in s.signed
                      /\ \A k \in DOMAIN s.queue :
                            s.queue[k].kind = "vote" /\ s.queue[k].height = StartHeight =>
                               VoteRank(t, r) < VoteRank(s.queue[k].vote.type, s.queue[k].vote.round)
    BY DEF OwnInv, OwnOk
  <2>1. CASE <<Self, r, c>> \in s.counted[t]
    BY <2>1 DEF Core, OwnInv, OwnOk
  <2>2. CASE t = T /\ Self = i /\ r = R /\ c = b
    BY <2>2 DEF OwnDue, i, R, T, b
  <2> QED BY <1>6, <2>1, <2>2
<1>12. EvidenceInv(n)
  <2> SUFFICES ASSUME NEW t \in VoteTypes, NEW j \in Validators \ {Self}, NEW r \in Rounds, NEW c \in Values,
                      <<j, r, c>> \in n.counted[t]
               PROVE  /\ VotesOf(n.votes, r, t).votes[j] # None
                      /\ VotesOf(n.votes, r, t).votes[j] # c => Reported(n.reported, j, t, r)
                      /\ \A d \in Values : <<j, r, d>> \in n.counted[t] /\ c # d => Reported(n.reported, j, t, r)
    BY ZenonT(40) DEF EvidenceInv, EvidenceOk
  <2>1. Reported(s.reported, j, t, r) => Reported(n.reported, j, t, r)
    BY DEF Reported
  <2>2. ASSUME NEW d \in Values, <<j, r, d>> \in s.counted[t]
        PROVE  /\ VotesOf(s.votes, r, t).votes[j] # None
               /\ VotesOf(s.votes, r, t).votes[j] # d => Reported(n.reported, j, t, r)
               /\ \A e \in Values : <<j, r, e>> \in s.counted[t] /\ d # e => Reported(n.reported, j, t, r)
    BY <2>1, <2>2 DEF Core, EvidenceInv, EvidenceOk
  <2>0. \A d : <<j, r, d>> \in n.counted[t] <=>
                  <<j, r, d>> \in s.counted[t] \/ (A /\ t = T /\ j = i /\ r = R /\ d = b)
    BY <1>6
  <2>3. CASE r # R \/ t # T
    <3>1. VotesOf(n.votes, r, t) = VotesOf(s.votes, r, t)
      BY <1>1, <2>3
    <3>2. \A d \in Values : <<j, r, d>> \in n.counted[t] <=> <<j, r, d>> \in s.counted[t]
      BY <2>0, <2>3
    <3> QED BY <2>2, <3>1, <3>2
  <2>4. CASE r = R /\ t = T /\ j # i
    <3>1. \A d \in Values : <<j, r, d>> \in n.counted[t] <=> <<j, r, d>> \in s.counted[t]
      BY <2>0, <2>4
    <3>2. new.votes[j] # old.votes[j] => new.votes[j] = b /\ <<j, r, b>> \in s.counted[t]
      <4>1. TallyOf(old, b).votes = {k \in Validators : <<k, r, b>> \in s.counted[t]}
        <5>1. r \in Int
          BY RoundsBounded
        <5>2. TallyOf(VotesOf(s.votes, r, t), b).votes = {k \in Validators : <<k, r, b>> \in s.counted[t]}
          <6>1. TallyIsCounted(s.votes, s.counted, t, r, b)
            BY <5>1, TalliesCounted
          <6> QED BY <6>1 DEF TallyIsCounted
        <5> QED BY <2>4, <5>2 DEF old
      <4> QED BY <1>4, <2>4, <4>1
    <3>3. old.votes[j] # None => new.votes[j] # None
      BY <1>4
    <3>4. old = VotesOf(s.votes, r, t) /\ new = VotesOf(n.votes, r, t)
      BY <2>4 DEF old, new
    <3> QED BY <2>2, <3>1, <3>2, <3>3, <3>4
  <2>5. CASE r = R /\ t = T /\ j = i
    <3>1. C => Reported(n.reported, j, t, r)
      BY <2>5 DEF C, i, R, T
    <3>2. old = VotesOf(s.votes, r, t) /\ new = VotesOf(n.votes, r, t)
      BY <2>5 DEF old, new
    <3>3. \A d \in Values : <<j, r, d>> \in n.counted[t] => <<j, r, d>> \in s.counted[t] \/ (A /\ d = b)
      BY <2>0, <2>5
    <3>4. /\ old.votes[j] # None => new.votes[j] # None
          /\ new.votes[j] # old.votes[j] => old.votes[j] = None \/ C
          /\ A => new.votes[j] # None /\ (old.votes[j] # None => C) /\ (new.votes[j] # b => C)
      BY <1>4, <2>5
    <3>5. CASE <<j, r, c>> \in s.counted[t]
      BY <2>2, <3>1, <3>2, <3>3, <3>4, <3>5
    <3>6. CASE A /\ c = b
      BY <2>2, <3>1, <3>2, <3>3, <3>4, <3>6
    <3> QED BY <3>3, <3>5, <3>6
  <2> QED BY <2>3, <2>4, <2>5
<1>13. Core(n)
  BY <1>6, <1>7, <1>8, <1>10, <1>11, <1>12, FinalsCore
<1> QED BY <1>8, <1>13 DEF A, T, R

\* A peer's claim of a majority changes no vote.
LEMMA ClaimCore ==
    ASSUME NEW s, Core(s), ValidCurrent(s), s.height = StartHeight,
           NEW R \in Rounds, NEW T \in VoteTypes, NEW p \in Peers, NEW b \in Values
    PROVE  LET n == [s EXCEPT !.votes = HvsSetPeerMaj23(@, R, T, p, b)]
           IN  Core(n) /\ ValidCurrent(n) /\ n.counted = s.counted
<1> DEFINE n   == [s EXCEPT !.votes = HvsSetPeerMaj23(@, R, T, p, b)]
           old == VotesOf(s.votes, R, T)
           new == VotesOf(n.votes, R, T)
<1>1. Same(n, s, {"votes"}) /\ n.votes = HvsSetPeerMaj23(s.votes, R, T, p, b)
  BY DEF Core, Typed, Fields, Same
<1> HIDE DEF n, old, new
<1> /\ n.height = s.height /\ n.round = s.round /\ n.step = s.step /\ n.block = s.block
    /\ n.valid_round = s.valid_round /\ n.queue = s.queue
    /\ n.signed = s.signed /\ n.counted = s.counted /\ n.reported = s.reported
  BY <1>1 DEF Same, Fields
<1>2. HvsOk(s.votes)
  BY DEF Core, VotesInv, VotesOk
<1>3. /\ HvsOk(n.votes) /\ n.votes.round = s.votes.round /\ DOMAIN n.votes.sets = DOMAIN s.votes.sets
      /\ new \in {old, SetPeerMaj23(old, p, b)}
      /\ \A r : \A t \in VoteTypes : r # R \/ t # T => VotesOf(n.votes, r, t) = VotesOf(s.votes, r, t)
  <2> DEFINE hvs == s.votes
             w   == HvsSetPeerMaj23(hvs, R, T, p, b)
  <2>1. HvsOk(hvs)
    BY <1>2
  <2> HIDE DEF hvs
  <2>2. ClaimEntered(w, hvs, R, T, p, b)
    BY <2>1, HvsSetPeerMaj23Ok
  <2> HIDE DEF w
  <2>3. n.votes = w
    BY <1>1 DEF w, hvs
  <2> QED BY <2>2, <2>3 DEF ClaimEntered, hvs, old, new
<1>4. /\ old.maj23 # None => new.maj23 = old.maj23
      /\ new.votes = old.votes /\ \A c : TallyOf(new, c).votes = TallyOf(old, c).votes
      /\ new.maj23 = old.maj23
  <2>1. Sound(old)
    BY <1>2, VotesOfSound DEF old
  <2> DEFINE nv == SetPeerMaj23(old, p, b)
  <2>2. /\ Extends(nv, old) /\ nv.votes = old.votes
        /\ \A c : TallyOf(nv, c).votes = TallyOf(old, c).votes
    BY <2>1, SetPeerMaj23Extends
  <2>3. nv.maj23 = old.maj23
    BY <2>1 DEF SetPeerMaj23, Sound, WellFormed
  <2> HIDE DEF nv
  <2> QED BY <1>3, <2>2, <2>3 DEF nv
<1>5. /\ \A r : \A t \in VoteTypes : Maj23(n.votes, r, t) = Maj23(s.votes, r, t)
      /\ \A r : \A t \in VoteTypes : VotesOf(n.votes, r, t).votes = VotesOf(s.votes, r, t).votes
      /\ \A r : \A t \in VoteTypes : \A c :
            TallyOf(VotesOf(n.votes, r, t), c).votes = TallyOf(VotesOf(s.votes, r, t), c).votes
  <2> SUFFICES ASSUME NEW r, NEW t \in VoteTypes
               PROVE  /\ Maj23(n.votes, r, t) = Maj23(s.votes, r, t)
                      /\ VotesOf(n.votes, r, t).votes = VotesOf(s.votes, r, t).votes
                      /\ \A c : TallyOf(VotesOf(n.votes, r, t), c).votes = TallyOf(VotesOf(s.votes, r, t), c).votes
    OBVIOUS
  <2>1. CASE r # R \/ t # T
    BY <1>3, <2>1 DEF Maj23
  <2>2. CASE r = R /\ t = T
    BY <1>4, <2>2 DEF Maj23, old, new
  <2> QED BY <2>1, <2>2
<1>6. VotesInv(n) /\ Finals(n.votes, s.votes)
  <2>1. VotesInv(n)
    BY <1>3 DEF Core, VotesInv, VotesOk
  <2> QED BY <1>5, <2>1 DEF Finals
<1>7. CountedInv(n)
  <2> SUFFICES ASSUME NEW t \in VoteTypes, NEW r \in Int, NEW c \in Values
               PROVE  TallyOf(VotesOf(n.votes, r, t), c).votes = {j \in Validators : <<j, r, c>> \in n.counted[t]}
    BY CountedFrom
  <2>1. TallyOf(VotesOf(s.votes, r, t), c).votes = {j \in Validators : <<j, r, c>> \in s.counted[t]}
    <3>1. TallyIsCounted(s.votes, s.counted, t, r, c)
      BY TalliesCounted
    <3> QED BY <3>1 DEF TallyIsCounted
  <2>2. TallyOf(VotesOf(n.votes, r, t), c).votes = TallyOf(VotesOf(s.votes, r, t), c).votes
    BY <1>5
  <2> QED BY <2>1, <2>2
<1>8. EvidenceInv(n)
  <2> SUFFICES ASSUME NEW t \in VoteTypes, NEW i \in Validators \ {Self}, NEW r \in Rounds, NEW c \in Values,
                      <<i, r, c>> \in n.counted[t]
               PROVE  /\ VotesOf(n.votes, r, t).votes[i] # None
                      /\ VotesOf(n.votes, r, t).votes[i] # c => Reported(n.reported, i, t, r)
                      /\ \A d \in Values : <<i, r, d>> \in n.counted[t] /\ c # d => Reported(n.reported, i, t, r)
    BY SMT DEF EvidenceInv, EvidenceOk
  <2>1. VotesOf(n.votes, r, t).votes[i] = VotesOf(s.votes, r, t).votes[i]
    BY <1>5
  <2> QED BY <2>1 DEF Core, EvidenceInv, EvidenceOk
<1>9. OwnInv(n) /\ n.counted \in [VoteTypes -> SUBSET (Validators \X Rounds \X Values)]
  BY DEF Core, OwnInv, Typed
<1>10. Same(n, s, {"votes", "counted", "reported"})
  BY <1>1 DEF Same
<1>11. Core(n)
  BY <1>6, <1>7, <1>8, <1>9, <1>10, FinalsCore
<1>12. ValidCurrent(n)
  BY <1>5 DEF ValidCurrent, CurrentOk, VoteTypes
<1> QED BY <1>11, <1>12 DEF n

\* cs_add_vote_prevote unlocks on a later polka: the precommits that the lock
\* stood for are overtaken by it.
LEMMA UnlockCore ==
    ASSUME NEW s, Core(s), NEW r \in Nat, Maj23(s.votes, r, "prevote") # None,
           Overtaken(s, r, Maj23(s.votes, r, "prevote"))
    PROVE  LET n == Unlock(s)
           IN  Core(n) /\ Same(n, s, {"locked_round", "locked_block", "locked_parts"})
<1> DEFINE n == Unlock(s)
<1>1. /\ Same(n, s, {"locked_round", "locked_block", "locked_parts"})
      /\ n.locked_round = -1 /\ n.locked_block = None /\ n.locked_parts = None
      /\ PartsTyped(n) /\ BlockInv(n)
  BY UnlockBlocks DEF Core, Typed
<1> HIDE DEF n
<1> /\ n.height = s.height /\ n.round = s.round /\ n.step = s.step /\ n.proposal = s.proposal
    /\ n.block = s.block /\ n.parts = s.parts
    /\ n.valid_round = s.valid_round /\ n.valid_block = s.valid_block
    /\ n.votes = s.votes /\ n.last_commit = s.last_commit /\ n.commit_round = s.commit_round
    /\ n.triggered_timeout_precommit = s.triggered_timeout_precommit
    /\ n.queue = s.queue /\ n.ti = s.ti /\ n.armed = s.armed /\ n.tocks = s.tocks
    /\ n.signed = s.signed /\ n.counted = s.counted /\ n.decided = s.decided
    /\ n.reported = s.reported /\ n.refused = s.refused /\ n.fault = s.fault
  BY <1>1 DEF Same, Fields
<1>2. Typed(n)
  BY <1>1 DEF Core, Typed, Same
<1>3. VotesInv(n) /\ SignedInv(n) /\ RulesInv(n) /\ ValidInv(n) /\ QueueInv(n)
  BY DEF Core, VotesInv, SignedInv, RulesInv, ValidInv, QueueInv
<1>4. CountedInv(n) /\ OwnInv(n) /\ EvidenceInv(n) /\ DecisionInv(n) /\ TickInv(n)
  BY DEF Core, CountedInv, OwnInv, EvidenceInv, DecisionInv, TickInv
<1>5. s.round \in Nat /\ s.locked_round \in Int
  <2>1. s.round \in Nat /\ s.locked_round \in -1..s.round
    BY DEF Core, Typed, LockInv, LockOk
  <2> QED BY <2>1, SMT
<1>6. LockInv(n)
  <2>1. -1 \in -1..n.round
    BY <1>5, SMT
  <2> QED BY <1>1, <2>1 DEF LockInv, LockOk
<1>7. ASSUME NEW q \in Nat, q <= s.locked_round, NEW b \in Blocks, s.locked_block = b.hash
      PROVE  Overtakes(s.votes, q, s.round, b)
  <2>1. r \in (q + 1)..s.round
    BY <1>5, <1>7, SMT DEF Overtaken
  <2>2. ~HashesTo(b.hash, Maj23(s.votes, r, "prevote"))
    BY <1>7 DEF Overtaken
  <2> QED BY <2>1, <2>2 DEF Overtakes
<1>8. KeptInv(n)
  BY <1>5, <1>7 DEF Core, KeptInv, KeptOk
<1> QED BY <1>1, <1>2, <1>3, <1>4, <1>6, <1>8 DEF Core, n

=============================================================================
