------------------------- MODULE CmtConsensusProof --------------------------
(***************************************************************************)
(* Proofs about CmtConsensus, for every validator set, every block, every  *)
(* number of rounds and whatever the network delivers: what a vote that    *)
(* was counted makes the node do, the handlers, and the theorems.          *)
(***************************************************************************)
EXTENDS CmtConsensus, CmtConsensusLemmas

\* Zenon is the prover where a leaf names none.
USE Zenon

\* A polka: its block becomes the valid block or is asked for.
LEMMA PolkaBlockCore ==
    ASSUME NEW s, Core(s), NEW r \in Nat, Fresh(s), ValidCurrent(s) \/ r = s.round
    PROVE  LET n == PolkaBlock(s, r, Maj23(s.votes, r, "prevote"))
           IN  /\ Core(n) /\ ValidCurrent(n)
               /\ Same(n, s, {"valid_round", "valid_block", "valid_parts", "block", "parts"})
<1> DEFINE maj == Maj23(s.votes, r, "prevote")
           n   == PolkaBlock(s, r, maj)
<1> DOMAIN s = Fields /\ s.round \in Nat /\ "parts" \in Fields /\ "block" \in Fields
  BY CoreTypes DEF Fields
<1>0. s.valid_round \in -1..s.round /\ PartsTyped(s) /\ s.proposal \in Proposals \cup {None}
  BY DEF Core, Typed, ValidInv, ValidOk
<1>1. CASE ~(maj \in Blocks /\ s.valid_round < r /\ r = s.round)
  <2>1. n = s
    BY <1>1 DEF PolkaBlock
  <2>2. ValidCurrent(s)
    BY <1>0, <1>1, SMT DEF ValidCurrent, CurrentOk, HashesTo
  <2> HIDE DEF n
  <2> QED BY <2>1, <2>2 DEF Same, n
<1>2. ASSUME maj \in Blocks, s.valid_round < r, r = s.round, NEW y, Core(y),
             Same(y, s, {"valid_round", "valid_block", "valid_parts", "block"}),
             \/ HashesTo(y.block, maj) /\ y.valid_round = y.round /\ ValidCurrent(y)
                   /\ (y.step < StepCommit => y.proposal # None)
             \/ y.block = None
      PROVE  LET w == WantParts(y, maj)
             IN  /\ Core(w) /\ ValidCurrent(w)
                 /\ Same(w, s, {"valid_round", "valid_block", "valid_parts", "block", "parts"})
  <2> DEFINE w == WantParts(y, maj)
             p == NewPartSet(y, maj.parts)
  <2> y.votes = s.votes /\ y.round = s.round /\ DOMAIN y = Fields
    BY <1>2 DEF Same, Fields
  <2>1. ValidCurrent(y)
    BY <1>2, HashOfBlock DEF ValidCurrent, CurrentOk, HashesTo
  <2>2. CASE HasHeader(y, maj)
    <3>1. w = y
      BY <2>2 DEF WantParts
    <3> HIDE DEF w
    <3>2. Same(y, s, {"valid_round", "valid_block", "valid_parts", "block", "parts"})
      BY <1>2 DEF Same
    <3> QED BY <1>2, <2>1, <3>1, <3>2 DEF w
  <2>3. CASE ~HasHeader(y, maj)
    <3>1. w = [y EXCEPT !.parts = p]
      BY <2>3 DEF WantParts
    <3>2. p \in Parts \cup {None} /\ (p # None => p.header = maj.parts)
      BY <1>2, HashOfBlock, NewPartSetTyped
    <3> HIDE DEF w, p
    <3>3. Same(w, y, {"parts"}) /\ w.parts = p
      BY <3>1 DEF Same
    <3> /\ w.votes = y.votes /\ w.round = y.round /\ w.step = y.step /\ w.fault = y.fault
        /\ w.proposal = y.proposal /\ w.block = y.block
        /\ w.locked_block = y.locked_block /\ w.locked_parts = y.locked_parts
        /\ w.valid_round = y.valid_round /\ w.valid_block = y.valid_block /\ w.valid_parts = y.valid_parts
      BY <3>3 DEF Same, Fields
    <3>4. PartsTyped(w) /\ w.proposal \in Proposals \cup {None}
      BY <1>2, <3>2, <3>3 DEF Core, Typed, PartsTyped
    <3>5. PairOk(w.votes, w.round, w.block, w.parts)
      <4>1. s.round \in 0..s.round
        BY SMT
      <4>2. HashesTo(y.block, maj) => maj = BlockId(y.block, maj.parts)
        BY HashOfBlock DEF HashesTo
      <4> QED BY <1>2, <3>2, <3>3, <4>1, <4>2 DEF PairOk
    <3>6. HeldInv(w)
      BY <1>2, <3>5 DEF HeldInv, HeldOk
    <3>7. LockedPair(w) /\ ValidPair(w)
      BY <1>2 DEF Core, BlockInv, LockedPair, ValidPair
    <3>8. Same(w, y, {"proposal", "block", "parts", "locked_parts", "valid_parts"})
      BY <3>3 DEF Same
    <3>9. Core(w)
      BY <1>2, <3>4, <3>6, <3>7, <3>8, PartsCore DEF BlockInv
    <3>10. ValidCurrent(w)
      BY <2>1 DEF ValidCurrent
    <3>11. Same(w, s, {"valid_round", "valid_block", "valid_parts", "block", "parts"})
      BY <1>2, <3>3 DEF Same
    <3> QED BY <3>9, <3>10, <3>11 DEF w
  <2> QED BY <2>2, <2>3
<1>3. CASE maj \in Blocks /\ s.valid_round < r /\ r = s.round /\ HashesTo(s.block, maj)
  <2> DEFINE y == TakeValid(s, s.round)
  <2>1. n = WantParts(y, maj)
    BY <1>3 DEF PolkaBlock
  <2>2. /\ Core(y) /\ ValidCurrent(y) /\ y.valid_round = s.round
        /\ Same(y, s, {"valid_round", "valid_block", "valid_parts"})
    BY <1>3, ValidCore
  <2> HIDE DEF n, y
  <2>3. y.round = s.round /\ y.block = s.block /\ y.step = s.step /\ y.proposal = s.proposal
    BY <2>2 DEF Same, Fields
  <2>4. Same(y, s, {"valid_round", "valid_block", "valid_parts", "block"})
    BY <2>2 DEF Same
  <2>5. s.valid_round # s.round
    BY <1>0, <1>3, SMT
  <2>6. y.step < StepCommit => y.proposal # None
    BY <1>3, <2>3, <2>5 DEF Fresh
  <2> QED BY <1>2, <1>3, <2>1, <2>2, <2>3, <2>4, <2>6 DEF n
<1>4. CASE maj \in Blocks /\ s.valid_round < r /\ r = s.round /\ ~HashesTo(s.block, maj)
  <2> DEFINE y == [s EXCEPT !.block = None]
  <2>1. n = WantParts(y, maj)
    BY <1>4 DEF PolkaBlock
  <2>2. Same(y, s, {"block"}) /\ y.block = None
    BY DEF Same
  <2> HIDE DEF n, y
  <2> /\ y.votes = s.votes /\ y.round = s.round /\ y.step = s.step /\ y.fault = s.fault
      /\ y.proposal = s.proposal /\ y.parts = s.parts
      /\ y.locked_block = s.locked_block /\ y.locked_parts = s.locked_parts
      /\ y.valid_round = s.valid_round /\ y.valid_block = s.valid_block /\ y.valid_parts = s.valid_parts
    BY <2>2 DEF Same, Fields
  <2>3. PartsTyped(y) /\ y.proposal \in Proposals \cup {None}
    BY <1>0, <2>2 DEF PartsTyped
  <2>4. BlockInv(y)
    <3>1. HeldInv(y)
      BY <1>4, <2>2 DEF HeldInv, HeldOk, PairOk
    <3> QED BY <3>1 DEF Core, BlockInv, LockedPair, ValidPair
  <2>5. Same(y, s, {"proposal", "block", "parts", "locked_parts", "valid_parts"})
        /\ Same(y, s, {"valid_round", "valid_block", "valid_parts", "block"})
    BY <2>2 DEF Same
  <2>6. Core(y)
    BY <2>3, <2>4, <2>5, PartsCore
  <2> QED BY <1>2, <1>4, <2>1, <2>2, <2>5, <2>6 DEF n
<1> QED BY <1>1, <1>3, <1>4

\* cs_add_vote_prevote
LEMMA AddVotePrevoteCore ==
    ASSUME NEW s, Core(s), NEW r \in Nat, Fresh(s), ValidCurrent(s) \/ r = s.round
    PROVE  LET n == AddVotePrevote(s, s.height, r)
           IN  Core(n) /\ ValidCurrent(n) /\ n.counted = s.counted
<1> DEFINE maj  == Maj23(s.votes, r, "prevote")
           over == IF Overtaken(s, r, maj) THEN Unlock(s) ELSE s
           x    == IF maj = None THEN s ELSE PolkaBlock(over, r, maj)
           n    == AddVotePrevote(s, s.height, r)
<1> s.round \in Nat /\ DOMAIN s = Fields
  BY CoreTypes
<1>1. Core(x) /\ ValidCurrent(x) /\ x.round = s.round /\ x.height = s.height /\ x.counted = s.counted
  <2>1. CASE maj = None
    <3>1. ValidCurrent(s)
      BY <2>1, NoneAssumption DEF ValidCurrent, CurrentOk, HashesTo
    <3> QED BY <2>1, <3>1
  <2>2. CASE maj # None
    <3>1. Core(over) /\ Same(over, s, {"locked_round", "locked_block", "locked_parts"})
      <4>1. CASE Overtaken(s, r, maj)
        BY <2>2, <4>1, UnlockCore
      <4>2. CASE ~Overtaken(s, r, maj)
        BY <4>2 DEF Same
      <4> QED BY <4>1, <4>2
    <3> HIDE DEF over
    <3>2. /\ over.votes = s.votes /\ over.round = s.round /\ over.step = s.step /\ over.height = s.height
          /\ over.block = s.block /\ over.valid_round = s.valid_round /\ over.counted = s.counted
          /\ over.proposal = s.proposal
      BY <3>1 DEF Same, Fields
    <3>3. Fresh(over) /\ (ValidCurrent(over) \/ r = over.round)
      BY <3>2 DEF Fresh, ValidCurrent, CurrentOk
    <3> DEFINE y == PolkaBlock(over, r, Maj23(over.votes, r, "prevote"))
    <3>4. /\ Core(y) /\ ValidCurrent(y)
          /\ Same(y, over, {"valid_round", "valid_block", "valid_parts", "block", "parts"})
      BY <3>1, <3>3, PolkaBlockCore
    <3>5. x = y
      BY <2>2, <3>2
    <3> HIDE DEF x, y
    <3>6. y.round = over.round /\ y.height = over.height /\ y.counted = over.counted
      BY <3>4 DEF Same, Fields
    <3> QED BY <3>2, <3>4, <3>5, <3>6
  <2> QED BY <2>1, <2>2
<1>2. n \in {EnterNewRound(x, x.height, r), x}
        \/ (r = x.round /\ n \in {EnterPrecommit(x, x.height, r), EnterPrevoteWait(x, x.height, r)})
        \/ n = EnterPrevote(x, x.height, x.round)
  <2>1. /\ n \in {EnterNewRound(x, s.height, r), x}
           \/ (r = s.round /\ n \in {EnterPrecommit(x, s.height, r), EnterPrevoteWait(x, s.height, r)})
           \/ n = EnterPrevote(x, s.height, s.round)
    BY DEF AddVotePrevote
  <2> HIDE DEF n, x
  <2> QED BY <1>1, <2>1
<1> HIDE DEF n, x, maj, over
<1>3. x.step \in Int /\ x.round \in Nat
  BY <1>1, CoreTypes
<1>4. CASE n = EnterNewRound(x, x.height, r)
  <2> DEFINE e == EnterNewRound(x, x.height, r)
  <2>1. /\ Core(e) /\ SameTallies(e.votes, x.votes) /\ (ValidCurrent(x) => ValidCurrent(e))
        /\ Same(e, x, {"round", "step", "votes", "proposal", "block", "parts",
                       "triggered_timeout_precommit", "ti", "armed", "queue", "signed", "fault"})
        /\ x.round <= e.round /\ (~e.fault /\ x.height = x.height => r <= e.round)
    BY <1>1, EnterNewRoundCore
  <2> HIDE DEF e
  <2>2. e.counted = x.counted
    BY <2>1 DEF Same, Fields
  <2> QED BY <1>1, <1>4, <2>1, <2>2 DEF n, e
<1>5. CASE r = x.round /\ n = EnterPrecommit(x, x.height, r)
  <2> DEFINE e == EnterPrecommit(x, x.height, r)
  <2>0. ~x.fault /\ x.height = x.height => r <= x.round
    BY <1>3, <1>5, SMT
  <2>1. /\ Core(e) /\ ValidCurrent(e) /\ x.step <= e.step
        /\ Same(e, x, {"signed", "queue", "step", "locked_round", "locked_block", "locked_parts",
                       "block", "parts", "fault"})
    BY <1>1, <2>0, EnterPrecommitCore
  <2> HIDE DEF e
  <2>2. e.counted = x.counted
    BY <2>1 DEF Same, Fields
  <2> QED BY <1>1, <1>5, <2>1, <2>2 DEF n, e
<1>6. CASE r = x.round /\ n = EnterPrevoteWait(x, x.height, r)
  <2> DEFINE e == EnterPrevoteWait(x, x.height, r)
  <2>0. x.height = x.height => r <= x.round
    BY <1>3, <1>6, SMT
  <2>1. Core(e) /\ Same(e, x, {"ti", "armed", "step", "fault"}) /\ x.step <= e.step
    BY <1>1, <2>0, EnterPrevoteWaitCore
  <2> HIDE DEF e
  <2>2. /\ e.counted = x.counted /\ e.block = x.block /\ e.round = x.round
        /\ e.valid_round = x.valid_round /\ e.votes = x.votes
    BY <2>1 DEF Same, Fields
  <2>3. SameTallies(e.votes, x.votes) /\ e.step \in Int
    BY <2>1, <2>2, CoreTypes DEF SameTallies
  <2>4. ValidCurrent(e)
    BY <1>1, <1>3, <2>1, <2>2, <2>3, ValidCurrentKept
  <2> QED BY <1>1, <1>6, <2>1, <2>2, <2>4 DEF n, e
<1>7. CASE n = EnterPrevote(x, x.height, x.round)
  <2> DEFINE q == x.round
             e == EnterPrevote(x, x.height, q)
  <2>0. q \in Nat /\ (x.height = x.height => q <= x.round)
    BY <1>3, SMT
  <2> HIDE DEF q
  <2>1. /\ Core(e) /\ Same(e, x, {"signed", "queue", "step"}) /\ x.step <= e.step
        /\ Ahead(x, x.height, q, StepPrevote) => e.step = StepPrevote
    BY <1>1, <2>0, EnterPrevoteCore
  <2> HIDE DEF e
  <2>2. /\ e.counted = x.counted /\ e.block = x.block /\ e.round = x.round
        /\ e.valid_round = x.valid_round /\ e.votes = x.votes
    BY <2>1 DEF Same, Fields
  <2>3. SameTallies(e.votes, x.votes) /\ e.step \in Int
    BY <2>1, <2>2, CoreTypes DEF SameTallies
  <2>4. ValidCurrent(e)
    BY <1>1, <1>3, <2>1, <2>2, <2>3, ValidCurrentKept
  <2> QED BY <1>1, <1>7, <2>1, <2>2, <2>4 DEF n, e, q
<1>8. CASE n = x
  BY <1>1, <1>8 DEF n
<1> QED BY <1>2, <1>4, <1>5, <1>6, <1>7, <1>8

\* enterNewRound on a state of the invariant, with what its callers use.
LEMMA NewRoundInv ==
    ASSUME NEW s, Core(s), ValidCurrent(s), NEW h, NEW r \in Nat
    PROVE  LET n == EnterNewRound(s, h, r)
           IN  /\ Core(n) /\ ValidCurrent(n) /\ n.counted = s.counted
               /\ n.height = s.height /\ SameTallies(n.votes, s.votes)
               /\ ~n.fault /\ h = s.height => r <= n.round
<1> DEFINE n == EnterNewRound(s, h, r)
<1>1. /\ Core(n) /\ SameTallies(n.votes, s.votes) /\ (ValidCurrent(s) => ValidCurrent(n))
      /\ Same(n, s, {"round", "step", "votes", "proposal", "block", "parts",
                     "triggered_timeout_precommit", "ti", "armed", "queue", "signed", "fault"})
      /\ s.round <= n.round /\ (~n.fault /\ h = s.height => r <= n.round)
  BY EnterNewRoundCore
<1> HIDE DEF n
<1>2. n.counted = s.counted /\ n.height = s.height
  BY <1>1 DEF Same, Fields
<1> QED BY <1>1, <1>2 DEF n

\* cs_add_vote_precommit
LEMMA AddVotePrecommitCore ==
    ASSUME NEW s, Core(s), ValidCurrent(s), s.height = StartHeight, ~s.fault, NEW r \in Rounds
    PROVE  LET n == AddVotePrecommit(s, StartHeight, r)
           IN  Core(n) /\ ValidCurrent(n) /\ n.counted = s.counted
<1> DEFINE maj == Maj23(s.votes, r, "precommit")
           e   == EnterNewRound(s, StartHeight, r)
           pc  == EnterPrecommit(e, StartHeight, r)
           w   == EnterPrecommitWait(pc, StartHeight, r)
           u   == EnterPrecommitWait(e, StartHeight, r)
           c   == EnterCommit(pc, StartHeight, r)
           n   == AddVotePrecommit(s, StartHeight, r)
<1>1. r \in Nat
  BY MaxRoundAssumption, SMT DEF Rounds
<1>2. /\ Core(e) /\ ValidCurrent(e) /\ e.counted = s.counted
      /\ e.height = s.height /\ SameTallies(e.votes, s.votes)
      /\ ~e.fault /\ StartHeight = s.height => r <= e.round
  BY <1>1, NewRoundInv
<1>3. \/ n = s
      \/ n = w
      \/ n = u
      \/ maj \in Blocks /\ (n = c \/ n = EnterNewRound(c, c.height, 0))
  BY DEF AddVotePrecommit
<1> HIDE DEF e, n
<1>4. ~e.fault => r <= e.round
  BY <1>2
<1>5. /\ Core(pc) /\ ValidCurrent(pc) /\ e.step <= pc.step
      /\ Same(pc, e, {"signed", "queue", "step", "locked_round", "locked_block", "locked_parts",
                      "block", "parts", "fault"})
      /\ e.fault => pc.fault
  <2>1. /\ Core(pc) /\ ValidCurrent(pc) /\ e.step <= pc.step
        /\ Same(pc, e, {"signed", "queue", "step", "locked_round", "locked_block", "locked_parts",
                        "block", "parts", "fault"})
    BY <1>1, <1>2, <1>4, EnterPrecommitCore
  <2>2. e.fault => pc = e
    BY DEF EnterPrecommit, PrecommitDue, Ahead
  <2> HIDE DEF pc
  <2> QED BY <2>1, <2>2
<1> HIDE DEF pc
<1>6. pc.round = e.round /\ pc.counted = s.counted /\ pc.votes = e.votes
  BY <1>2, <1>5 DEF Same, Fields
<1>7. ASSUME NEW x, Core(x), ValidCurrent(x), ~x.fault => r <= x.round, x.counted = s.counted
      PROVE  LET y == EnterPrecommitWait(x, StartHeight, r)
             IN  Core(y) /\ ValidCurrent(y) /\ y.counted = s.counted
  <2> DEFINE y == EnterPrecommitWait(x, StartHeight, r)
  <2>1. Core(y) /\ Same(y, x, {"ti", "armed", "triggered_timeout_precommit", "fault"})
    BY <1>1, <1>7, EnterPrecommitWaitCore
  <2> HIDE DEF y
  <2>2. /\ y.counted = x.counted /\ y.block = x.block /\ y.round = x.round /\ y.step = x.step
        /\ y.valid_round = x.valid_round /\ y.votes = x.votes
    BY <2>1 DEF Same, Fields
  <2>3. ValidCurrent(y)
    BY <1>7, <2>2 DEF ValidCurrent
  <2> QED BY <1>7, <2>1, <2>2, <2>3 DEF y
<1>8. CASE n = w
  <2>1. Core(w) /\ ValidCurrent(w) /\ w.counted = s.counted
    BY <1>4, <1>5, <1>6, <1>7
  <2> HIDE DEF w
  <2> QED BY <1>8, <2>1 DEF n
<1>9. CASE n = u
  <2>1. Core(u) /\ ValidCurrent(u) /\ u.counted = s.counted
    BY <1>2, <1>4, <1>7
  <2> HIDE DEF u
  <2> QED BY <1>9, <2>1 DEF n
<1>10. CASE maj \in Blocks /\ (n = c \/ n = EnterNewRound(c, c.height, 0))
  <2>1. Maj23(pc.votes, r, "precommit") \in Blocks
    BY <1>2, <1>6, <1>10 DEF SameTallies, Maj23, VoteTypes
  <2>2. Core(c) /\ ValidCurrent(c) /\ c.counted = pc.counted
    BY <1>5, <2>1, EnterCommitCore
  <2> HIDE DEF c
  <2> DEFINE f == EnterNewRound(c, c.height, 0)
  <2>3. /\ Core(f) /\ ValidCurrent(f) /\ f.counted = c.counted
        /\ f.height = c.height /\ SameTallies(f.votes, c.votes)
        /\ ~f.fault /\ c.height = c.height => 0 <= f.round
    BY <2>2, NewRoundInv
  <2> HIDE DEF f
  <2> QED BY <1>6, <1>10, <2>2, <2>3 DEF n, f
<1>11. CASE n = s
  BY <1>11 DEF n
<1> QED BY <1>3, <1>8, <1>9, <1>10, <1>11

\* cs_add_vote_last_commit: the commit of the height before keeps its majority.
LEMMA AddVoteLastCommitCore ==
    ASSUME NEW s, Core(s), ValidCurrent(s), NEW v, v.val \in Validators, v.block \in Values
    PROVE  LET n == AddVoteLastCommit(s, v)
           IN  Core(n) /\ ValidCurrent(n) /\ n.counted = s.counted
<1> DEFINE n  == AddVoteLastCommit(s, v)
           lc == s.last_commit.set
           nv == AddVote(lc, v.val, v.block)
           y  == [s EXCEPT !.last_commit.set = nv]
           x  == Report(y, v, Conflicting(lc, v.val, v.block))
<1>1. CASE s.step # StepNewHeight \/ s.last_commit = None \/ s.last_commit.round # v.round
  <2>1. n = s
    BY <1>1 DEF AddVoteLastCommit
  <2> HIDE DEF n
  <2> QED BY <2>1 DEF n
<1>2. CASE ~(s.step # StepNewHeight \/ s.last_commit = None \/ s.last_commit.round # v.round)
  <2>1. n = x \/ n = EnterNewRound(x, s.height, 0)
    BY <1>2 DEF AddVoteLastCommit
  <2>2. /\ s.last_commit = [round |-> s.last_commit.round, set |-> lc] /\ s.last_commit.round \in Int
        /\ Sound(lc)
    BY <1>2 DEF Core, DecisionInv, DecisionOk
  <2> HIDE DEF lc
  <2>3. /\ Sound(nv) /\ Extends(nv, lc)
    <3>1. Sound(nv)
      BY <2>2, AddVoteSound
    <3>2. TallyExtended(nv, lc, v.val, v.block)
      BY <2>2, AddVoteExtends
    <3> HIDE DEF nv
    <3> QED BY <3>1, <3>2 DEF TallyExtended
  <2> HIDE DEF nv, n
  <2>4. DOMAIN s = Fields /\ "last_commit" \in Fields /\ "reported" \in Fields
    BY CoreTypes DEF Fields
  <2>5. Same(y, s, {"last_commit"}) /\ y.last_commit = [s.last_commit EXCEPT !.set = nv]
    BY <2>4 DEF Same
  <2> HIDE DEF y
  <2>6. Same(x, y, {"reported"}) /\ y.reported \subseteq x.reported /\ x.last_commit = y.last_commit
    <3>1. DOMAIN y = Fields /\ y.reported \in {y.reported}
      BY <2>5 DEF Same
    <3> QED BY <2>4, <3>1 DEF Report, Same
  <2> HIDE DEF x
  <2>7. Same(x, s, {"last_commit", "reported"}) /\ s.reported \subseteq x.reported
    BY <2>5, <2>6 DEF Same, Fields
  <2>8. x.last_commit = [round |-> s.last_commit.round, set |-> nv]
    BY <2>2, <2>5, <2>6
  <2> /\ x.height = s.height /\ x.round = s.round /\ x.step = s.step /\ x.proposal = s.proposal
      /\ x.block = s.block /\ x.parts = s.parts
      /\ x.locked_round = s.locked_round /\ x.locked_block = s.locked_block
      /\ x.valid_round = s.valid_round /\ x.valid_block = s.valid_block
      /\ x.locked_parts = s.locked_parts /\ x.valid_parts = s.valid_parts
      /\ x.votes = s.votes /\ x.commit_round = s.commit_round
      /\ x.triggered_timeout_precommit = s.triggered_timeout_precommit
      /\ x.queue = s.queue /\ x.ti = s.ti /\ x.armed = s.armed /\ x.tocks = s.tocks
      /\ x.signed = s.signed /\ x.counted = s.counted /\ x.decided = s.decided
      /\ x.refused = s.refused /\ x.fault = s.fault
    BY <2>7 DEF Same, Fields
  <2>9. Typed(x)
    BY <2>7 DEF Core, Typed, PartsTyped, Same
  <2>10. VotesInv(x) /\ SignedInv(x) /\ LockInv(x) /\ KeptInv(x) /\ RulesInv(x) /\ ValidInv(x)
    BY DEF Core, VotesInv, SignedInv, LockInv, KeptInv, RulesInv, ValidInv
  <2>11. BlockInv(x) /\ QueueInv(x) /\ CountedInv(x) /\ OwnInv(x) /\ TickInv(x) /\ ValidCurrent(x)
    BY DEF Core, BlockInv, HeldInv, LockedPair, ValidPair, QueueInv, CountedInv, OwnInv, TickInv, ValidCurrent
  <2>12. EvidenceInv(x)
    <3>1. \A i, t, r : Reported(s.reported, i, t, r) => Reported(x.reported, i, t, r)
      BY <2>7 DEF Reported
    <3> SUFFICES ASSUME NEW t \in VoteTypes, NEW i \in Validators \ {Self}, NEW r \in Rounds, NEW b \in Values,
                        <<i, r, b>> \in s.counted[t]
                 PROVE  /\ s.height = StartHeight =>
                              /\ VotesOf(s.votes, r, t).votes[i] # None
                              /\ VotesOf(s.votes, r, t).votes[i] # b => Reported(x.reported, i, t, r)
                        /\ \A c \in Values : <<i, r, c>> \in s.counted[t] /\ b # c => Reported(x.reported, i, t, r)
      BY SMT DEF EvidenceInv, EvidenceOk
    <3> QED BY <3>1 DEF Core, EvidenceInv, EvidenceOk
  <2>13. DecisionInv(x)
    <3>1. x.last_commit # None
      <4>1. nv \in VoteSets
        BY <2>3, WellFormedInVoteSets DEF Sound
      <4>2. [round |-> s.last_commit.round, set |-> nv] \in [round : Int, set : VoteSets]
        BY <2>2, <4>1
      <4> QED BY <2>8, <4>2, StructAssumption
    <3>2. lc.has_maj23 => nv.has_maj23 /\ nv.maj23 = lc.maj23
      BY <2>3 DEF Extends
    <3>3. /\ s.height > InitialHeight => lc.has_maj23
          /\ s.height = StartHeight => s.decided = {}
          /\ s.height > StartHeight =>
                /\ s.decided = {[height |-> StartHeight, block |-> lc.maj23]}
                /\ \E r \in Rounds : CommitCounted(s.counted, r, lc.maj23)
      BY DEF Core, DecisionInv, DecisionOk, lc
    <3>4. s.height > StartHeight => s.height > InitialHeight
      BY CoreTypes, HeightAssumption, SMT
    <3> QED BY <2>2, <2>3, <2>8, <3>1, <3>2, <3>3, <3>4, SMT DEF DecisionInv, DecisionOk
  <2>14. Core(x)
    BY <2>9, <2>10, <2>11, <2>12, <2>13 DEF Core
  <2> DEFINE e == EnterNewRound(x, s.height, 0)
  <2>15. /\ Core(e) /\ ValidCurrent(e) /\ e.counted = x.counted
         /\ e.height = x.height /\ SameTallies(e.votes, x.votes)
         /\ ~e.fault /\ s.height = x.height => 0 <= e.round
    BY <2>11, <2>14, NewRoundInv
  <2> HIDE DEF e
  <2> QED BY <2>1, <2>11, <2>14, <2>15 DEF n, e
<1> QED BY <1>1, <1>2


\* cmt_cs_try_add_vote on a vote of the instance's height.
LEMMA TryAddVoteCore ==
    ASSUME NEW s, Core(s), ValidCurrent(s), ~s.fault, NEW p \in Peers,
           NEW v, v.val \in Validators, v.type \in VoteTypes, v.round \in Nat, v.block \in Values,
           s.height = StartHeight => v.round \in Rounds, OwnDue(s, v)
    PROVE  LET n == TryAddVote(s, StartHeight, v, p)
           IN  /\ Core(n) /\ ValidCurrent(n)
               /\ \/ n.counted = s.counted
                  \/ /\ s.height = StartHeight
                     /\ n.counted = [s.counted EXCEPT ![v.type] = @ \cup {<<v.val, v.round, v.block>>}]
<1> DEFINE n == TryAddVote(s, StartHeight, v, p)
           A == HvsAdded(s.votes, v, p)
           C == HvsConflicting(s.votes, v, p)
           y == [s EXCEPT !.votes = HvsAddVote(@, v, p)]
           z == Report(y, v, C)
           x == IF A THEN Count(z, StartHeight, v) ELSE z
           l == AddVoteLastCommit(s, v)
<1>1. CASE s.height # StartHeight
  <2>1. n = l \/ n = s
    BY <1>1 DEF TryAddVote
  <2>2. Core(l) /\ ValidCurrent(l) /\ l.counted = s.counted
    BY AddVoteLastCommitCore
  <2> HIDE DEF n, l
  <2> QED BY <2>1, <2>2 DEF n
<1>2. CASE s.height = StartHeight
  <2> v.round \in Rounds
    BY <1>2
  <2>1. /\ ~A => n = x
        /\ A /\ v.type = "prevote" => n = AddVotePrevote(x, StartHeight, v.round)
        /\ A /\ v.type # "prevote" => n = AddVotePrecommit(x, StartHeight, v.round)
    <3>1. StartHeight # StartHeight - 1
      BY HeightAssumption, SMT
    <3> QED BY <1>2, <3>1 DEF TryAddVote
  <2> HIDE DEF n, A, C
  <2>2. DOMAIN s = Fields /\ "votes" \in Fields /\ "reported" \in Fields /\ "counted" \in Fields
    BY CoreTypes DEF Fields
  <2>3. Same(y, s, {"votes"}) /\ y.votes = HvsAddVote(s.votes, v, p)
    BY <2>2 DEF Same
  <2> HIDE DEF y
  <2>4. /\ Same(z, y, {"reported"}) /\ y.reported \subseteq z.reported
        /\ C /\ v.val # Self => Reported(z.reported, v.val, v.type, v.round)
    <3>1. DOMAIN y = Fields
      BY <2>3 DEF Same
    <3> QED BY <2>2, <3>1 DEF Report, Same, Reported
  <2> HIDE DEF z
  <2>5. /\ Same(x, z, {"counted"})
        /\ x.counted = IF A THEN [z.counted EXCEPT ![v.type] = @ \cup {<<v.val, v.round, v.block>>}]
                       ELSE z.counted
    <3>1. DOMAIN z = Fields
      BY <2>4 DEF Same
    <3> QED BY <2>2, <3>1 DEF Count, Same
  <2> HIDE DEF x
  <2>6. Same(x, s, {"votes", "counted", "reported"})
    BY <2>3, <2>4, <2>5 DEF Same
  <2>7. /\ y.reported = s.reported /\ z.counted = s.counted /\ z.votes = y.votes
        /\ x.reported = z.reported /\ x.votes = z.votes
        /\ x.height = s.height /\ x.round = s.round /\ x.step = s.step /\ x.fault = s.fault
        /\ x.block = s.block /\ x.valid_round = s.valid_round
    BY <2>3, <2>4, <2>5 DEF Same, Fields
  <2>8. /\ Core(x) /\ Finals(x.votes, s.votes)
        /\ \A r : Maj23(x.votes, r, "prevote") # Maj23(s.votes, r, "prevote") =>
              HvsAdded(s.votes, v, p) /\ v.type = "prevote" /\ v.round = r
    <3>1. x.votes = HvsAddVote(s.votes, v, p) /\ s.reported \subseteq x.reported
      BY <2>3, <2>4, <2>7
    <3>2. HvsConflicting(s.votes, v, p) /\ v.val # Self => Reported(x.reported, v.val, v.type, v.round)
      BY <2>4, <2>7 DEF C
    <3>3. x.counted = IF HvsAdded(s.votes, v, p)
                      THEN [s.counted EXCEPT ![v.type] = @ \cup {<<v.val, v.round, v.block>>}]
                      ELSE s.counted
      BY <2>5, <2>7 DEF A
    <3> QED BY <1>2, <2>6, <3>1, <3>2, <3>3, VoteCounted, SMT
  <2>9. ValidCurrent(x) \/ (A /\ v.type = "prevote" /\ v.round = x.round)
    BY <2>7, <2>8 DEF ValidCurrent, CurrentOk, A
  <2>13. Fresh(x)
    BY <2>6, <2>8, FreshAfterVote
  <2>10. CASE ~A
    BY <2>1, <2>5, <2>7, <2>8, <2>9, <2>10 DEF n
  <2>11. CASE A /\ v.type = "prevote"
    <3> DEFINE q == v.round
               e == AddVotePrevote(x, x.height, q)
    <3>1. q \in Nat /\ (ValidCurrent(x) \/ q = x.round)
      BY <2>9
    <3> HIDE DEF q
    <3>2. Core(e) /\ ValidCurrent(e) /\ e.counted = x.counted
      BY <2>8, <2>13, <3>1, AddVotePrevoteCore
    <3>3. n = e
      BY <1>2, <2>1, <2>7, <2>11 DEF q
    <3> HIDE DEF e
    <3> QED BY <1>2, <2>5, <2>7, <2>11, <3>2, <3>3 DEF n
  <2>12. CASE A /\ v.type # "prevote"
    <3> DEFINE q == v.round
               e == AddVotePrecommit(x, StartHeight, q)
    <3>1. q \in Rounds /\ ValidCurrent(x) /\ x.height = StartHeight /\ ~x.fault
      BY <1>2, <2>7, <2>9, <2>12
    <3> HIDE DEF q
    <3>2. Core(e) /\ ValidCurrent(e) /\ e.counted = x.counted
      BY <2>8, <3>1, AddVotePrecommitCore
    <3>3. n = e
      BY <2>1, <2>12 DEF q
    <3> HIDE DEF e
    <3> QED BY <1>2, <2>5, <2>7, <2>12, <3>2, <3>3 DEF n
  <2> QED BY <2>10, <2>11, <2>12
<1> QED BY <1>1, <1>2

-----------------------------------------------------------------------------
(* The sources of events of cmt_cs_step.                                   *)

\* Own votes leave the queue in the order in which they were signed, and after
\* those that are counted.
LEMMA PopCore ==
    ASSUME NEW s, Core(s), ValidCurrent(s), s.queue # <<>>,
           s.height = StartHeight \/ s.step = StepNewHeight
    PROVE  LET n == [s EXCEPT !.queue = Tail(@)]
               m == Head(s.queue)
           IN  /\ Core(n) /\ ValidCurrent(n)
               /\ n.counted = s.counted /\ n.fault = s.fault /\ n.height = s.height
               /\ m \in Messages /\ m.height = StartHeight
               /\ m.kind = "vote" =>
                     /\ OwnDue(n, m.vote)
                     /\ [height |-> StartHeight, round |-> m.vote.round, type |-> m.vote.type,
                         block |-> m.vote.block] \in s.signed
                     /\ \A t \in VoteTypes : \A r \in Rounds : \A b \in Values :
                           <<Self, r, b>> \in s.counted[t] => VoteRank(t, r) < VoteRank(m.vote.type, m.vote.round)
<1> DEFINE n == [s EXCEPT !.queue = Tail(@)]
           m == Head(s.queue)
<1>1. Same(n, s, {"queue"}) /\ n.queue = Tail(s.queue)
  BY DEF Core, Typed, Fields, Same
<1> HIDE DEF n
<1> /\ n.height = s.height /\ n.round = s.round /\ n.step = s.step /\ n.proposal = s.proposal
    /\ n.block = s.block /\ n.parts = s.parts
    /\ n.locked_round = s.locked_round /\ n.locked_block = s.locked_block
    /\ n.valid_round = s.valid_round /\ n.valid_block = s.valid_block
    /\ n.locked_parts = s.locked_parts /\ n.valid_parts = s.valid_parts
    /\ n.votes = s.votes /\ n.last_commit = s.last_commit /\ n.commit_round = s.commit_round
    /\ n.triggered_timeout_precommit = s.triggered_timeout_precommit
    /\ n.ti = s.ti /\ n.armed = s.armed /\ n.tocks = s.tocks
    /\ n.signed = s.signed /\ n.counted = s.counted /\ n.decided = s.decided
    /\ n.reported = s.reported /\ n.refused = s.refused /\ n.fault = s.fault
  BY <1>1 DEF Same, Fields
<1>2. s.queue \in Seq(Messages)
  BY DEF Core, Typed
<1>3. /\ n.queue \in Seq(Messages)
      /\ 1 \in DOMAIN s.queue /\ m = s.queue[1]
      /\ \A i \in DOMAIN n.queue : i \in Nat /\ 1 < i + 1 /\ i + 1 \in DOMAIN s.queue /\ n.queue[i] = s.queue[i + 1]
  BY <1>1, <1>2, SMT
<1>4. m \in Messages
  BY <1>2, <1>3, SMT
<1> HIDE DEF m
<1>5. Typed(n)
  BY <1>1, <1>3 DEF Core, Typed, PartsTyped, Same
<1>6. VotesInv(n) /\ SignedInv(n) /\ LockInv(n) /\ KeptInv(n) /\ RulesInv(n) /\ ValidInv(n) /\ ValidCurrent(n)
  BY DEF Core, VotesInv, SignedInv, LockInv, KeptInv, RulesInv, ValidInv, ValidCurrent
<1>7. BlockInv(n) /\ CountedInv(n) /\ EvidenceInv(n) /\ DecisionInv(n) /\ TickInv(n)
  BY DEF Core, BlockInv, HeldInv, LockedPair, ValidPair, CountedInv, EvidenceInv, DecisionInv, TickInv
<1>8. QueueOk(s.queue, s.signed, s.height, s.step) /\ OwnOk(s.counted, s.signed, s.queue)
  BY DEF Core, QueueInv, OwnInv
<1>9. QueueInv(n)
  <2>1. ASSUME NEW i \in DOMAIN n.queue
        PROVE  /\ n.queue[i].height <= n.height
               /\ n.queue[i].height = n.height => n.step # StepNewHeight
               /\ n.queue[i].kind = "vote" =>
                     [height |-> n.queue[i].height, round |-> n.queue[i].vote.round,
                      type |-> n.queue[i].vote.type, block |-> n.queue[i].vote.block] \in n.signed
    <3>1. i + 1 \in DOMAIN s.queue /\ n.queue[i] = s.queue[i + 1]
      BY <1>3
    <3> QED BY <1>8, <3>1 DEF QueueOk
  <2>2. ASSUME NEW i \in DOMAIN n.queue, NEW j \in DOMAIN n.queue,
               i < j, n.queue[i].kind = "vote", n.queue[j].kind = "vote",
               n.queue[i].height = n.queue[j].height
        PROVE  VoteRank(n.queue[i].vote.type, n.queue[i].vote.round)
                  < VoteRank(n.queue[j].vote.type, n.queue[j].vote.round)
    <3>1. /\ i + 1 \in DOMAIN s.queue /\ n.queue[i] = s.queue[i + 1]
          /\ j + 1 \in DOMAIN s.queue /\ n.queue[j] = s.queue[j + 1]
          /\ i + 1 < j + 1
      BY <1>3, <2>2, SMT
    <3> QED BY <1>8, <2>2, <3>1 DEF QueueOk
  <2> QED BY <2>1, <2>2 DEF QueueInv, QueueOk
<1>10. OwnInv(n)
  <2>1. ASSUME NEW t \in VoteTypes, NEW r \in Rounds, NEW b \in Values, <<Self, r, b>> \in n.counted[t],
               NEW i \in DOMAIN n.queue, n.queue[i].kind = "vote", n.queue[i].height = StartHeight
        PROVE  VoteRank(t, r) < VoteRank(n.queue[i].vote.type, n.queue[i].vote.round)
    <3>1. i + 1 \in DOMAIN s.queue /\ n.queue[i] = s.queue[i + 1]
      BY <1>3
    <3> QED BY <1>8, <2>1, <3>1 DEF OwnOk
  <2> QED BY <1>8, <2>1 DEF OwnInv, OwnOk
<1>11. m.height = StartHeight
  <2>1. m.height <= s.height /\ (m.height = s.height => s.step # StepNewHeight)
    BY <1>3, <1>8 DEF QueueOk
  <2>2. m.height \in Heights
    BY <1>4 DEF Messages
  <2> QED BY <2>1, <2>2, CoreTypes, SMT DEF Heights
<1>12. ASSUME m.kind = "vote"
       PROVE  /\ OwnDue(n, m.vote)
              /\ [height |-> StartHeight, round |-> m.vote.round, type |-> m.vote.type,
                  block |-> m.vote.block] \in s.signed
              /\ \A t \in VoteTypes : \A r \in Rounds : \A b \in Values :
                    <<Self, r, b>> \in s.counted[t] => VoteRank(t, r) < VoteRank(m.vote.type, m.vote.round)
  <2>1. [height |-> StartHeight, round |-> m.vote.round, type |-> m.vote.type, block |-> m.vote.block] \in s.signed
    BY <1>3, <1>8, <1>11, <1>12 DEF QueueOk
  <2>2. ASSUME NEW i \in DOMAIN n.queue, n.queue[i].kind = "vote", n.queue[i].height = StartHeight
        PROVE  VoteRank(m.vote.type, m.vote.round) < VoteRank(n.queue[i].vote.type, n.queue[i].vote.round)
    <3>1. i + 1 \in DOMAIN s.queue /\ n.queue[i] = s.queue[i + 1] /\ 1 < i + 1
      BY <1>3
    <3> QED BY <1>3, <1>8, <1>11, <1>12, <2>2, <3>1 DEF QueueOk
  <2>3. OwnDue(n, m.vote)
    BY <2>1, <2>2 DEF OwnDue
  <2>4. \A t \in VoteTypes : \A r \in Rounds : \A b \in Values :
           <<Self, r, b>> \in s.counted[t] => VoteRank(t, r) < VoteRank(m.vote.type, m.vote.round)
    BY <1>3, <1>8, <1>11, <1>12 DEF OwnOk
  <2> QED BY <2>1, <2>3, <2>4
<1>13. Core(n)
  BY <1>5, <1>6, <1>7, <1>9, <1>10 DEF Core
<1> QED BY <1>4, <1>6, <1>11, <1>12, <1>13 DEF n, m

\* Timeouts move from the timer to the queue, and out of it.
LEMMA TocksCore ==
    ASSUME NEW s, NEW n, Core(s), ValidCurrent(s), Same(n, s, {"tocks", "armed"}),
           n.tocks \in Seq(Ticks), n.armed \in BOOLEAN,
           \A i \in DOMAIN n.tocks : n.tocks[i] = s.ti \/ \E j \in DOMAIN s.tocks : n.tocks[i] = s.tocks[j]
    PROVE  /\ Core(n) /\ ValidCurrent(n) /\ n.counted = s.counted
           /\ n.height = s.height /\ n.round = s.round /\ n.fault = s.fault
<1>1. /\ n.height = s.height /\ n.round = s.round /\ n.step = s.step /\ n.proposal = s.proposal
      /\ n.block = s.block /\ n.parts = s.parts /\ n.commit_round = s.commit_round
      /\ n.triggered_timeout_precommit = s.triggered_timeout_precommit
      /\ n.ti = s.ti /\ n.fault = s.fault /\ n.votes = s.votes /\ n.valid_round = s.valid_round
      /\ n.locked_block = s.locked_block /\ n.locked_parts = s.locked_parts
      /\ n.valid_block = s.valid_block /\ n.valid_parts = s.valid_parts /\ n.counted = s.counted
  BY DEF Same, Fields
<1>2. TickInv(n)
  BY <1>1 DEF Core, TickInv, TickOk
<1>3. BlockInv(n) /\ PartsTyped(n)
  BY <1>1 DEF Core, BlockInv, HeldInv, LockedPair, ValidPair, Typed, PartsTyped
<1>4. Same(n, s, {"ti", "armed", "tocks", "step", "proposal", "block", "parts",
                  "locked_parts", "valid_parts",
                  "triggered_timeout_precommit", "commit_round", "fault"})
  BY DEF Same
<1>5. /\ s.step \in (1..6) \cup {8} /\ s.step <= s.step
      /\ s.proposal \in Proposals \cup {None} /\ s.commit_round \in -1..MaxRound
      /\ s.triggered_timeout_precommit \in BOOLEAN /\ s.fault \in BOOLEAN /\ s.ti \in Ticks
  BY SMT DEF Core, Typed
<1>6. Core(n)
  BY <1>1, <1>2, <1>3, <1>4, <1>5, FrameCore
<1>7. ValidCurrent(n)
  BY <1>1 DEF ValidCurrent
<1> QED BY <1>1, <1>6, <1>7

\* cmt_cs_handle_timeout
LEMMA HandleTimeoutCore ==
    ASSUME NEW s, Core(s), ValidCurrent(s), NEW ti \in Ticks, ti.height = s.height => ti.round <= s.round
    PROVE  LET n == HandleTimeout(s, ti)
           IN  Core(n) /\ ValidCurrent(n) /\ n.counted = s.counted
<1> DEFINE n == HandleTimeout(s, ti)
           h == ti.height
           r == ti.round
<1> s.step \in Int /\ s.round \in Nat
  BY CoreTypes
<1>1. r \in Nat /\ ti.step \in TickSteps /\ r + 1 \in Nat
  BY SMT DEF Ticks
<1>2. /\ h = s.height => r <= s.round
      /\ ~s.fault /\ h = s.height => r <= s.round
  OBVIOUS
<1>3. \/ n = s
      \/ n = EnterNewRound(s, h, 0)
      \/ n = EnterPropose(s, h, r)
      \/ n = EnterPrevote(s, h, r)
      \/ n = EnterPrecommit(s, h, r)
      \/ n = EnterNewRound(EnterPrecommit(s, h, r), h, r + 1)
  BY <1>1, SMT DEF HandleTimeout, TickSteps, StepNewHeight, StepNewRound, StepPropose, StepPrevoteWait, StepPrecommitWait
<1> SUFFICES Core(n) /\ ValidCurrent(n) /\ n.counted = s.counted
  OBVIOUS
<1> HIDE DEF n, h, r
<1>4. CASE n = EnterNewRound(s, h, 0)
  BY <1>4, NewRoundInv, SMT
<1>5. CASE n = EnterPropose(s, h, r)
  <2>1. Core(n) /\ Same(n, s, {"ti", "armed", "queue", "step", "signed", "fault"}) /\ s.step <= n.step
    BY <1>1, <1>2, <1>5, EnterProposeCore
  <2>2. /\ n.block = s.block /\ n.round = s.round /\ n.valid_round = s.valid_round /\ n.votes = s.votes
        /\ n.counted = s.counted
    BY <2>1 DEF Same, Fields
  <2>3. n.step \in Int
    BY <2>1, CoreTypes
  <2>4. ValidCurrent(n)
    BY <2>1, <2>2, <2>3, ValidCurrentKept DEF SameTallies
  <2> QED BY <2>1, <2>2, <2>4
<1>6. CASE n = EnterPrevote(s, h, r)
  <2>1. Core(n) /\ Same(n, s, {"signed", "queue", "step"}) /\ s.step <= n.step
    BY <1>1, <1>2, <1>6, EnterPrevoteCore
  <2>2. /\ n.block = s.block /\ n.round = s.round /\ n.valid_round = s.valid_round /\ n.votes = s.votes
        /\ n.counted = s.counted
    BY <2>1 DEF Same, Fields
  <2>3. n.step \in Int
    BY <2>1, CoreTypes
  <2>4. ValidCurrent(n)
    BY <2>1, <2>2, <2>3, ValidCurrentKept DEF SameTallies
  <2> QED BY <2>1, <2>2, <2>4
<1>7. /\ Core(EnterPrecommit(s, h, r)) /\ ValidCurrent(EnterPrecommit(s, h, r))
      /\ EnterPrecommit(s, h, r).counted = s.counted
  <2>1. LET e == EnterPrecommit(s, h, r)
        IN  /\ Core(e) /\ ValidCurrent(e) /\ s.step <= e.step
            /\ Same(e, s, {"signed", "queue", "step", "locked_round", "locked_block", "locked_parts",
                           "block", "parts", "fault"})
    BY <1>1, <1>2, EnterPrecommitCore
  <2> QED BY <2>1 DEF Same, Fields
<1>8. CASE n = EnterNewRound(EnterPrecommit(s, h, r), h, r + 1)
  <2> DEFINE e == EnterPrecommit(s, h, r)
             q == r + 1
  <2>1. Core(e) /\ ValidCurrent(e) /\ e.counted = s.counted /\ q \in Nat /\ n = EnterNewRound(e, h, q)
    BY <1>1, <1>7, <1>8
  <2> HIDE DEF e, q
  <2> QED BY <2>1, NewRoundInv
<1> QED BY <1>3, <1>4, <1>5, <1>6, <1>7, <1>8

\* cmt_cs_handle_txs_available
LEMMA HandleTxsAvailableCore ==
    ASSUME NEW s, Core(s), ValidCurrent(s)
    PROVE  LET n == HandleTxsAvailable(s)
           IN  Core(n) /\ ValidCurrent(n) /\ n.counted = s.counted
<1> DEFINE n == HandleTxsAvailable(s)
           z == 0
<1> s.step \in Int /\ s.round \in Nat
  BY CoreTypes
<1>1. \/ n = s
      \/ s.round = 0 /\ n = ScheduleTimeout(s, s.height, z, StepNewRound)
      \/ s.round = 0 /\ n = EnterPropose(s, s.height, z)
  BY SMT DEF HandleTxsAvailable, StepNewHeight, StepNewRound
<1> SUFFICES Core(n) /\ ValidCurrent(n) /\ n.counted = s.counted
  OBVIOUS
<1>2. z \in Nat /\ z <= s.round
  BY SMT
<1> HIDE DEF n, z
<1>3. CASE n = ScheduleTimeout(s, s.height, z, StepNewRound)
  <2>1. Core(n) /\ Same(n, s, {"ti", "armed"})
    BY <1>2, <1>3, ScheduleTimeoutCore DEF TickSteps
  <2>2. /\ n.block = s.block /\ n.round = s.round /\ n.valid_round = s.valid_round /\ n.votes = s.votes
        /\ n.counted = s.counted /\ n.step = s.step
    BY <2>1 DEF Same, Fields
  <2>3. ValidCurrent(n)
    BY <2>2 DEF ValidCurrent
  <2> QED BY <2>1, <2>2, <2>3
<1>4. CASE n = EnterPropose(s, s.height, z)
  <2>1. Core(n) /\ Same(n, s, {"ti", "armed", "queue", "step", "signed", "fault"}) /\ s.step <= n.step
    BY <1>2, <1>4, EnterProposeCore
  <2>2. /\ n.block = s.block /\ n.round = s.round /\ n.valid_round = s.valid_round /\ n.votes = s.votes
        /\ n.counted = s.counted
    BY <2>1 DEF Same, Fields
  <2>3. n.step \in Int
    BY <2>1, CoreTypes
  <2>4. ValidCurrent(n)
    BY <2>1, <2>2, <2>3, ValidCurrentKept DEF SameTallies
  <2> QED BY <2>1, <2>2, <2>4
<1> QED BY <1>1, <1>3, <1>4

LEMMA ProposalInv ==
    ASSUME NEW s, Core(s), ValidCurrent(s), ~s.fault, NEW h, NEW p \in Proposals
    PROVE  LET n == SetProposal(s, h, p)
           IN  Core(n) /\ ValidCurrent(n) /\ n.counted = s.counted
<1> DEFINE n == SetProposal(s, h, p)
<1>1. Core(n) /\ Same(n, s, {"proposal", "parts"})
  BY SetProposalCore
<1> HIDE DEF n
<1>2. /\ n.block = s.block /\ n.round = s.round /\ n.valid_round = s.valid_round /\ n.votes = s.votes
      /\ n.counted = s.counted /\ n.step = s.step
  BY <1>1 DEF Same, Fields
<1>3. ValidCurrent(n)
  BY <1>2 DEF ValidCurrent
<1> QED BY <1>1, <1>2, <1>3 DEF n

\* A vote of the height enters a tally; the node's own in its turn.
NewVotes == [val : Validators, type : VoteTypes, round : Rounds, block : Values]
Counts(s, n, v) ==
    /\ s.height = StartHeight
    /\ n.counted = [s.counted EXCEPT ![v.type] = @ \cup {<<v.val, v.round, v.block>>}]
    /\ v.val = Self =>
          /\ [height |-> StartHeight, round |-> v.round, type |-> v.type, block |-> v.block] \in s.signed
          /\ \A t \in VoteTypes : \A r \in Rounds : \A b \in Values :
                <<Self, r, b>> \in s.counted[t] => VoteRank(t, r) < VoteRank(v.type, v.round)
CountStep(s, n) == n.counted = s.counted \/ \E v \in NewVotes : Counts(s, n, v)

\* cmt_cs_handle_msg on a message m of the internal queue of s.
LEMMA HandleOwnCore ==
    ASSUME NEW s, NEW y, NEW m, Core(s), ~s.fault, s.round <= MaxRound, Core(y), ValidCurrent(y),
           y.counted = s.counted, y.fault = s.fault, y.height = s.height,
           m \in Messages, m.height = StartHeight,
           m.kind = "vote" =>
              /\ OwnDue(y, m.vote)
              /\ [height |-> StartHeight, round |-> m.vote.round, type |-> m.vote.type,
                  block |-> m.vote.block] \in s.signed
              /\ \A t \in VoteTypes : \A r \in Rounds : \A b \in Values :
                    <<Self, r, b>> \in s.counted[t] => VoteRank(t, r) < VoteRank(m.vote.type, m.vote.round)
    PROVE  LET n == HandleMsg(y, m, Local)
           IN  Core(n) /\ ValidCurrent(n) /\ CountStep(s, n)
<1> DEFINE n == HandleMsg(y, m, Local)
<1> SUFFICES Core(n) /\ ValidCurrent(n) /\ CountStep(s, n)
  OBVIOUS
<1>2. /\ m.kind = "proposal" => n = SetProposal(y, m.height, m.proposal)
      /\ m.kind = "part" => n = AddProposalBlockPart(y, m.height, m.header)
      /\ m.kind = "vote" => n = TryAddVote(y, m.height, m.vote, Local)
  BY DEF HandleMsg
<1>3. \/ m.kind = "proposal" /\ m.proposal \in Proposals
      \/ m.kind = "part" /\ m.header \in Headers
      \/ m.kind = "vote" /\ m.vote \in OwnVotes
  BY DEF Messages
<1> HIDE DEF n
<1>4. CASE m.kind = "proposal" /\ m.proposal \in Proposals
  <2> DEFINE q == m.proposal
             h == m.height
  <2>1. q \in Proposals /\ n = SetProposal(y, h, q)
    BY <1>2, <1>4
  <2> HIDE DEF q, h
  <2>2. Core(n) /\ ValidCurrent(n) /\ n.counted = y.counted
    BY <2>1, ProposalInv
  <2> QED BY <2>2 DEF CountStep
<1>5. CASE m.kind = "part" /\ m.header \in Headers
  <2> DEFINE d == m.header
  <2>1. d \in Headers /\ n = AddProposalBlockPart(y, StartHeight, d)
    BY <1>2, <1>5
  <2> HIDE DEF d
  <2>2. Core(n) /\ ValidCurrent(n) /\ n.counted = y.counted
    BY <2>1, AddProposalBlockPartCore
  <2> QED BY <2>2 DEF CountStep
<1>6. CASE m.kind = "vote" /\ m.vote \in OwnVotes
  <2> DEFINE v == m.vote
  <2>1. /\ v \in OwnVotes /\ OwnDue(y, v) /\ n = TryAddVote(y, StartHeight, v, Local)
        /\ [height |-> StartHeight, round |-> v.round, type |-> v.type, block |-> v.block] \in s.signed
        /\ \A t \in VoteTypes : \A r \in Rounds : \A b \in Values :
              <<Self, r, b>> \in s.counted[t] => VoteRank(t, r) < VoteRank(v.type, v.round)
    BY <1>2, <1>6
  <2> HIDE DEF v
  <2>2. /\ v.val \in Validators /\ v.type \in VoteTypes /\ v.round \in Nat /\ v.block \in Values
    BY <2>1, SelfAssumption DEF OwnVotes
  <2>3. s.height = StartHeight => v.round \in Rounds
    <3>1. s.height = StartHeight => v.round <= s.round
      BY <2>1 DEF Core, SignedInv, SignedOk
    <3> QED BY <2>2, <3>1, CoreTypes, MaxRoundAssumption, SMT DEF Rounds
  <2>4. /\ Core(n) /\ ValidCurrent(n)
        /\ \/ n.counted = y.counted
           \/ /\ y.height = StartHeight
              /\ n.counted = [y.counted EXCEPT ![v.type] = @ \cup {<<v.val, v.round, v.block>>}]
    <3>1. Local \in Peers
      BY SelfAssumption
    <3>2. y.height = StartHeight => v.round \in Rounds
      BY <2>3
    <3>3. Core(y) /\ ValidCurrent(y) /\ ~y.fault /\ OwnDue(y, v)
      BY <2>1
    <3>4. LET e == TryAddVote(y, StartHeight, v, Local)
          IN  /\ Core(e) /\ ValidCurrent(e)
              /\ \/ e.counted = y.counted
                 \/ /\ y.height = StartHeight
                    /\ e.counted = [y.counted EXCEPT ![v.type] = @ \cup {<<v.val, v.round, v.block>>}]
      BY <2>2, <3>1, <3>2, <3>3, TryAddVoteCore, SMT
    <3> QED BY <2>1, <3>4
  <2>5. s.height = StartHeight => v \in NewVotes
    BY <2>1, <2>2, <2>3 DEF OwnVotes, NewVotes
  <2>6. CASE n.counted = y.counted
    BY <2>4, <2>6 DEF CountStep
  <2>7. CASE /\ y.height = StartHeight
             /\ n.counted = [y.counted EXCEPT ![v.type] = @ \cup {<<v.val, v.round, v.block>>}]
    <3>1. Counts(s, n, v)
      BY <2>1, <2>7 DEF Counts
    <3> QED BY <2>4, <2>5, <2>7, <3>1 DEF CountStep
  <2> QED BY <2>4, <2>6, <2>7
<1> QED BY <1>3, <1>4, <1>5, <1>6

-----------------------------------------------------------------------------
(* The invariant holds.                                                    *)

\* The vote set of a stored commit, which has +2/3 and may lack some precommits.
LEMMA SeenCommitSound == Sound(SeenCommit) /\ SeenCommit.has_maj23
<1> DEFINE vs == SeenCommit
           F(b) == {i \in Validators : LastSigned[i] = b}
           D  == {LastSigned[i] : i \in Validators} \ {None}
           W  == Weight(Validators \ F(None))
           B  == [b \in D |-> [peer_maj23 |-> FALSE, votes |-> F(b), sum |-> Weight(F(b))]]
           P  == [p \in Peers |-> None]
<1>1. vs = [votes |-> LastSigned, sum |-> W, has_maj23 |-> TRUE, maj23 |-> LastBlock,
            votes_by_block |-> B, peer_maj23s |-> P]
  <2> DEFINE U == [i \in Validators |-> None]
             E == [c \in {} |-> None]
  <2>1. NewVoteSet = [votes |-> U, sum |-> 0, has_maj23 |-> FALSE, maj23 |-> None,
                      votes_by_block |-> E, peer_maj23s |-> P]
    BY DEF NewVoteSet
  <2>2. vs = [NewVoteSet EXCEPT !.votes = LastSigned, !.sum = W, !.has_maj23 = TRUE,
                                !.maj23 = LastBlock, !.votes_by_block = B]
    BY DEF SeenCommit
  <2> HIDE DEF vs, B, P, U, E, W
  <2> QED BY <2>1, <2>2
<1>2. /\ LastBlock \in Values /\ LastBlock # None /\ LastBlock \in Blocks
      /\ LastSigned \in [Validators -> Values \cup {None}] /\ P \in [Peers -> Values \cup {None}]
      /\ D \subseteq Values
  BY LastAssumption, NoneAssumption DEF Values
<1>3. \A b : F(b) \in SUBSET Validators /\ Weight(F(b)) \in Nat
  BY WeightNat
<1>4. W \in Nat
  BY WeightNat
<1>5. \A p \in Peers : P[p] = None
  OBVIOUS
<1>6. /\ DOMAIN B = D
      /\ \A b \in D : B[b] = [peer_maj23 |-> FALSE, votes |-> F(b), sum |-> Weight(F(b))]
  OBVIOUS
<1>7. B \in [D -> BlockVotes]
  BY <1>3 DEF BlockVotes
<1>8. LastBlock \in D /\ Quorum <= Weight(F(LastBlock))
  <2>1. Weight(F(LastBlock)) >= Quorum
    BY LastAssumption
  <2>2. F(LastBlock) # {}
    <3>1. Quorum > 0
      BY QuorumNat, SMT DEF Quorum
    <3> HIDE DEF F
    <3> QED BY <2>1, <3>1, WeightOfNobody, QuorumNat, SMT
  <2>3. LastBlock \in D
    BY <1>2, <2>2
  <2>4. Weight(F(LastBlock)) \in Nat
    BY <1>3
  <2> HIDE DEF F, D
  <2> QED BY <2>1, <2>3, <2>4, QuorumNat, SMT
<1> HIDE DEF vs, B, P, W
<1>9. /\ vs.votes = LastSigned /\ vs.sum = W /\ vs.has_maj23 = TRUE /\ vs.maj23 = LastBlock
      /\ vs.votes_by_block = B /\ vs.peer_maj23s = P
  BY <1>1
<1>10. WellFormed(vs)
  <2> HIDE DEF F, D
  <2> QED BY <1>1, <1>2, <1>4, <1>6, <1>7, <1>9 DEF WellFormed
<1>11. Voters(vs) = Validators \ F(None)
  BY <1>9 DEF Voters
<1>12. \A i \in Voters(vs) : LastSigned[i] \in D /\ i \in F(LastSigned[i])
  BY <1>9 DEF Voters
<1>13. \A b \in D : F(b) \subseteq Voters(vs)
  BY <1>9 DEF Voters
<1>14. \A i \in F(LastBlock) : LastSigned[i] = LastBlock
  OBVIOUS
<1>19. \A b \in D : B[b].votes = F(b) /\ B[b].sum = Weight(F(b)) /\ B[b].peer_maj23 = FALSE
  <2> HIDE DEF F, D
  <2> QED BY <1>6, SMT
<1>20. W = Weight(Voters(vs))
  BY <1>11 DEF W
<1> HIDE DEF F, D
<1>21. DOMAIN vs.votes_by_block = D
  BY <1>6, <1>9
<1>15. SumsExact(vs)
  BY <1>9, <1>13, <1>19, <1>20, <1>21 DEF SumsExact
<1>16. CanonicalTallied(vs)
  BY <1>9, <1>12, <1>19, <1>21 DEF CanonicalTallied, TallyOf, Tracks
<1>17. MajorityBacked(vs)
  BY <1>8, <1>9, <1>14, <1>19, <1>21 DEF MajorityBacked, Tracks
<1>18. ClaimsTracked(vs)
  <2>1. \A b \in Values : ~\E p \in Peers : vs.peer_maj23s[p] = b
    BY <1>5, <1>9, NoneAssumption DEF Values
  <2> QED BY <1>9, <1>19, <1>21, <2>1 DEF ClaimsTracked, Tracks
<1> QED BY <1>9, <1>10, <1>15, <1>16, <1>17, <1>18 DEF Sound, vs

LEMMA InitInv ==
    ASSUME Init
    PROVE  Inv(cs) /\ cs.round <= MaxRound /\ \A t \in VoteTypes : cs.counted[t] = {}
<1> DEFINE lc == IF StartHeight = InitialHeight THEN None ELSE [round |-> 0, set |-> SeenCommit]
<1>1. /\ DOMAIN cs = Fields
      /\ cs.height = StartHeight /\ cs.round = 0 /\ cs.step = StepNewHeight
      /\ cs.proposal = None /\ cs.block = None /\ cs.parts = None
      /\ cs.locked_round = -1 /\ cs.locked_block = None /\ cs.locked_parts = None
      /\ cs.valid_round = -1 /\ cs.valid_block = None /\ cs.valid_parts = None
      /\ cs.votes = NewHeightVotes /\ cs.commit_round = -1 /\ cs.last_commit = lc
      /\ cs.triggered_timeout_precommit = FALSE
      /\ cs.queue = <<>> /\ cs.ti = [height |-> StartHeight, round |-> 0, step |-> StepNewHeight]
      /\ cs.armed = TRUE /\ cs.tocks = <<>>
      /\ cs.signed = {} /\ cs.counted = [t \in VoteTypes |-> {}] /\ cs.decided = {}
      /\ cs.reported = {} /\ cs.refused = FALSE /\ cs.fault = FALSE
  BY DEF Init, Fields
<1> HIDE DEF lc
<1>2. StartHeight \in Nat /\ MaxRound \in Nat
  BY HeightAssumption, MaxRoundAssumption
<1>3. Typed(cs)
  <2>1. cs.ti \in Ticks
    BY <1>1, SMT DEF Ticks, Heights, TickSteps
  <2>2. cs.queue \in Seq(Messages) /\ cs.tocks \in Seq(Ticks)
    BY <1>1, SMT
  <2>3. cs.counted \in [VoteTypes -> SUBSET (Validators \X Rounds \X Values)] /\ cs.signed \subseteq SignedVotes
    BY <1>1
  <2>4. cs.height \in Heights /\ cs.step \in (1..6) \cup {8}
    BY <1>1, SMT DEF Heights, StepNewHeight
  <2>5. cs.round \in Nat /\ cs.commit_round \in -1..MaxRound
    BY <1>1, <1>2, SMT
  <2> QED BY <1>1, <2>1, <2>2, <2>3, <2>4, <2>5 DEF Typed, PartsTyped
<1>4. VotesInv(cs)
  BY <1>1, <1>2, NewHeightVotesOk, SMT DEF VotesInv, VotesOk
<1>5. SignedInv(cs) /\ KeptInv(cs) /\ RulesInv(cs) /\ BlockInv(cs) /\ ValidCurrent(cs)
  BY <1>1, HashOfBlock DEF SignedInv, SignedOk, KeptInv, KeptOk, RulesInv, RulesOk, Precommitted,
        BlockInv, HeldInv, HeldOk, LockedPair, ValidPair, PairOk, ValidCurrent, CurrentOk, HashesTo
<1>6. LockInv(cs) /\ ValidInv(cs)
  BY <1>1, SMT DEF LockInv, LockOk, ValidInv, ValidOk
<1>7. QueueInv(cs) /\ OwnInv(cs)
  BY <1>1, SMT DEF QueueInv, QueueOk, OwnInv, OwnOk
<1>8. TickInv(cs)
  BY <1>1, <1>2, SMT DEF TickInv, TickOk
<1>9. CountedInv(cs)
  <2>1. \A t \in VoteTypes : \A r \in Int : \A b \in Values :
           /\ TallyOf(VotesOf(cs.votes, r, t), b).votes = {}
           /\ cs.counted[t] = {}
    BY <1>1, NewHeightVotesOk, SMT DEF TallyOf, Tracks, NewVoteSet, NewBlockVotes
  <2> QED BY <2>1 DEF CountedInv, CountedOk
<1>10. EvidenceInv(cs)
  <2>1. \A t \in VoteTypes : cs.counted[t] = {}
    BY <1>1
  <2> QED BY <2>1 DEF EvidenceInv, EvidenceOk
<1>11. DecisionInv(cs)
  <2>1. cs.height = StartHeight /\ ~(cs.height > StartHeight) /\ cs.decided = {}
    BY <1>1, <1>2, SMT
  <2>2. cs.height > InitialHeight => cs.last_commit = [round |-> 0, set |-> SeenCommit]
    BY <1>1, HeightAssumption, SMT DEF lc
  <2> DEFINE c == [round |-> 0, set |-> SeenCommit]
  <2>4. Sound(SeenCommit) /\ SeenCommit.has_maj23
    BY SeenCommitSound
  <2>5. /\ c = [round |-> c.round, set |-> c.set] /\ c.round \in Int /\ Sound(c.set) /\ c.set.has_maj23
    BY <2>4, SMT
  <2>6. c # None
    <3>1. SeenCommit \in VoteSets
      BY <2>4, WellFormedInVoteSets DEF Sound
    <3>2. c \in [round : Int, set : VoteSets]
      BY <3>1, SMT
    <3> QED BY <3>2, StructAssumption
  <2>7. cs.last_commit # None => cs.last_commit = c
    BY <1>1 DEF lc
  <2> HIDE DEF c
  <2>8. cs.height > InitialHeight => cs.last_commit = c
    BY <2>2 DEF c
  <2> QED BY <2>1, <2>5, <2>6, <2>7, <2>8 DEF DecisionInv, DecisionOk
<1>12. Inv(cs)
  BY <1>3, <1>4, <1>5, <1>6, <1>7, <1>8, <1>9, <1>10, <1>11 DEF Inv, Core
<1> QED BY <1>1, <1>2, <1>12, SMT

LEMMA NextInv ==
    ASSUME Inv(cs), cs.round <= MaxRound, Next
    PROVE  Inv(cs') /\ cs'.round <= MaxRound /\ CountStep(cs, cs')
<1>1. Core(cs) /\ ValidCurrent(cs)
  BY DEF Inv
<1> SUFFICES /\ cs'.round <= MaxRound
             /\ Core(cs') /\ ValidCurrent(cs') /\ CountStep(cs, cs')
  BY DEF Inv
<1>2. ASSUME NEW p \in NetProposals, ReceiveProposal(p)
      PROVE  cs'.round <= MaxRound /\ Core(cs') /\ ValidCurrent(cs') /\ CountStep(cs, cs')
  <2>1. cs' = SetProposal(cs, StartHeight, p) /\ cs'.round <= MaxRound /\ ~cs.fault
    BY <1>2 DEF ReceiveProposal, Becomes, Running
  <2>2. p \in Proposals
    BY NetAssumption, MaxRoundAssumption, SMT DEF Proposals, Rounds
  <2>3. Core(cs') /\ ValidCurrent(cs') /\ cs'.counted = cs.counted
    BY <1>1, <2>1, <2>2, ProposalInv
  <2> QED BY <2>1, <2>3 DEF CountStep
<1>3. ASSUME NEW header \in Headers, ReceivePart(header)
      PROVE  cs'.round <= MaxRound /\ Core(cs') /\ ValidCurrent(cs') /\ CountStep(cs, cs')
  <2>1. cs' = AddProposalBlockPart(cs, StartHeight, header) /\ cs'.round <= MaxRound
    BY <1>3 DEF ReceivePart, Becomes
  <2>2. Core(cs') /\ ValidCurrent(cs') /\ cs'.counted = cs.counted
    BY <1>1, <2>1, AddProposalBlockPartCore
  <2> QED BY <2>1, <2>2 DEF CountStep
<1>4. ASSUME NEW v \in NetVotes, NEW p \in Peers \ {Local}, ReceiveVote(v, p)
      PROVE  cs'.round <= MaxRound /\ Core(cs') /\ ValidCurrent(cs') /\ CountStep(cs, cs')
  <2>1. cs' = TryAddVote(cs, StartHeight, v, p) /\ cs'.round <= MaxRound /\ ~cs.fault /\ p \in Peers
    BY <1>4 DEF ReceiveVote, Becomes, Running
  <2>2. /\ v \in NewVotes /\ v.val # Self
        /\ v.val \in Validators /\ v.type \in VoteTypes /\ v.round \in Rounds /\ v.block \in Values
    BY NetAssumption DEF NewVotes
  <2>3. OwnDue(cs, v) /\ v.round \in Nat /\ (cs.height = StartHeight => v.round \in Rounds)
    BY <2>2, MaxRoundAssumption, SMT DEF OwnDue, Rounds
  <2>4. LET n == TryAddVote(cs, StartHeight, v, p)
        IN  /\ Core(n) /\ ValidCurrent(n)
            /\ \/ n.counted = cs.counted
               \/ /\ cs.height = StartHeight
                  /\ n.counted = [cs.counted EXCEPT ![v.type] = @ \cup {<<v.val, v.round, v.block>>}]
    BY <1>1, <2>1, <2>2, <2>3, TryAddVoteCore, SMT
  <2>5. CountStep(cs, cs')
    BY <2>1, <2>2, <2>4 DEF CountStep, Counts
  <2> QED BY <2>1, <2>4, <2>5
<1>5. ASSUME NEW c \in NetClaims, NEW p \in Peers \ {Local}, ReceiveClaim(c, p)
      PROVE  cs'.round <= MaxRound /\ Core(cs') /\ ValidCurrent(cs') /\ CountStep(cs, cs')
  <2> DEFINE R == c.round
             T == c.type
             b == c.block
  <2>1. /\ cs' = [cs EXCEPT !.votes = HvsSetPeerMaj23(@, R, T, p, b)]
        /\ cs'.round <= MaxRound /\ cs.height = StartHeight /\ p \in Peers
    BY <1>5 DEF ReceiveClaim, Becomes
  <2>2. R \in Rounds /\ T \in VoteTypes /\ b \in Values
    BY NetAssumption
  <2> HIDE DEF R, T, b
  <2>3. Core(cs') /\ ValidCurrent(cs') /\ cs'.counted = cs.counted
    BY <1>1, <2>1, <2>2, ClaimCore, SMT
  <2> QED BY <2>1, <2>3 DEF CountStep
<1>6. ASSUME OwnMessage
      PROVE  cs'.round <= MaxRound /\ Core(cs') /\ ValidCurrent(cs') /\ CountStep(cs, cs')
  <2> DEFINE y == [cs EXCEPT !.queue = Tail(@)]
             m == Head(cs.queue)
  <2>1. /\ cs' = HandleMsg(y, m, Local) /\ cs'.round <= MaxRound /\ cs.queue # <<>>
        /\ ~cs.fault /\ (cs.height = StartHeight \/ cs.step = StepNewHeight)
    BY <1>6 DEF OwnMessage, Becomes, Running
  <2>2. /\ Core(y) /\ ValidCurrent(y)
        /\ y.counted = cs.counted /\ y.fault = cs.fault /\ y.height = cs.height
        /\ m \in Messages /\ m.height = StartHeight
        /\ m.kind = "vote" =>
              /\ OwnDue(y, m.vote)
              /\ [height |-> StartHeight, round |-> m.vote.round, type |-> m.vote.type,
                  block |-> m.vote.block] \in cs.signed
              /\ \A t \in VoteTypes : \A r \in Rounds : \A b \in Values :
                    <<Self, r, b>> \in cs.counted[t] => VoteRank(t, r) < VoteRank(m.vote.type, m.vote.round)
    BY <1>1, <2>1, PopCore
  <2> HIDE DEF y, m
  <2>3. Core(cs') /\ ValidCurrent(cs') /\ CountStep(cs, cs')
    BY <1>1, <2>1, <2>2, HandleOwnCore
  <2> QED BY <2>1, <2>3
<1>7. ASSUME TimerExpired
      PROVE  cs'.round <= MaxRound /\ Core(cs') /\ ValidCurrent(cs') /\ CountStep(cs, cs')
  <2>1. cs' = [cs EXCEPT !.armed = FALSE, !.tocks = Append(@, cs.ti)] /\ cs'.round <= MaxRound
    BY <1>7 DEF TimerExpired, Becomes
  <2>2. Same(cs', cs, {"tocks", "armed"}) /\ cs'.tocks = Append(cs.tocks, cs.ti) /\ cs'.armed = FALSE
    BY <1>1, <2>1, CoreTypes DEF Same, Fields
  <2>3. cs.tocks \in Seq(Ticks) /\ cs.ti \in Ticks
    BY <1>1 DEF Core, Typed
  <2>4. /\ cs'.tocks \in Seq(Ticks) /\ cs'.armed \in BOOLEAN
        /\ \A i \in DOMAIN cs'.tocks :
              cs'.tocks[i] = cs.ti \/ \E j \in DOMAIN cs.tocks : cs'.tocks[i] = cs.tocks[j]
    <3> DEFINE q == cs.tocks
               e == cs.ti
               a == Append(q, e)
    <3>1. q \in Seq(Ticks) /\ e \in Ticks
      BY <2>3
    <3> HIDE DEF q, e
    <3>2. a \in Seq(Ticks) /\ \A i \in DOMAIN a : a[i] = e \/ (i \in DOMAIN q /\ a[i] = q[i])
      BY <3>1, SMT
    <3>3. cs'.tocks = a
      BY <2>2 DEF q, e
    <3> HIDE DEF a
    <3> QED BY <2>2, <3>2, <3>3 DEF q, e
  <2>5. Core(cs') /\ ValidCurrent(cs') /\ cs'.counted = cs.counted
    BY <1>1, <2>2, <2>4, TocksCore
  <2> QED BY <2>1, <2>5 DEF CountStep
<1>8. ASSUME Timeout
      PROVE  cs'.round <= MaxRound /\ Core(cs') /\ ValidCurrent(cs') /\ CountStep(cs, cs')
  <2> DEFINE y  == [cs EXCEPT !.tocks = Tail(@)]
             ti == Head(cs.tocks)
  <2>1. cs' = HandleTimeout(y, ti) /\ cs'.round <= MaxRound /\ cs.tocks # <<>>
    BY <1>8 DEF Timeout, Becomes
  <2>2. Same(y, cs, {"tocks", "armed"}) /\ y.tocks = Tail(cs.tocks) /\ y.armed = cs.armed
    BY <1>1, CoreTypes DEF Same, Fields
  <2>3. cs.tocks \in Seq(Ticks) /\ cs.armed \in BOOLEAN
    BY <1>1 DEF Core, Typed
  <2>4. /\ ti \in Ticks /\ 1 \in DOMAIN cs.tocks /\ ti = cs.tocks[1]
        /\ Tail(cs.tocks) \in Seq(Ticks)
        /\ \A i \in DOMAIN Tail(cs.tocks) : i + 1 \in DOMAIN cs.tocks /\ Tail(cs.tocks)[i] = cs.tocks[i + 1]
    BY <2>1, <2>3, SMT
  <2> HIDE DEF y, ti
  <2>5. /\ Core(y) /\ ValidCurrent(y) /\ y.counted = cs.counted
        /\ y.height = cs.height /\ y.round = cs.round
    <3>1. \A i \in DOMAIN y.tocks : y.tocks[i] = cs.ti \/ \E j \in DOMAIN cs.tocks : y.tocks[i] = cs.tocks[j]
      BY <2>2, <2>4
    <3>2. y.tocks \in Seq(Ticks) /\ y.armed \in BOOLEAN
      BY <2>2, <2>3, <2>4
    <3> QED BY <1>1, <2>2, <3>1, <3>2, TocksCore
  <2>6. ti.height = y.height => ti.round <= y.round
    BY <1>1, <2>4, <2>5 DEF Core, TickInv, TickOk
  <2>7. Core(cs') /\ ValidCurrent(cs') /\ cs'.counted = y.counted
    BY <2>1, <2>4, <2>5, <2>6, HandleTimeoutCore
  <2> QED BY <2>1, <2>5, <2>7 DEF CountStep
<1>9. ASSUME TxsAvailable
      PROVE  cs'.round <= MaxRound /\ Core(cs') /\ ValidCurrent(cs') /\ CountStep(cs, cs')
  <2>1. cs' = HandleTxsAvailable(cs) /\ cs'.round <= MaxRound
    BY <1>9 DEF TxsAvailable, Becomes
  <2>2. Core(cs') /\ ValidCurrent(cs') /\ cs'.counted = cs.counted
    BY <1>1, <2>1, HandleTxsAvailableCore
  <2> QED BY <2>1, <2>2 DEF CountStep
<1> QED BY <1>2, <1>3, <1>4, <1>5, <1>6, <1>7, <1>8, <1>9 DEF Next

ConsensusInv == Inv(cs) /\ cs.round <= MaxRound

\* The inductive invariant: every function that cmt_cs_step runs, on any message,
\* timeout or notice of transactions, keeps what Inv says of the round state, the
\* votes, the signed votes, the internal queue and the ticker.
THEOREM InvariantHolds == Spec => []ConsensusInv
<1>1. Init => ConsensusInv
  BY InitInv DEF ConsensusInv
<1>2. ASSUME ConsensusInv, [Next]_cs PROVE ConsensusInv'
  <2>1. CASE Next
    BY <1>2, <2>1, NextInv DEF ConsensusInv
  <2>2. CASE UNCHANGED cs
    BY <1>2, <2>2 DEF ConsensusInv
  <2> QED BY <1>2, <2>1, <2>2
<1> QED BY <1>1, <1>2, PTL DEF Spec

\* The private validator is never asked for a vote it must refuse: a vote that
\* cmt_cs_sign_add_vote asks for is later than all that were signed before.
THEOREM SignerAlwaysSigns == Spec => []SignerNeverRefuses
<1>1. ConsensusInv => SignerNeverRefuses
  BY DEF ConsensusInv, Inv, Core, SignedInv, SignedOk, SignerNeverRefuses
<1> QED BY <1>1, InvariantHolds, PTL

LEMMA HeightVotesTyped ==
    ASSUME NEW s, Core(s), s.round <= MaxRound
    PROVE  IsHeightVotes(s.votes)
<1> DEFINE hvs == s.votes
<1>1. VotesOk(hvs, s.round) /\ s.round \in Nat
  BY CoreTypes DEF Core, VotesInv
<1> SUFFICES IsHeightVotes(hvs)
  OBVIOUS
<1> HIDE DEF hvs
<1>2. hvs.round \in TrackedRounds
  BY <1>1, MaxRoundAssumption, SMT DEF VotesOk, TrackedRounds
<1>3. DOMAIN hvs.sets \subseteq TrackedRounds
  <2>1. \A r \in DOMAIN hvs.sets : r \in Int /\ -1 <= r /\ (r <= MaxRound \/ r <= s.round + 1)
    BY <1>1 DEF VotesOk, HvsOk
  <2> QED BY <1>1, <2>1, MaxRoundAssumption, SMT DEF TrackedRounds
<1>4. ASSUME NEW r \in DOMAIN hvs.sets, NEW t \in VoteTypes PROVE IsVoteSet(hvs.sets[r][t])
  <2>1. WellFormed(hvs.sets[r][t])
    BY <1>1 DEF VotesOk, HvsOk, Sound
  <2> QED BY <2>1, WellFormedIsVoteSet
<1>5. hvs.catchup \in [Peers -> SUBSET Rounds]
  BY <1>1 DEF VotesOk, HvsOk
<1> QED BY <1>2, <1>3, <1>4, <1>5 DEF IsHeightVotes

\* A lock stands for a precommit of the node on a polka that it still holds, and
\* the node would propose the locked block or one with a later polka
\* (cmt_cs_enter_precommit and cs_add_vote_prevote, which set and release it).
THEOREM LocksAreBacked == Spec => []LockBacked
<1> SUFFICES ASSUME ConsensusInv PROVE LockBacked
  BY InvariantHolds, PTL
<1>1. Core(cs) /\ cs.round <= MaxRound
  BY DEF ConsensusInv, Inv
<1>2. /\ LockOk(cs.votes, cs.signed, cs.height, cs.round, cs.locked_round, cs.locked_block,
                cs.valid_round, cs.valid_block)
      /\ ValidOk(cs.votes, cs.round, cs.valid_round, cs.valid_block)
  BY <1>1 DEF Core, LockInv, ValidInv
<1>3. TypeOK
  <2>1. IsHeightVotes(cs.votes)
    BY <1>1, HeightVotesTyped
  <2>2. cs.height \in Heights /\ cs.round \in Nat /\ cs.step \in 1..8
    BY <1>1, CoreTypes
  <2>3. /\ cs.block \in Hashes \cup {None} /\ cs.commit_round \in -1..MaxRound
        /\ {cs.parts, cs.locked_parts, cs.valid_parts}
              \subseteq [slot : Slots, header : Headers, complete : BOOLEAN] \cup {None}
    BY <1>1 DEF Core, Typed, PartsTyped, Parts
  <2>4. cs.round \in Rounds /\ cs.locked_round \in -1..MaxRound /\ cs.valid_round \in -1..MaxRound
    BY <1>1, <1>2, <2>2, MaxRoundAssumption, SMT DEF LockOk, ValidOk, Rounds
  <2>5. cs.locked_block \in Hashes \cup {None} /\ cs.valid_block \in Hashes \cup {None}
    BY <1>2 DEF LockOk, ValidOk
  <2> QED BY <2>1, <2>2, <2>3, <2>4, <2>5 DEF TypeOK, Heights, StepNewHeight, StepCommit
<1>4. cs.locked_round = -1 <=> cs.locked_block = None
  BY <1>2 DEF LockOk
<1>5. ASSUME cs.locked_block # None
      PROVE  LET polka == Maj23(cs.votes, cs.locked_round, "prevote")
             IN  /\ HashesTo(cs.locked_block, polka)
                 /\ [height |-> cs.height, round |-> cs.locked_round, type |-> "precommit",
                     block |-> polka] \in cs.signed
                 /\ \E v \in cs.signed :
                       /\ v.height = cs.height /\ v.type = "precommit"
                       /\ HashesTo(cs.locked_block, v.block) /\ v.round <= cs.locked_round
                       /\ cs.valid_block = cs.locked_block \/ v.round < cs.valid_round
  <2>1. /\ HashesTo(cs.locked_block, Maj23(cs.votes, cs.locked_round, "prevote"))
        /\ Precommitted(cs.signed, cs.height, cs.locked_round,
                        Maj23(cs.votes, cs.locked_round, "prevote"))
    BY <1>2, <1>5 DEF LockOk
  <2>2. PICK q \in 0..cs.locked_round, b \in Blocks :
              /\ Precommitted(cs.signed, cs.height, q, b) /\ b.hash = cs.locked_block
              /\ cs.valid_block = cs.locked_block \/ q < cs.valid_round
    BY <1>2, <1>5 DEF LockOk
  <2> DEFINE v == [height |-> cs.height, round |-> q, type |-> "precommit", block |-> b]
  <2>3. v \in cs.signed
    BY <2>2 DEF Precommitted
  <2>4. v.height = cs.height /\ v.type = "precommit" /\ v.block = b /\ v.round = q /\ q <= cs.locked_round
    BY SMT
  <2>5. HashesTo(cs.locked_block, b)
    BY <2>2 DEF HashesTo
  <2> HIDE DEF v
  <2> QED BY <2>1, <2>2, <2>3, <2>4, <2>5 DEF Precommitted
<1> QED BY <1>3, <1>4, <1>5 DEF LockBacked

\* A block that the node precommitted stays locked until a later round has a polka
\* for something else, whatever arrives in between.
THEOREM LocksAreKept == Spec => []LockKept
<1>1. ConsensusInv => LockKept
  <2> SUFFICES ASSUME ConsensusInv,
                      NEW v \in cs.signed, v.height = cs.height, v.type = "precommit", v.block \in Blocks
               PROVE  \/ HashesTo(cs.locked_block, v.block) /\ cs.locked_round >= v.round
                      \/ \E r \in v.round + 1..cs.round :
                            /\ Maj23(cs.votes, r, "prevote") # None
                            /\ ~HashesTo(v.block.hash, Maj23(cs.votes, r, "prevote"))
    BY DEF LockKept
  <2>1. Core(cs)
    BY DEF ConsensusInv, Inv
  <2> DEFINE R == v.round
             b == v.block
  <2>2. R \in Nat /\ b \in Blocks /\ Precommitted(cs.signed, cs.height, R, b)
    <3>1. v \in SignedVotes
      BY <2>1 DEF Core, Typed
    <3>2. v = [height |-> cs.height, round |-> v.round, type |-> "precommit", block |-> v.block]
      BY <3>1 DEF SignedVotes
    <3> QED BY <3>1, <3>2 DEF SignedVotes, Precommitted
  <2>3. KeptOk(cs.votes, cs.signed, cs.height, cs.round, cs.locked_round, cs.locked_block)
    BY <2>1 DEF Core, KeptInv
  <2> HIDE DEF R, b
  <2>4. (HashesTo(cs.locked_block, b) /\ cs.locked_round >= R) \/ Overtakes(cs.votes, R, cs.round, b)
    BY <2>2, <2>3 DEF KeptOk, HashesTo
  <2> QED BY <2>4 DEF Overtakes, R, b
<1> QED BY <1>1, InvariantHolds, PTL

\* The valid block had a polka in the valid round; and the part set beside the
\* locked, the valid and, until the commit, the proposal block is one that the node
\* decoded the block from, or that +2/3 prevoted with it: also after a part set that
\* does not decode, one too large, and a polka that names a second part set of the
\* block (cmt_cs_add_proposal_block_part, cmt_cs_enter_precommit, cs_add_vote_prevote).
THEOREM BlocksAreBacked == Spec => []BlocksBacked
<1>1. ConsensusInv => BlocksBacked
  <2> SUFFICES ASSUME ConsensusInv PROVE BlocksBacked
    OBVIOUS
  <2>1. Core(cs) /\ ValidInv(cs) /\ BlockInv(cs)
    BY DEF ConsensusInv, Inv, Core
  <2>2. ASSUME NEW block, NEW parts, PairOk(cs.votes, cs.round, block, parts)
        PROVE  Paired(block, parts)
    <3>1. \A q \in 0..cs.round : q \in Rounds
      BY <2>1, CoreTypes, MaxRoundAssumption, SMT DEF ConsensusInv, Rounds
    <3> QED BY <2>2, <3>1 DEF PairOk, Paired
  <2>3. cs.step < StepCommit => PairOk(cs.votes, cs.round, cs.block, cs.parts)
    <3>1. cs.step < StepCommit => cs.step # StepCommit
      BY <2>1, CoreTypes, SMT DEF StepCommit
    <3> QED BY <2>1, <3>1 DEF BlockInv, HeldInv, HeldOk
  <2> QED BY <2>1, <2>2, <2>3 DEF ValidInv, ValidOk, BlockInv, LockedPair, ValidPair, BlocksBacked
<1> QED BY <1>1, InvariantHolds, PTL

\* The node decides one block, on a quorum of counted precommits of one round, and
\* keeps the commit for it (cmt_cs_enter_commit to cmt_cs_update_to_state).
THEOREM DecisionsAreBacked == Spec => []DecisionBacked
<1>1. ConsensusInv => DecisionBacked
  <2> SUFFICES ASSUME ConsensusInv PROVE DecisionBacked
    OBVIOUS
  <2>1. Core(cs)
    BY DEF ConsensusInv, Inv
  <2>2. DecisionOk(cs.last_commit, cs.decided, cs.counted, cs.height)
    BY <2>1 DEF Core, DecisionInv
  <2>3. cs.height = StartHeight \/ cs.height > StartHeight
    BY <2>1, CoreTypes, SMT DEF Heights
  <2>4. CASE cs.height = StartHeight
    <3>1. cs.decided = {} /\ ~(cs.height > StartHeight)
      BY <2>1, <2>2, <2>4, CoreTypes DEF DecisionOk
    <3> QED BY <2>2, <3>1 DEF DecisionOk, DecisionBacked, HasTwoThirdsMajority
  <2>5. CASE cs.height > StartHeight
    <3> DEFINE b == cs.last_commit.set.maj23
    <3>1. cs.decided = {[height |-> StartHeight, block |-> b]} /\ \E r \in Rounds : CommitCounted(cs.counted, r, b)
      BY <2>2, <2>5 DEF DecisionOk
    <3>2. cs.height > InitialHeight => cs.last_commit # None /\ HasTwoThirdsMajority(cs.last_commit.set)
      BY <2>2 DEF DecisionOk, HasTwoThirdsMajority
    <3> HIDE DEF b
    <3>3. \E r \in Rounds : Voting!CommitQuorum(r, b)
      BY <3>1 DEF CommitCounted, Voting!CommitQuorum
    <3>4. ASSUME NEW d \in cs.decided
          PROVE  /\ d.height = StartHeight /\ \E r \in Rounds : Voting!CommitQuorum(r, d.block)
                 /\ \A e \in cs.decided : e.height = d.height => e = d
      BY <3>1, <3>3, SMT
    <3>5. [height |-> StartHeight, block |-> cs.last_commit.set.maj23] \in cs.decided
      BY <3>1 DEF b
    <3> QED BY <3>2, <3>4, <3>5 DEF DecisionBacked
  <2> QED BY <2>3, <2>4, <2>5
<1> QED BY <1>1, InvariantHolds, PTL

\* Two counted votes of one validator for one step have been reported to the
\* evidence pool (cmt_cs_try_add_vote, also when the second is the one tallied).
THEOREM EquivocationsAreReported == Spec => []EquivocationReported
<1>1. ConsensusInv => EquivocationReported
  <2> SUFFICES ASSUME ConsensusInv, NEW t \in VoteTypes, NEW v \in cs.counted[t], NEW w \in cs.counted[t],
                      v[1] = w[1], v[1] # Self, v[2] = w[2], v # w
               PROVE  [val |-> v[1], type |-> t, round |-> v[2]] \in cs.reported
    BY DEF EquivocationReported
  <2>1. EvidenceOk(cs.votes, cs.counted, cs.reported, cs.height)
    BY DEF ConsensusInv, Inv, Core, EvidenceInv
  <2>2. cs.counted[t] \subseteq Validators \X Rounds \X Values
    BY DEF ConsensusInv, Inv, Core, Typed
  <2>3. PICK i \in Validators, r \in Rounds, b \in Values : v = <<i, r, b>>
    BY <2>2, SMT
  <2>4. PICK c \in Values : w = <<i, r, c>>
    BY <2>2, <2>3, SMT
  <2>5. b # c /\ i \in Validators \ {Self} /\ v[1] = i /\ v[2] = r
    BY <2>3, <2>4
  <2>6. Reported(cs.reported, i, t, r)
    BY <2>1, <2>3, <2>4, <2>5 DEF EvidenceOk
  <2> QED BY <2>5, <2>6 DEF Reported
<1> QED BY <1>1, InvariantHolds, PTL

-----------------------------------------------------------------------------
(* The node implements CmtVoting's rules.                                  *)

\* What the node knows of a majority of prevotes is a polka among the counted votes.
LEMMA MajorityIsPolka ==
    ASSUME Core(cs), cs.height = StartHeight, NEW r \in Int, NEW b \in Values,
           Maj23(cs.votes, r, "prevote") = b
    PROVE  r \in Rounds /\ Voting!Polka(r, b)
<1> DEFINE t == "prevote"
<1>1. t \in VoteTypes /\ Maj23(cs.votes, r, t) = b
  BY DEF VoteTypes
<1>2. \A q : Voting!Polka(q, b) <=> \E Q \in HeightQuorums : \A i \in Q : <<i, q, b>> \in cs.counted[t]
  BY DEF Voting!Polka
<1> HIDE DEF t
<1>3. r \in Rounds /\ \E Q \in HeightQuorums : \A i \in Q : <<i, r, b>> \in cs.counted[t]
  BY <1>1, MajorityCounted
<1> QED BY <1>2, <1>3

\* The node's own vote is in its turn: none of the round's step or later is out.
LEMMA OwnTurn ==
    ASSUME NEW R \in Rounds, NEW T \in VoteTypes,
           \A t \in VoteTypes : \A r \in Rounds : \A b \in Values :
              <<Self, r, b>> \in cs.counted[t] => VoteRank(t, r) < VoteRank(T, R)
    PROVE  /\ ~Voting!Passed(Self, R)
           /\ ~Voting!HasPrecommitted(Self, R)
           /\ T = "prevote" => ~Voting!HasPrevoted(Self, R)
<1>1. \A r \in Rounds : r \in Nat
  BY MaxRoundAssumption, SMT DEF Rounds
<1>2. "prevote" \in VoteTypes /\ "precommit" \in VoteTypes
  BY DEF VoteTypes
<1>3. \A r \in Rounds : \A b \in Values :
         /\ <<Self, r, b>> \in cs.counted["prevote"] => r <= R /\ (T = "prevote" => r # R)
         /\ <<Self, r, b>> \in cs.counted["precommit"] => r < R
  <2> SUFFICES ASSUME NEW r \in Rounds, NEW b \in Values
               PROVE  /\ <<Self, r, b>> \in cs.counted["prevote"] => r <= R /\ (T = "prevote" => r # R)
                      /\ <<Self, r, b>> \in cs.counted["precommit"] => r < R
    OBVIOUS
  <2>1. /\ <<Self, r, b>> \in cs.counted["prevote"] => VoteRank("prevote", r) < VoteRank(T, R)
        /\ <<Self, r, b>> \in cs.counted["precommit"] => VoteRank("precommit", r) < VoteRank(T, R)
    BY <1>2
  <2>2. r \in Nat /\ R \in Nat
    BY <1>1
  <2> QED BY <2>1, <2>2, SMT DEF VoteRank
<1>4. ~Voting!Passed(Self, R)
  <2> SUFFICES ASSUME Voting!Passed(Self, R) PROVE FALSE
    OBVIOUS
  <2>1. PICK q \in Rounds : \E b \in Values :
             q > R /\ (<<Self, q, b>> \in cs.counted["prevote"] \/ <<Self, q, b>> \in cs.counted["precommit"])
    BY DEF Voting!Passed, Voting!Values, Values
  <2>2. q <= R \/ q < R
    BY <1>3, <2>1
  <2> QED BY <1>1, <2>1, <2>2, SMT
<1>5. ~Voting!HasPrecommitted(Self, R)
  <2> SUFFICES ASSUME NEW b \in Values, <<Self, R, b>> \in cs.counted["precommit"] PROVE FALSE
    BY DEF Voting!HasPrecommitted, Voting!Values, Values
  <2>1. R < R
    BY <1>3
  <2> QED BY <1>1, <2>1, SMT
<1>6. T = "prevote" => ~Voting!HasPrevoted(Self, R)
  BY <1>3 DEF Voting!HasPrevoted, Voting!Values, Values
<1> QED BY <1>4, <1>5, <1>6

\* A vote that enters a tally is a step of CmtVoting.
LEMMA CountedVoteFollows ==
    ASSUME Core(cs), NEW v \in NewVotes, Counts(cs, cs', v)
    PROVE  [Voting!Next]_(Voting!vars)
<1> DEFINE R == v.round
           b == v.block
<1>1. /\ v.val \in Validators /\ v.type \in VoteTypes /\ R \in Rounds /\ b \in Values
      /\ v = [val |-> v.val, type |-> v.type, round |-> R, block |-> b]
  BY DEF NewVotes
<1>2. cs.height = StartHeight /\ cs'.counted = [cs.counted EXCEPT ![v.type] = @ \cup {<<v.val, R, b>>}]
  BY DEF Counts
<1>3. cs.counted \in [VoteTypes -> SUBSET (Validators \X Rounds \X Values)]
  BY DEF Core, Typed
<1>4. /\ v.type = "prevote" => /\ cs'.counted["prevote"] = cs.counted["prevote"] \cup {<<v.val, R, b>>}
                               /\ cs'.counted["precommit"] = cs.counted["precommit"]
      /\ v.type = "precommit" => /\ cs'.counted["precommit"] = cs.counted["precommit"] \cup {<<v.val, R, b>>}
                                 /\ cs'.counted["prevote"] = cs.counted["prevote"]
  BY <1>1, <1>2, <1>3 DEF VoteTypes
<1>5. v.type = "prevote" \/ v.type = "precommit"
  BY <1>1 DEF VoteTypes
<1>6. v.val = Self =>
         /\ [height |-> StartHeight, round |-> R, type |-> v.type, block |-> b] \in cs.signed
         /\ \A t \in VoteTypes : \A r \in Rounds : \A c \in Values :
               <<Self, r, c>> \in cs.counted[t] => VoteRank(t, r) < VoteRank(v.type, R)
  BY DEF Counts
<1> HIDE DEF R, b
<1>7. CASE v.val # Self
  <2>1. CASE <<v.val, R, b>> \in cs.counted[v.type]
    <3>1. cs'.counted["prevote"] = cs.counted["prevote"] /\ cs'.counted["precommit"] = cs.counted["precommit"]
      BY <1>4, <1>5, <2>1
    <3> QED BY <3>1 DEF Voting!vars
  <2>2. CASE <<v.val, R, b>> \notin cs.counted[v.type]
    <3>1. Voting!FaultyVote(v.val, R, b)
      BY <1>4, <1>5, <2>2 DEF Voting!FaultyVote
    <3> QED BY <1>1, <1>7, <3>1 DEF Voting!Next, Voting!Values, Values
  <2> QED BY <2>1, <2>2
<1>8. CASE v.val = Self
  <2>1. /\ ~Voting!Passed(Self, R)
        /\ ~Voting!HasPrecommitted(Self, R)
        /\ v.type = "prevote" => ~Voting!HasPrevoted(Self, R)
    <3> DEFINE T == v.type
    <3> HIDE DEF T
    <3> SUFFICES /\ ~Voting!Passed(Self, R)
                 /\ ~Voting!HasPrecommitted(Self, R)
                 /\ T = "prevote" => ~Voting!HasPrevoted(Self, R)
      BY DEF T
    <3>1. T \in VoteTypes /\ \A t \in VoteTypes : \A r \in Rounds : \A c \in Values :
               <<Self, r, c>> \in cs.counted[t] => VoteRank(t, r) < VoteRank(T, R)
      BY <1>1, <1>6, <1>8 DEF T
    <3> QED BY <1>1, <3>1, OwnTurn
  <2>2. RulesOk(cs.votes, cs.signed, StartHeight) /\ OwnOk(cs.counted, cs.signed, cs.queue)
    BY <1>2 DEF Core, RulesInv, OwnInv
  <2>3. R \in Nat
    BY <1>1, MaxRoundAssumption, SMT DEF Rounds
  <2>4. CASE v.type = "prevote"
    <3>1. Voting!Unlocked(Self, R, b)
      <4>0. \A d \in Blocks : \A u : Voting!SameBlock(d, u) <=> HashesTo(d.hash, u)
        BY DEF Voting!SameBlock, HashesTo
      <4> SUFFICES ASSUME NEW q \in Rounds, NEW c \in Blocks, q < R, ~Voting!SameBlock(c, b),
                          <<Self, q, c>> \in cs.counted["precommit"]
                   PROVE  \E r \in Rounds : \E w \in Values :
                             q < r /\ r <= R /\ ~Voting!SameBlock(c, w) /\ Voting!Polka(r, w)
        BY DEF Voting!Unlocked, Voting!Values, Values
      <4>1. q \in Nat /\ c \in Values
        BY MaxRoundAssumption, SMT DEF Rounds, Values
      <4>2. Precommitted(cs.signed, StartHeight, q, c)
        BY <2>2, <4>1 DEF OwnOk, Precommitted, VoteTypes
      <4> DEFINE w == [height |-> StartHeight, round |-> R, type |-> "prevote", block |-> b]
      <4>3. w \in cs.signed /\ w.height = StartHeight /\ w.type = "prevote" /\ w.round = R /\ w.block = b
        BY <1>6, <1>8, <2>4
      <4> HIDE DEF w
      <4>4. Overtakes(cs.votes, q, R, c)
        BY <2>2, <4>0, <4>1, <4>2, <4>3 DEF RulesOk
      <4>5. PICK r \in (q + 1)..R : /\ Maj23(cs.votes, r, "prevote") # None
                                    /\ ~HashesTo(c.hash, Maj23(cs.votes, r, "prevote"))
        BY <4>4 DEF Overtakes
      <4> DEFINE m == Maj23(cs.votes, r, "prevote")
      <4>6. m \in Values
        <5>1. Sound(VotesOf(cs.votes, r, "prevote"))
          BY VotesOfSound DEF Core, VotesInv, VotesOk, VoteTypes
        <5> QED BY <4>5, <5>1 DEF Maj23, Sound, WellFormed
      <4>7. r \in Int /\ q < r /\ r <= R
        BY <2>3, <4>1, SMT
      <4>8. ~Voting!SameBlock(c, m) /\ m = Maj23(cs.votes, r, "prevote")
        BY <4>0, <4>5
      <4> HIDE DEF m
      <4>9. r \in Rounds /\ Voting!Polka(r, m)
        BY <1>2, <4>6, <4>7, <4>8, MajorityIsPolka
      <4> QED BY <4>6, <4>7, <4>8, <4>9
    <3>2. Voting!Prevote(Self, R, b)
      BY <1>4, <1>8, <2>1, <2>4, <3>1 DEF Voting!Prevote
    <3> QED BY <1>1, <3>2 DEF Voting!Next, Voting!Values, Values
  <2>5. CASE v.type = "precommit"
    <3>1. b \in Blocks => Voting!Polka(R, b)
      <4> SUFFICES ASSUME b \in Blocks PROVE Voting!Polka(R, b)
        OBVIOUS
      <4>1. Precommitted(cs.signed, StartHeight, R, b)
        BY <1>6, <1>8, <2>5 DEF Precommitted
      <4>2. Maj23(cs.votes, R, "prevote") = b
        BY <2>2, <2>3, <4>1 DEF RulesOk
      <4> QED BY <1>1, <1>2, <2>3, <4>2, MajorityIsPolka, SMT
    <3>2. Voting!Precommit(Self, R, b)
      BY <1>4, <1>8, <2>1, <2>5, <3>1 DEF Voting!Precommit
    <3> QED BY <1>1, <3>2 DEF Voting!Next, Voting!Values, Values
  <2> QED BY <1>5, <2>4, <2>5
<1> QED BY <1>7, <1>8

\* The node lets its votes out as CmtVoting's rules demand: in order, one per round
\* and step; a precommit for a block on a polka; and a prevote against an earlier
\* precommit only after a polka for something else.  CmtVoting's Agreement is proved
\* of those rules.
THEOREM RulesAreFollowed == Spec => FollowsTheRules
<1>1. Init => Voting!Init
  BY InitInv DEF Voting!Init, VoteTypes
<1>2. ConsensusInv /\ [Next]_cs => [Voting!Next]_(Voting!vars)
  <2> SUFFICES ASSUME ConsensusInv, [Next]_cs PROVE [Voting!Next]_(Voting!vars)
    OBVIOUS
  <2>1. CASE UNCHANGED cs
    BY <2>1 DEF Voting!vars
  <2>2. CASE Next
    <3>1. Core(cs) /\ CountStep(cs, cs')
      BY <2>2, NextInv DEF ConsensusInv, Inv
    <3>2. CASE cs'.counted = cs.counted
      BY <3>2 DEF Voting!vars
    <3>3. CASE \E v \in NewVotes : Counts(cs, cs', v)
      BY <3>1, <3>3, CountedVoteFollows
    <3> QED BY <3>1, <3>2, <3>3 DEF CountStep
  <2> QED BY <2>1, <2>2
<1> QED BY <1>1, <1>2, InvariantHolds, PTL DEF Spec, FollowsTheRules, Voting!Spec
=============================================================================
