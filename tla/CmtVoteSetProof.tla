-------------------------- MODULE CmtVoteSetProof ---------------------------
(***************************************************************************)
(* Lemmas about the functions of CmtVoteSet and CmtHeightVotes, for every  *)
(* validator set, every assignment of power, every set of blocks and of    *)
(* peers: what add_vote and set_peer_maj23 keep true of a vote set and of  *)
(* the votes of a height, and what they never undo.                        *)
(***************************************************************************)
EXTENDS CmtHeightVotes, TLAPS

\* Zenon is the prover where a leaf names none.
USE Zenon

-----------------------------------------------------------------------------
(* The power of a set of validators.                                       *)

LEMMA WeightNat ==
    ASSUME NEW S \in SUBSET Validators
    PROVE  Weight(S) \in Nat
  BY WeightAssumption

LEMMA WeightDisjoint ==
    ASSUME NEW S \in SUBSET Validators, NEW R \in SUBSET Validators, S \cap R = {}
    PROVE  Weight(S \cup R) = Weight(S) + Weight(R)
  BY WeightAssumption

LEMMA WeightOfNobody == Weight({}) = 0
<1> DEFINE w == Weight({})
<1>1. w = w + w
  <2>1. Weight({} \cup {}) = Weight({}) + Weight({})
    BY WeightDisjoint
  <2>2. {} \cup {} = {}
    OBVIOUS
  <2> QED BY <2>1, <2>2
<1>2. w \in Nat
  BY WeightNat
<1> HIDE DEF w
<1>3. w = 0
  BY <1>1, <1>2, SMT
<1> QED BY <1>3 DEF w

LEMMA WeightAdd ==
    ASSUME NEW S \in SUBSET Validators, NEW i \in Validators, i \notin S
    PROVE  Weight(S \cup {i}) = Weight(S) + Power[i]
<1>1. Weight(S \cup {i}) = Weight(S) + Weight({i})
  BY WeightDisjoint
<1> QED BY <1>1, WeightAssumption

LEMMA WeightMonotone ==
    ASSUME NEW S \in SUBSET Validators, NEW R \in SUBSET S
    PROVE  Weight(R) <= Weight(S)
<1>1. Weight((S \ R) \cup R) = Weight(S \ R) + Weight(R)
  BY WeightDisjoint
<1>2. (S \ R) \cup R = S
  OBVIOUS
<1>3. Weight(S \ R) \in Nat /\ Weight(R) \in Nat /\ Weight(S) \in Nat
  BY WeightNat
<1> QED BY <1>1, <1>2, <1>3, SMT

LEMMA QuorumNat == TotalPower \in Nat /\ Quorum \in Nat
<1>1. TotalPower \in Nat
  BY WeightNat DEF TotalPower
<1> QED BY <1>1, SMT DEF Quorum

\* Two quorums have a common member.
LEMMA QuorumsMeet ==
    ASSUME NEW S \in SUBSET Validators, NEW R \in SUBSET Validators,
           Weight(S) >= Quorum, Weight(R) >= Quorum
    PROVE  S \cap R # {}
<1> SUFFICES ASSUME S \cap R = {} PROVE FALSE
  OBVIOUS
<1>1. Weight(S \cup R) = Weight(S) + Weight(R)
  BY WeightDisjoint
<1>2. Weight(S \cup R) <= TotalPower
  BY WeightMonotone DEF TotalPower
<1>3. Weight(S) \in Nat /\ Weight(R) \in Nat /\ Weight(S \cup R) \in Nat
  BY WeightNat
<1> QED BY <1>1, <1>2, <1>3, QuorumNat, SMT DEF Quorum

-----------------------------------------------------------------------------
(* What a vote set is, field by field.                                     *)

WellFormed(vs) ==
    /\ vs = [votes |-> vs.votes, sum |-> vs.sum, has_maj23 |-> vs.has_maj23, maj23 |-> vs.maj23,
             votes_by_block |-> vs.votes_by_block, peer_maj23s |-> vs.peer_maj23s]
    /\ vs.votes \in [Validators -> Values \cup {None}]
    /\ vs.sum \in Nat
    /\ vs.has_maj23 \in BOOLEAN
    /\ vs.maj23 \in Values \cup {None}
    /\ vs.has_maj23 <=> vs.maj23 # None
    /\ DOMAIN vs.votes_by_block \subseteq Values
    /\ vs.votes_by_block \in [DOMAIN vs.votes_by_block -> BlockVotes]
    /\ vs.peer_maj23s \in [Peers -> Values \cup {None}]

\* The tally of b, empty when b is not tracked.
TallyOf(vs, b) == IF Tracks(vs, b) THEN vs.votes_by_block[b] ELSE NewBlockVotes(FALSE)

\* The vote of i makes b the majority.
Crosses(vs, i, b) ==
    ~vs.has_maj23 /\ TallyOf(vs, b).sum < Quorum /\ Quorum <= TallyOf(vs, b).sum + Power[i]

\* The canonical vote of i becomes b.
Replaces(vs, i, b) == vs.votes[i] = None \/ (vs.has_maj23 /\ vs.maj23 = b)

LEMMA NewVoteSetWellFormed == WellFormed(NewVoteSet)
  BY NoneAssumption DEF WellFormed, NewVoteSet, Values

LEMMA WellFormedIsVoteSet ==
    ASSUME NEW vs, WellFormed(vs)
    PROVE  IsVoteSet(vs)
<1>1. DOMAIN vs = {"votes", "sum", "has_maj23", "maj23", "votes_by_block", "peer_maj23s"}
  BY DEF WellFormed
<1>2. vs.maj23 \in IF vs.has_maj23 THEN Values ELSE {None}
  BY DEF WellFormed
<1> QED BY <1>1, <1>2 DEF WellFormed, IsVoteSet

LEMMA TallyType ==
    ASSUME NEW vs, WellFormed(vs), NEW b
    PROVE  TallyOf(vs, b) \in BlockVotes
  BY DEF WellFormed, TallyOf, Tracks, BlockVotes, NewBlockVotes

\* nv is vs after the vote of i for b entered the tally of b.
VoteTallied(nv, vs, i, b) ==
    LET bv == TallyOf(vs, b)
    IN  /\ WellFormed(nv)
        /\ i \notin bv.votes
        /\ nv.votes_by_block =
              WithBlock(vs, b, [peer_maj23 |-> bv.peer_maj23, votes |-> bv.votes \cup {i},
                                sum |-> bv.sum + Power[i]])
        /\ nv.sum = IF vs.votes[i] = None THEN vs.sum + Power[i] ELSE vs.sum
        /\ nv.peer_maj23s = vs.peer_maj23s
        /\ nv.has_maj23 = (vs.has_maj23 \/ Crosses(vs, i, b))
        /\ nv.maj23 = IF Crosses(vs, i, b) THEN b ELSE vs.maj23
        /\ nv.votes = [j \in Validators |->
              IF \/ Crosses(vs, i, b) /\ j \in bv.votes \cup {i}
                 \/ j = i /\ Replaces(vs, i, b)
              THEN b ELSE vs.votes[j]]

\* nv is vs after the vote of i for b was left out of the tally of b.
VoteRefused(nv, vs, i, b) ==
    /\ WellFormed(nv)
    /\ vs.votes[i] # None
    /\ nv.votes_by_block = vs.votes_by_block
    /\ nv.sum = vs.sum
    /\ nv.peer_maj23s = vs.peer_maj23s
    /\ nv.has_maj23 = vs.has_maj23
    /\ nv.maj23 = vs.maj23
    /\ nv.votes = [j \in Validators |-> IF j = i /\ Replaces(vs, i, b) THEN b ELSE vs.votes[j]]

\* A vote that the set does not hold and that enters the tally of its block.
LEMMA AddTallied ==
    ASSUME NEW vs, WellFormed(vs), NEW i \in Validators, NEW b \in Values,
           ~GetVote(vs, i, b), Tallies(vs, i, b)
    PROVE  VoteTallied(AddVote(vs, i, b), vs, i, b)
<1> DEFINE bv   == TallyOf(vs, b)
           kept == Canonical(vs, i, b)
           add  == BlockVotesAdd(bv, i)
           mid  == [kept EXCEPT !.votes_by_block = WithBlock(vs, b, add)]
           nv   == AddVote(vs, i, b)
<1>0. Power[i] \in Nat /\ b # None
  BY PowerAssumption, NoneAssumption DEF Values
<1>1. bv \in BlockVotes
  BY TallyType
<1>2. i \notin bv.votes
  BY DEF TallyOf, GetVote, NewBlockVotes
<1>3. add = [peer_maj23 |-> bv.peer_maj23, votes |-> bv.votes \cup {i}, sum |-> bv.sum + Power[i]]
  <2> HIDE DEF bv
  <2> QED BY <1>1, <1>2 DEF BlockVotesAdd, BlockVotes
<1>4. add \in BlockVotes
  <2> HIDE DEF bv, add
  <2> QED BY <1>0, <1>1, <1>3, SMT DEF BlockVotes
<1>5. kept = [votes |-> [j \in Validators |-> IF j = i /\ Replaces(vs, i, b) THEN b ELSE vs.votes[j]],
              sum |-> IF vs.votes[i] = None THEN vs.sum + Power[i] ELSE vs.sum,
              has_maj23 |-> vs.has_maj23, maj23 |-> vs.maj23,
              votes_by_block |-> vs.votes_by_block, peer_maj23s |-> vs.peer_maj23s]
  <2>1. CASE vs.votes[i] = None
    BY <2>1 DEF Canonical, Replaces, WellFormed
  <2>2. CASE vs.votes[i] # None /\ vs.has_maj23 /\ vs.maj23 = b
    BY <2>2 DEF Canonical, Replaces, WellFormed
  <2>3. CASE vs.votes[i] # None /\ ~(vs.has_maj23 /\ vs.maj23 = b)
    <3>1. kept = vs
      BY <2>3 DEF Canonical
    <3>2. vs.votes = [j \in Validators |-> IF j = i /\ Replaces(vs, i, b) THEN b ELSE vs.votes[j]]
      BY <2>3 DEF Replaces, WellFormed
    <3> QED BY <2>3, <3>1, <3>2 DEF WellFormed
  <2> QED BY <2>1, <2>2, <2>3
<1>6. mid = [votes |-> kept.votes, sum |-> kept.sum, has_maj23 |-> vs.has_maj23, maj23 |-> vs.maj23,
             votes_by_block |-> WithBlock(vs, b, add), peer_maj23s |-> vs.peer_maj23s]
  <2> HIDE DEF kept, add
  <2> QED BY <1>5, SMT
<1>7. nv = Majority(mid, b, bv.sum)
  BY DEF AddVote, AddVerifiedVote, TallyOf
<1>8. mid.votes_by_block[b] = add
  <2> HIDE DEF kept, add
  <2> QED BY <1>6 DEF WithBlock
<1>9. nv = [votes |-> [j \in Validators |->
                         IF \/ Crosses(vs, i, b) /\ j \in bv.votes \cup {i}
                            \/ j = i /\ Replaces(vs, i, b)
                         THEN b ELSE vs.votes[j]],
            sum |-> kept.sum,
            has_maj23 |-> (vs.has_maj23 \/ Crosses(vs, i, b)),
            maj23 |-> IF Crosses(vs, i, b) THEN b ELSE vs.maj23,
            votes_by_block |-> WithBlock(vs, b, add), peer_maj23s |-> vs.peer_maj23s]
  <2>1. CASE Crosses(vs, i, b)
    <3> HIDE DEF kept, add, bv, nv, mid
    <3>1. bv.sum < Quorum /\ Quorum <= add.sum /\ ~mid.has_maj23
      BY <2>1, <1>3, <1>6 DEF Crosses, bv
    <3>2. nv = [mid EXCEPT !.has_maj23 = TRUE, !.maj23 = b,
                           !.votes = [j \in Validators |-> IF j \in add.votes THEN b ELSE @[j]]]
      BY <3>1, <1>7, <1>8 DEF Majority
    <3>3. \A j \in Validators :
             (IF j \in add.votes THEN b ELSE kept.votes[j])
             = IF \/ Crosses(vs, i, b) /\ j \in bv.votes \cup {i}
                  \/ j = i /\ Replaces(vs, i, b)
               THEN b ELSE vs.votes[j]
      BY <2>1, <1>3, <1>5
    <3> QED BY <2>1, <3>2, <3>3, <1>6
  <2>2. CASE ~Crosses(vs, i, b)
    <3> HIDE DEF kept, add, bv, nv, mid
    <3>1. ~(bv.sum < Quorum /\ Quorum <= add.sum /\ ~mid.has_maj23)
      BY <2>2, <1>3, <1>6 DEF Crosses, bv
    <3>2. nv = mid
      BY <3>1, <1>7, <1>8 DEF Majority
    <3>3. vs.has_maj23 = (vs.has_maj23 \/ Crosses(vs, i, b))
      BY <2>2 DEF WellFormed
    <3> QED BY <2>2, <3>2, <3>3, <1>5, <1>6
  <2> QED BY <2>1, <2>2
<1>10. WellFormed(nv)
  <2> HIDE DEF kept, add, bv, nv, mid
  <2>1. nv.votes \in [Validators -> Values \cup {None}] /\ nv.maj23 \in Values \cup {None}
    BY <1>9 DEF WellFormed
  <2>2. nv.sum \in Nat /\ nv.has_maj23 \in BOOLEAN
    BY <1>0, <1>5, <1>9, SMT DEF WellFormed
  <2>3. nv.has_maj23 <=> nv.maj23 # None
    BY <1>0, <1>9 DEF WellFormed
  <2>4. DOMAIN nv.votes_by_block \subseteq Values
    BY <1>9 DEF WellFormed, WithBlock
  <2>5. nv.votes_by_block \in [DOMAIN nv.votes_by_block -> BlockVotes]
    BY <1>4, <1>9 DEF WellFormed, WithBlock
  <2> QED BY <2>1, <2>2, <2>3, <2>4, <2>5, <1>9 DEF WellFormed
<1> HIDE DEF kept, add, bv, nv, mid
<1>11. nv.sum = IF vs.votes[i] = None THEN vs.sum + Power[i] ELSE vs.sum
  BY <1>5, <1>9
<1> QED BY <1>2, <1>3, <1>9, <1>10, <1>11, SMT DEF bv, nv, VoteTallied

\* A conflicting vote for a block that no peer vouches for: at most it replaces
\* the canonical vote.
LEMMA AddRefused ==
    ASSUME NEW vs, WellFormed(vs), NEW i \in Validators, NEW b \in Values,
           ~GetVote(vs, i, b), ~Tallies(vs, i, b)
    PROVE  VoteRefused(AddVote(vs, i, b), vs, i, b)
<1> DEFINE nv == AddVote(vs, i, b)
<1>1. vs.votes[i] # None
  BY DEF Tallies, Conflicts
<1>2. nv = Canonical(vs, i, b)
  BY DEF AddVote, AddVerifiedVote
<1>3. nv = [votes |-> [j \in Validators |-> IF j = i /\ Replaces(vs, i, b) THEN b ELSE vs.votes[j]],
            sum |-> vs.sum, has_maj23 |-> vs.has_maj23, maj23 |-> vs.maj23,
            votes_by_block |-> vs.votes_by_block, peer_maj23s |-> vs.peer_maj23s]
  <2> HIDE DEF nv
  <2>1. CASE vs.has_maj23 /\ vs.maj23 = b
    BY <1>1, <1>2, <2>1 DEF Canonical, Replaces, WellFormed
  <2>2. CASE ~(vs.has_maj23 /\ vs.maj23 = b)
    <3>1. nv = vs
      BY <1>1, <1>2, <2>2 DEF Canonical
    <3>2. vs.votes = [j \in Validators |-> IF j = i /\ Replaces(vs, i, b) THEN b ELSE vs.votes[j]]
      BY <1>1, <2>2 DEF Replaces, WellFormed
    <3> QED BY <3>1, <3>2 DEF WellFormed
  <2> QED BY <2>1, <2>2
<1> HIDE DEF nv
<1>4. nv.votes \in [Validators -> Values \cup {None}]
  BY <1>3 DEF WellFormed
<1>5. WellFormed(nv)
  BY <1>3, <1>4 DEF WellFormed
<1> QED BY <1>1, <1>3, <1>5, SMT DEF nv, VoteRefused

\* A peer's claim.
LEMMA ClaimHeard ==
    ASSUME NEW vs, WellFormed(vs), NEW p \in Peers, NEW b \in Values, PeerMayClaim(vs, p, b)
    PROVE  LET nv == SetPeerMaj23(vs, p, b)
               bv == TallyOf(vs, b)
           IN  /\ WellFormed(nv)
               /\ nv.votes_by_block =
                     WithBlock(vs, b, [peer_maj23 |-> TRUE, votes |-> bv.votes, sum |-> bv.sum])
               /\ nv.peer_maj23s = [vs.peer_maj23s EXCEPT ![p] = b]
               /\ nv.votes = vs.votes /\ nv.sum = vs.sum
               /\ nv.has_maj23 = vs.has_maj23 /\ nv.maj23 = vs.maj23
<1> DEFINE nv  == SetPeerMaj23(vs, p, b)
           bv  == TallyOf(vs, b)
           new == [peer_maj23 |-> TRUE, votes |-> bv.votes, sum |-> bv.sum]
<1>1. bv \in BlockVotes
  BY TallyType
<1>2. new \in BlockVotes
  <2> HIDE DEF bv
  <2> QED BY <1>1 DEF BlockVotes
<1>3. new = IF Tracks(vs, b) THEN [vs.votes_by_block[b] EXCEPT !.peer_maj23 = TRUE]
                             ELSE NewBlockVotes(TRUE)
  <2>1. CASE Tracks(vs, b)
    <3>1. bv = vs.votes_by_block[b]
      BY <2>1 DEF TallyOf
    <3> HIDE DEF bv
    <3> QED BY <1>1, <2>1, <3>1 DEF BlockVotes
  <2>2. CASE ~Tracks(vs, b)
    BY <2>2 DEF TallyOf, NewBlockVotes
  <2> QED BY <2>1, <2>2
<1>4. nv = [vs EXCEPT !.peer_maj23s[p] = b, !.votes_by_block = WithBlock(vs, b, new)]
  <2> HIDE DEF new
  <2> QED BY <1>3 DEF SetPeerMaj23
<1> HIDE DEF nv, new
<1>5. nv = [votes |-> vs.votes, sum |-> vs.sum, has_maj23 |-> vs.has_maj23, maj23 |-> vs.maj23,
            votes_by_block |-> WithBlock(vs, b, new),
            peer_maj23s |-> [vs.peer_maj23s EXCEPT ![p] = b]]
  BY <1>4 DEF WellFormed
<1>6. DOMAIN nv.votes_by_block \subseteq Values
  BY <1>5 DEF WellFormed, WithBlock
<1>7. nv.votes_by_block \in [DOMAIN nv.votes_by_block -> BlockVotes]
  BY <1>2, <1>5 DEF WellFormed, WithBlock
<1>8. nv.peer_maj23s \in [Peers -> Values \cup {None}]
  BY <1>5 DEF WellFormed
<1>9. WellFormed(nv)
  BY <1>5, <1>6, <1>7, <1>8 DEF WellFormed
<1> QED BY <1>5, <1>9, SMT DEF nv, new

-----------------------------------------------------------------------------
(* What every reachable vote set satisfies.                                *)

Voters(vs) == {i \in Validators : vs.votes[i] # None}

\* The sums are the power of the votes they stand for.
SumsExact(vs) ==
    /\ vs.sum = Weight(Voters(vs))
    /\ \A b \in DOMAIN vs.votes_by_block :
          /\ vs.votes_by_block[b].sum = Weight(vs.votes_by_block[b].votes)
          /\ vs.votes_by_block[b].votes \subseteq Voters(vs)

\* A canonical vote is in the tally of its block, or names the majority.
CanonicalTallied(vs) ==
    \A i \in Voters(vs) : vs.votes[i] = vs.maj23 \/ i \in TallyOf(vs, vs.votes[i]).votes

\* The majority is the block of a quorum whose canonical votes are for it, and
\* without a majority no block has a quorum.
MajorityBacked(vs) ==
    /\ vs.has_maj23 =>
          /\ Tracks(vs, vs.maj23)
          /\ Quorum <= vs.votes_by_block[vs.maj23].sum
          /\ \A i \in vs.votes_by_block[vs.maj23].votes : vs.votes[i] = vs.maj23
    /\ ~vs.has_maj23 => \A b \in DOMAIN vs.votes_by_block : vs.votes_by_block[b].sum < Quorum

\* A block is vouched for when a peer claims it.
ClaimsTracked(vs) ==
    \A b \in Values : (Tracks(vs, b) /\ vs.votes_by_block[b].peer_maj23)
                        <=> \E p \in Peers : vs.peer_maj23s[p] = b

Sound(vs) == /\ WellFormed(vs)
             /\ SumsExact(vs)
             /\ CanonicalTallied(vs)
             /\ MajorityBacked(vs)
             /\ ClaimsTracked(vs)

LEMMA NewVoteSetSound == Sound(NewVoteSet)
<1>1. Voters(NewVoteSet) = {}
  BY DEF Voters, NewVoteSet
<1>2. SumsExact(NewVoteSet)
  BY <1>1, WeightOfNobody DEF SumsExact, NewVoteSet
<1>3. CanonicalTallied(NewVoteSet) /\ MajorityBacked(NewVoteSet)
  BY <1>1 DEF CanonicalTallied, MajorityBacked, NewVoteSet
<1>4. ClaimsTracked(NewVoteSet)
  BY NoneAssumption DEF ClaimsTracked, NewVoteSet, Tracks, Values
<1> QED BY <1>2, <1>3, <1>4, NewVoteSetWellFormed DEF Sound

LEMMA AddTalliedSound ==
    ASSUME NEW vs, Sound(vs), NEW i \in Validators, NEW b \in Values,
           ~GetVote(vs, i, b), Tallies(vs, i, b)
    PROVE  Sound(AddVote(vs, i, b)) /\ Voters(AddVote(vs, i, b)) = Voters(vs) \cup {i}
<1> DEFINE nv  == AddVote(vs, i, b)
           bv  == TallyOf(vs, b)
           add == [peer_maj23 |-> bv.peer_maj23, votes |-> bv.votes \cup {i},
                   sum |-> bv.sum + Power[i]]
           X   == Crosses(vs, i, b)
<1>0. b # None /\ Power[i] \in Nat
  BY NoneAssumption, PowerAssumption DEF Values
<1>1. /\ WellFormed(vs) /\ WellFormed(nv) /\ i \notin bv.votes
      /\ nv.votes_by_block = WithBlock(vs, b, add)
      /\ nv.sum = IF vs.votes[i] = None THEN vs.sum + Power[i] ELSE vs.sum
      /\ nv.peer_maj23s = vs.peer_maj23s
      /\ nv.has_maj23 = (vs.has_maj23 \/ X)
      /\ nv.maj23 = IF X THEN b ELSE vs.maj23
      /\ nv.votes = [j \in Validators |-> IF \/ X /\ j \in bv.votes \cup {i}
                                             \/ j = i /\ Replaces(vs, i, b)
                                          THEN b ELSE vs.votes[j]]
  <2>1. WellFormed(vs)
    BY DEF Sound
  <2>2. VoteTallied(nv, vs, i, b)
    BY <2>1, AddTallied
  <2> HIDE DEF nv
  <2> QED BY <2>1, <2>2 DEF VoteTallied
<1> HIDE DEF nv
<1>2. /\ DOMAIN nv.votes_by_block = DOMAIN vs.votes_by_block \cup {b}
      /\ nv.votes_by_block[b] = add
      /\ \A c \in DOMAIN vs.votes_by_block : c # b =>
            nv.votes_by_block[c] = vs.votes_by_block[c]
      /\ TallyOf(nv, b) = add
      /\ \A c : c # b => TallyOf(nv, c) = TallyOf(vs, c)
  <2> HIDE DEF add, X
  <2>1. nv.votes_by_block = WithBlock(vs, b, add)
    BY <1>1
  <2> QED BY <2>1 DEF WithBlock, TallyOf, Tracks
<1>3. bv \in BlockVotes /\ bv.sum = Weight(bv.votes) /\ bv.votes \subseteq Voters(vs)
  <2>1. bv \in BlockVotes
    BY <1>1, TallyType
  <2>2. CASE Tracks(vs, b)
    BY <2>1, <2>2 DEF Sound, SumsExact, TallyOf, Tracks
  <2>3. CASE ~Tracks(vs, b)
    BY <2>1, <2>3, WeightOfNobody DEF TallyOf, NewBlockVotes
  <2> QED BY <2>2, <2>3
<1> HIDE DEF bv
<1>4. Voters(nv) = Voters(vs) \cup {i}
  <2>1. ASSUME NEW j \in Validators PROVE j \in Voters(nv) <=> j \in Voters(vs) \cup {i}
    <3>1. CASE j = i
      BY <3>1, <1>0, <1>1 DEF Voters, Replaces
    <3>2. CASE j # i
      BY <3>2, <1>0, <1>1, <1>3 DEF Voters
    <3> QED BY <3>1, <3>2
  <2> QED BY <2>1 DEF Voters
<1>5. SumsExact(nv)
  <2>1. nv.sum = Weight(Voters(nv))
    <3>1. CASE vs.votes[i] = None
      <4>1. i \notin Voters(vs) /\ Voters(vs) \in SUBSET Validators
        BY <3>1 DEF Voters
      <4>2. Weight(Voters(vs) \cup {i}) = Weight(Voters(vs)) + Power[i]
        BY <4>1, WeightAdd
      <4> QED BY <1>1, <1>4, <3>1, <4>2 DEF Sound, SumsExact
    <3>2. CASE vs.votes[i] # None
      <4>1. Voters(vs) \cup {i} = Voters(vs)
        BY <3>2 DEF Voters
      <4> QED BY <1>1, <1>4, <3>2, <4>1 DEF Sound, SumsExact
    <3> QED BY <3>1, <3>2
  <2>2. add.sum = Weight(add.votes) /\ add.votes \subseteq Voters(nv)
    <3>1. bv.votes \in SUBSET Validators
      BY <1>3 DEF Voters
    <3>2. Weight(bv.votes \cup {i}) = Weight(bv.votes) + Power[i]
      BY <1>1, <3>1, WeightAdd
    <3> QED BY <1>3, <1>4, <3>2
  <2> HIDE DEF add
  <2>3. ASSUME NEW c \in DOMAIN nv.votes_by_block
        PROVE  /\ nv.votes_by_block[c].sum = Weight(nv.votes_by_block[c].votes)
               /\ nv.votes_by_block[c].votes \subseteq Voters(nv)
    <3>1. CASE c = b
      BY <3>1, <1>2, <2>2
    <3>2. CASE c # b
      BY <3>2, <1>2, <1>4 DEF Sound, SumsExact
    <3> QED BY <3>1, <3>2
  <2> QED BY <2>1, <2>3 DEF SumsExact
<1>6. CanonicalTallied(nv)
  <2> SUFFICES ASSUME NEW j \in Voters(nv)
               PROVE  nv.votes[j] = nv.maj23 \/ j \in TallyOf(nv, nv.votes[j]).votes
    BY DEF CanonicalTallied
  <2>0. j \in Validators
    BY DEF Voters
  <2>1. CASE nv.votes[j] = b
    <3>1. CASE j = i
      BY <2>1, <3>1, <1>2, SMT
    <3>2. CASE j # i /\ X
      BY <2>1, <3>2, <1>1
    <3>3. CASE j # i /\ ~X
      <4>1. vs.votes[j] = b /\ j \in Voters(vs)
        BY <2>0, <2>1, <3>3, <1>0, <1>1 DEF Voters
      <4>2. b = vs.maj23 \/ j \in TallyOf(vs, b).votes
        BY <4>1 DEF Sound, CanonicalTallied
      <4>3. CASE b = vs.maj23
        BY <2>1, <3>3, <4>3, <1>1
      <4>4. CASE j \in TallyOf(vs, b).votes
        BY <2>1, <4>4, <1>2, SMT DEF bv
      <4> QED BY <4>2, <4>3, <4>4
    <3> QED BY <3>1, <3>2, <3>3
  <2>2. CASE nv.votes[j] # b
    <3>1. nv.votes[j] = vs.votes[j] /\ j \in Voters(vs)
      BY <2>0, <2>2, <1>1, <1>4 DEF Replaces, Voters
    <3>2. vs.votes[j] = vs.maj23 \/ j \in TallyOf(vs, vs.votes[j]).votes
      BY <3>1 DEF Sound, CanonicalTallied
    <3>3. CASE j \in TallyOf(vs, vs.votes[j]).votes
      BY <2>2, <3>1, <3>3, <1>2
    <3>4. CASE vs.votes[j] = vs.maj23
      <4>1. vs.has_maj23
        BY <3>1, <3>4, <1>1 DEF Voters, WellFormed
      <4> QED BY <3>1, <3>4, <4>1, <1>1 DEF Crosses
    <3> QED BY <3>2, <3>3, <3>4
  <2> QED BY <2>1, <2>2
<1>7. MajorityBacked(nv)
  <2>1. CASE X
    <3>1. nv.has_maj23 /\ nv.maj23 = b /\ Quorum <= add.sum
      BY <2>1, <1>1 DEF Crosses, bv
    <3>2. \A j \in add.votes : nv.votes[j] = b
      BY <2>1, <1>1, <1>3 DEF Voters
    <3> HIDE DEF add
    <3> QED BY <3>1, <3>2, <1>2 DEF MajorityBacked, Tracks
  <2>2. CASE ~X /\ vs.has_maj23
    <3>0. /\ nv.has_maj23 /\ nv.maj23 = vs.maj23 /\ Tracks(vs, vs.maj23)
          /\ Quorum <= vs.votes_by_block[vs.maj23].sum
          /\ \A j \in vs.votes_by_block[vs.maj23].votes : vs.votes[j] = vs.maj23
      BY <2>2, <1>1 DEF Sound, MajorityBacked
    <3>1. CASE vs.maj23 = b
      <4>1. bv = vs.votes_by_block[b]
        BY <3>0, <3>1 DEF bv, TallyOf
      <4>2. Quorum <= add.sum
        BY <3>0, <3>1, <4>1, <1>0, <1>3, QuorumNat, SMT DEF BlockVotes
      <4>3. \A j \in add.votes : nv.votes[j] = b
        BY <2>2, <3>0, <3>1, <4>1, <1>1, <1>3, SMT DEF Voters, Replaces
      <4> HIDE DEF add
      <4> QED BY <3>0, <3>1, <4>2, <4>3, <1>2 DEF MajorityBacked, Tracks
    <3>2. CASE vs.maj23 # b
      <4>1. nv.votes_by_block[nv.maj23] = vs.votes_by_block[vs.maj23] /\ Tracks(nv, nv.maj23)
        BY <3>0, <3>2, <1>2 DEF Tracks
      <4>2. \A j \in vs.votes_by_block[vs.maj23].votes : nv.votes[j] = vs.votes[j]
        <5> SUFFICES ASSUME NEW j \in vs.votes_by_block[vs.maj23].votes
                     PROVE  nv.votes[j] = vs.votes[j]
          OBVIOUS
        <5>1. j \in Validators /\ vs.votes[j] # None
          BY <3>0 DEF Sound, SumsExact, Voters, Tracks
        <5> QED BY <5>1, <2>2, <3>2, <1>1 DEF Replaces
      <4> QED BY <3>0, <4>1, <4>2 DEF MajorityBacked
    <3> QED BY <3>1, <3>2
  <2>3. CASE ~X /\ ~vs.has_maj23
    <3>1. ~nv.has_maj23
      BY <2>3, <1>1
    <3>2. bv.sum < Quorum
      <4>1. CASE Tracks(vs, b)
        BY <2>3, <4>1 DEF Sound, MajorityBacked, bv, TallyOf, Tracks
      <4>2. CASE ~Tracks(vs, b)
        BY <4>2, QuorumNat, SMT DEF bv, TallyOf, NewBlockVotes, Quorum
      <4> QED BY <4>1, <4>2
    <3>3. add.sum < Quorum
      BY <2>3, <3>2, <1>0, <1>3, QuorumNat, SMT DEF Crosses, bv, BlockVotes
    <3> HIDE DEF add
    <3>4. \A c \in DOMAIN nv.votes_by_block : nv.votes_by_block[c].sum < Quorum
      BY <2>3, <3>3, <1>2 DEF Sound, MajorityBacked
    <3> QED BY <3>1, <3>4 DEF MajorityBacked
  <2> QED BY <2>1, <2>2, <2>3
<1>8. ClaimsTracked(nv)
  <2>0. ClaimsTracked(vs) /\ nv.peer_maj23s = vs.peer_maj23s
    BY <1>1 DEF Sound
  <2> SUFFICES ASSUME NEW c \in Values
               PROVE  (Tracks(nv, c) /\ nv.votes_by_block[c].peer_maj23)
                        <=> (Tracks(vs, c) /\ vs.votes_by_block[c].peer_maj23)
    BY <2>0 DEF ClaimsTracked
  <2>1. CASE c # b
    BY <2>1, <1>2 DEF Tracks
  <2>2. CASE c = b /\ Tracks(vs, b)
    BY <2>2, <1>2, SMT DEF Tracks, bv, TallyOf
  <2>3. CASE c = b /\ ~Tracks(vs, b)
    BY <2>3, <1>2, SMT DEF Tracks, bv, TallyOf, NewBlockVotes
  <2> QED BY <2>1, <2>2, <2>3
<1> QED BY <1>1, <1>4, <1>5, <1>6, <1>7, <1>8 DEF Sound, nv

LEMMA AddRefusedSound ==
    ASSUME NEW vs, Sound(vs), NEW i \in Validators, NEW b \in Values,
           ~GetVote(vs, i, b), ~Tallies(vs, i, b)
    PROVE  Sound(AddVote(vs, i, b)) /\ Voters(AddVote(vs, i, b)) = Voters(vs)
<1> DEFINE nv == AddVote(vs, i, b)
<1>0. b # None
  BY NoneAssumption DEF Values
<1>1. /\ WellFormed(vs) /\ WellFormed(nv) /\ vs.votes[i] # None
      /\ nv.votes_by_block = vs.votes_by_block /\ nv.sum = vs.sum
      /\ nv.peer_maj23s = vs.peer_maj23s
      /\ nv.has_maj23 = vs.has_maj23 /\ nv.maj23 = vs.maj23
      /\ nv.votes = [j \in Validators |-> IF j = i /\ Replaces(vs, i, b) THEN b ELSE vs.votes[j]]
  <2>1. WellFormed(vs)
    BY DEF Sound
  <2>2. VoteRefused(nv, vs, i, b)
    BY <2>1, AddRefused
  <2> HIDE DEF nv
  <2> QED BY <2>1, <2>2 DEF VoteRefused
<1> HIDE DEF nv
<1>2. Voters(nv) = Voters(vs)
  BY <1>0, <1>1 DEF Voters
<1>3. SumsExact(nv)
  BY <1>1, <1>2 DEF Sound, SumsExact
<1>4. CanonicalTallied(nv)
  <2> SUFFICES ASSUME NEW j \in Voters(nv)
               PROVE  nv.votes[j] = nv.maj23 \/ j \in TallyOf(nv, nv.votes[j]).votes
    BY DEF CanonicalTallied
  <2>1. \A c : TallyOf(nv, c) = TallyOf(vs, c)
    BY <1>1 DEF TallyOf, Tracks
  <2>2. CASE j = i /\ Replaces(vs, i, b)
    BY <2>2, <1>1 DEF Replaces
  <2>3. CASE ~(j = i /\ Replaces(vs, i, b))
    <3>1. nv.votes[j] = vs.votes[j] /\ j \in Voters(vs)
      BY <2>3, <1>1, <1>2 DEF Voters
    <3> QED BY <2>1, <3>1, <1>1 DEF Sound, CanonicalTallied
  <2> QED BY <2>2, <2>3
<1>5. MajorityBacked(nv)
  <2>1. ASSUME vs.has_maj23, NEW j \in vs.votes_by_block[vs.maj23].votes
        PROVE  nv.votes[j] = vs.maj23
    <3>1. j \in Validators /\ vs.votes[j] = vs.maj23
      BY <2>1 DEF Sound, MajorityBacked, SumsExact, Tracks, Voters
    <3> QED BY <3>1, <1>1 DEF Replaces
  <2> QED BY <2>1, <1>1 DEF Sound, MajorityBacked, Tracks
<1>6. ClaimsTracked(nv)
  BY <1>1, SMT DEF Sound, ClaimsTracked, Tracks
<1> QED BY <1>1, <1>2, <1>3, <1>4, <1>5, <1>6 DEF Sound, nv

\* cmt_vote_set_add_vote keeps a vote set sound.
LEMMA AddVoteSound ==
    ASSUME NEW vs, Sound(vs), NEW i \in Validators, NEW b \in Values
    PROVE  Sound(AddVote(vs, i, b))
<1>1. CASE GetVote(vs, i, b)
  BY <1>1 DEF AddVote
<1>2. CASE ~GetVote(vs, i, b) /\ Tallies(vs, i, b)
  BY <1>2, AddTalliedSound
<1>3. CASE ~GetVote(vs, i, b) /\ ~Tallies(vs, i, b)
  BY <1>3, AddRefusedSound
<1> QED BY <1>1, <1>2, <1>3

\* cmt_vote_set_set_peer_maj23 keeps a vote set sound.
LEMMA SetPeerMaj23Sound ==
    ASSUME NEW vs, Sound(vs), NEW p \in Peers, NEW b \in Values
    PROVE  Sound(SetPeerMaj23(vs, p, b))
<1> DEFINE nv  == SetPeerMaj23(vs, p, b)
           bv  == TallyOf(vs, b)
           new == [peer_maj23 |-> TRUE, votes |-> bv.votes, sum |-> bv.sum]
<1>0. CASE ~PeerMayClaim(vs, p, b)
  BY <1>0 DEF SetPeerMaj23
<1>1. CASE PeerMayClaim(vs, p, b)
  <2>0. b # None
    BY NoneAssumption DEF Values
  <2>1. /\ WellFormed(vs) /\ WellFormed(nv)
        /\ nv.votes_by_block = WithBlock(vs, b, new)
        /\ nv.peer_maj23s = [vs.peer_maj23s EXCEPT ![p] = b]
        /\ nv.votes = vs.votes /\ nv.sum = vs.sum
        /\ nv.has_maj23 = vs.has_maj23 /\ nv.maj23 = vs.maj23
    BY <1>1, ClaimHeard, SMT DEF Sound
  <2> HIDE DEF nv
  <2>2. /\ DOMAIN nv.votes_by_block = DOMAIN vs.votes_by_block \cup {b}
        /\ nv.votes_by_block[b] = new
        /\ \A c \in DOMAIN vs.votes_by_block : c # b =>
              nv.votes_by_block[c] = vs.votes_by_block[c]
        /\ TallyOf(nv, b) = new
        /\ \A c : c # b => TallyOf(nv, c) = TallyOf(vs, c)
    <3> HIDE DEF new
    <3>1. nv.votes_by_block = WithBlock(vs, b, new)
      BY <2>1
    <3> QED BY <3>1 DEF WithBlock, TallyOf, Tracks
  <2>3. bv \in BlockVotes /\ bv.sum = Weight(bv.votes) /\ bv.votes \subseteq Voters(vs)
    <3>1. bv \in BlockVotes
      BY <2>1, TallyType
    <3>2. CASE Tracks(vs, b)
      BY <3>1, <3>2 DEF Sound, SumsExact, TallyOf, Tracks
    <3>3. CASE ~Tracks(vs, b)
      BY <3>1, <3>3, WeightOfNobody DEF TallyOf, NewBlockVotes
    <3> QED BY <3>2, <3>3
  <2>4. Voters(nv) = Voters(vs)
    BY <2>1 DEF Voters
  <2>5. SumsExact(nv)
    <3> HIDE DEF bv
    <3>1. new.sum = Weight(new.votes) /\ new.votes \subseteq Voters(nv)
      BY <2>3, <2>4
    <3> HIDE DEF new
    <3>2. ASSUME NEW c \in DOMAIN nv.votes_by_block
          PROVE  /\ nv.votes_by_block[c].sum = Weight(nv.votes_by_block[c].votes)
                 /\ nv.votes_by_block[c].votes \subseteq Voters(nv)
      <4>1. CASE c = b
        BY <4>1, <3>1, <2>2
      <4>2. CASE c # b
        BY <4>2, <2>2, <2>4 DEF Sound, SumsExact
      <4> QED BY <4>1, <4>2
    <3> QED BY <3>2, <2>1, <2>4 DEF Sound, SumsExact
  <2>6. CanonicalTallied(nv)
    <3>1. \A c : TallyOf(nv, c).votes = TallyOf(vs, c).votes
      <4> TAKE c
      <4> HIDE DEF bv
      <4>1. new.votes = bv.votes
        OBVIOUS
      <4> HIDE DEF new
      <4>2. CASE c = b
        BY <4>1, <4>2, <2>2 DEF bv
      <4>3. CASE c # b
        BY <4>3, <2>2
      <4> QED BY <4>2, <4>3
    <3> QED BY <3>1, <2>1, <2>4 DEF Sound, CanonicalTallied
  <2>7. \A c \in DOMAIN vs.votes_by_block :
           /\ nv.votes_by_block[c].votes = vs.votes_by_block[c].votes
           /\ nv.votes_by_block[c].sum = vs.votes_by_block[c].sum
    <3> TAKE c \in DOMAIN vs.votes_by_block
    <3>1. CASE c = b
      BY <3>1, <2>2, SMT DEF TallyOf, Tracks
    <3>2. CASE c # b
      BY <3>2, <2>2
    <3> QED BY <3>1, <3>2
  <2>8. MajorityBacked(nv)
    <3>1. CASE vs.has_maj23
      <4> HIDE DEF new
      <4>1. /\ vs.maj23 \in DOMAIN vs.votes_by_block
            /\ Quorum <= vs.votes_by_block[vs.maj23].sum
            /\ \A i \in vs.votes_by_block[vs.maj23].votes : vs.votes[i] = vs.maj23
        BY <3>1 DEF Sound, MajorityBacked, Tracks
      <4>2. nv.maj23 \in DOMAIN nv.votes_by_block
        BY <4>1, <2>1, <2>2
      <4>3. /\ nv.votes_by_block[nv.maj23].votes = vs.votes_by_block[vs.maj23].votes
            /\ nv.votes_by_block[nv.maj23].sum = vs.votes_by_block[vs.maj23].sum
        BY <4>1, <2>1, <2>7
      <4> QED BY <3>1, <4>1, <4>2, <4>3, <2>1 DEF MajorityBacked, Tracks
    <3>2. CASE ~vs.has_maj23
      <4>1. bv.sum < Quorum
        <5>1. CASE Tracks(vs, b)
          BY <3>2, <5>1 DEF Sound, MajorityBacked, TallyOf, Tracks
        <5>2. CASE ~Tracks(vs, b)
          BY <5>2, QuorumNat, SMT DEF TallyOf, NewBlockVotes, Quorum
        <5> QED BY <5>1, <5>2
      <4>2. new.sum < Quorum
        BY <4>1
      <4> HIDE DEF new
      <4>3. \A c \in DOMAIN nv.votes_by_block : nv.votes_by_block[c].sum < Quorum
        BY <3>2, <4>2, <2>2 DEF Sound, MajorityBacked
      <4> QED BY <3>2, <4>3, <2>1 DEF MajorityBacked
    <3> QED BY <3>1, <3>2
  <2>9. ClaimsTracked(nv)
    <3> SUFFICES ASSUME NEW c \in Values
                 PROVE  (Tracks(nv, c) /\ nv.votes_by_block[c].peer_maj23)
                          <=> \E q \in Peers : nv.peer_maj23s[q] = c
      BY DEF ClaimsTracked
    <3>1. CASE c = b
      <4>1. Tracks(nv, c) /\ nv.votes_by_block[c].peer_maj23
        BY <3>1, <2>2, SMT DEF Tracks
      <4>2. nv.peer_maj23s[p] = b
        BY <2>1 DEF WellFormed
      <4> QED BY <3>1, <4>1, <4>2
    <3>2. CASE c # b
      <4>1. (Tracks(nv, c) /\ nv.votes_by_block[c].peer_maj23)
               <=> (Tracks(vs, c) /\ vs.votes_by_block[c].peer_maj23)
        BY <3>2, <2>2 DEF Tracks
      <4>2. c # None /\ vs.peer_maj23s[p] = None
        BY <1>1, NoneAssumption DEF PeerMayClaim, Values
      <4>3. \A q \in Peers : nv.peer_maj23s[q] = c <=> vs.peer_maj23s[q] = c
        BY <3>2, <4>2, <2>1 DEF WellFormed
      <4>4. (Tracks(vs, c) /\ vs.votes_by_block[c].peer_maj23)
               <=> \E q \in Peers : vs.peer_maj23s[q] = c
        BY DEF Sound, ClaimsTracked
      <4> QED BY <4>1, <4>3, <4>4
    <3> QED BY <3>1, <3>2
  <2> QED BY <2>1, <2>5, <2>6, <2>8, <2>9 DEF Sound, nv
<1> QED BY <1>0, <1>1

-----------------------------------------------------------------------------
(* What a vote or a claim never undoes.                                    *)

\* No vote and no tally is lost, the majority stays, the power of the voters
\* does not shrink.
Extends(nv, vs) ==
    /\ vs.has_maj23 => nv.has_maj23 /\ nv.maj23 = vs.maj23
    /\ Voters(vs) \subseteq Voters(nv)
    /\ vs.sum <= nv.sum
    /\ \A c : TallyOf(vs, c).votes \subseteq TallyOf(nv, c).votes

LEMMA ExtendsItself ==
    ASSUME NEW vs, Sound(vs)
    PROVE  Extends(vs, vs)
<1>1. vs.sum \in Nat
  BY DEF Sound, WellFormed
<1>2. vs.sum <= vs.sum
  BY <1>1, SMT
<1> QED BY <1>2 DEF Extends

TallyExtended(nv, vs, i, b) ==
    /\ Extends(nv, vs)
    /\ \A c : TallyOf(nv, c).votes =
          TallyOf(vs, c).votes \cup IF c = b /\ Added(vs, i, b) THEN {i} ELSE {}

LEMMA AddVoteExtends ==
    ASSUME NEW vs, Sound(vs), NEW i \in Validators, NEW b \in Values
    PROVE  TallyExtended(AddVote(vs, i, b), vs, i, b)
<1> DEFINE nv == AddVote(vs, i, b)
<1>0. vs.sum \in Nat /\ Power[i] \in Nat
  BY PowerAssumption DEF Sound, WellFormed
<1>1. CASE GetVote(vs, i, b)
  <2>1. nv = vs /\ ~Added(vs, i, b)
    BY <1>1 DEF AddVote, Added
  <2> HIDE DEF nv
  <2> QED BY <1>0, <2>1, SMT DEF Extends, nv, TallyExtended
<1>2. CASE ~GetVote(vs, i, b) /\ ~Tallies(vs, i, b)
  <2>1. /\ nv.votes_by_block = vs.votes_by_block /\ nv.sum = vs.sum
        /\ nv.has_maj23 = vs.has_maj23 /\ nv.maj23 = vs.maj23
    <3>1. WellFormed(vs)
      BY DEF Sound
    <3>2. VoteRefused(nv, vs, i, b)
      BY <1>2, <3>1, AddRefused
    <3> HIDE DEF nv
    <3> QED BY <3>2 DEF VoteRefused
  <2>2. Voters(nv) = Voters(vs)
    BY <1>2, AddRefusedSound
  <2>3. ~Added(vs, i, b)
    BY <1>2 DEF Added
  <2> HIDE DEF nv
  <2>4. \A c : TallyOf(nv, c) = TallyOf(vs, c)
    BY <2>1 DEF TallyOf, Tracks
  <2> QED BY <1>0, <2>1, <2>2, <2>3, <2>4, SMT DEF Extends, nv, TallyExtended
<1>3. CASE ~GetVote(vs, i, b) /\ Tallies(vs, i, b)
  <2> DEFINE bv  == TallyOf(vs, b)
             add == [peer_maj23 |-> bv.peer_maj23, votes |-> bv.votes \cup {i},
                     sum |-> bv.sum + Power[i]]
  <2>0. WellFormed(vs)
    BY DEF Sound
  <2>1. /\ WellFormed(nv) /\ i \notin bv.votes
        /\ nv.votes_by_block = WithBlock(vs, b, add)
        /\ nv.sum = IF vs.votes[i] = None THEN vs.sum + Power[i] ELSE vs.sum
        /\ nv.peer_maj23s = vs.peer_maj23s
        /\ nv.has_maj23 = (vs.has_maj23 \/ Crosses(vs, i, b))
        /\ nv.maj23 = IF Crosses(vs, i, b) THEN b ELSE vs.maj23
        /\ nv.votes = [j \in Validators |-> IF \/ Crosses(vs, i, b) /\ j \in bv.votes \cup {i}
                                               \/ j = i /\ Replaces(vs, i, b)
                                            THEN b ELSE vs.votes[j]]
    <3>1. VoteTallied(nv, vs, i, b)
      BY <1>3, <2>0, AddTallied
    <3> HIDE DEF nv
    <3> QED BY <3>1 DEF VoteTallied
  <2>2. Voters(nv) = Voters(vs) \cup {i}
    BY <1>3, AddTalliedSound
  <2>3. Added(vs, i, b)
    BY <1>3 DEF Added
  <2> HIDE DEF nv
  <2>4. TallyOf(nv, b) = add /\ \A c : c # b => TallyOf(nv, c) = TallyOf(vs, c)
    <3> HIDE DEF add
    <3>1. nv.votes_by_block = WithBlock(vs, b, add)
      BY <2>1
    <3> QED BY <3>1 DEF WithBlock, TallyOf, Tracks
  <2>5. TallyOf(nv, b).votes = TallyOf(vs, b).votes \cup {i}
    BY <2>4, SMT
  <2>6. vs.sum <= nv.sum
    BY <1>0, <2>1, SMT
  <2>7. vs.has_maj23 => nv.has_maj23 /\ nv.maj23 = vs.maj23
    BY <2>1 DEF Crosses
  <2> HIDE DEF add, bv
  <2>8. \A c : TallyOf(nv, c).votes =
           TallyOf(vs, c).votes \cup IF c = b /\ Added(vs, i, b) THEN {i} ELSE {}
    BY <2>3, <2>4, <2>5, SMT
  <2> QED BY <2>2, <2>6, <2>7, <2>8 DEF Extends, nv, TallyExtended
<1> QED BY <1>1, <1>2, <1>3

LEMMA SetPeerMaj23Extends ==
    ASSUME NEW vs, Sound(vs), NEW p \in Peers, NEW b \in Values
    PROVE  LET nv == SetPeerMaj23(vs, p, b)
           IN  /\ Extends(nv, vs)
               /\ nv.votes = vs.votes
               /\ \A c : TallyOf(nv, c).votes = TallyOf(vs, c).votes
<1> DEFINE nv == SetPeerMaj23(vs, p, b)
<1>0. vs.sum \in Nat
  BY DEF Sound, WellFormed
<1>1. CASE ~PeerMayClaim(vs, p, b)
  <2>1. nv = vs
    BY <1>1 DEF SetPeerMaj23
  <2> HIDE DEF nv
  <2> QED BY <1>0, <2>1, SMT DEF Extends, nv
<1>2. CASE PeerMayClaim(vs, p, b)
  <2> DEFINE bv  == TallyOf(vs, b)
             new == [peer_maj23 |-> TRUE, votes |-> bv.votes, sum |-> bv.sum]
  <2>0. WellFormed(vs)
    BY DEF Sound
  <2>1. /\ nv.votes_by_block = WithBlock(vs, b, new)
        /\ nv.peer_maj23s = [vs.peer_maj23s EXCEPT ![p] = b]
        /\ nv.votes = vs.votes /\ nv.sum = vs.sum
        /\ nv.has_maj23 = vs.has_maj23 /\ nv.maj23 = vs.maj23
    BY <1>2, <2>0, ClaimHeard, SMT
  <2> HIDE DEF nv
  <2>2. TallyOf(nv, b) = new /\ \A c : c # b => TallyOf(nv, c) = TallyOf(vs, c)
    <3> HIDE DEF new
    <3>1. nv.votes_by_block = WithBlock(vs, b, new)
      BY <2>1
    <3> QED BY <3>1 DEF WithBlock, TallyOf, Tracks
  <2>3. TallyOf(nv, b).votes = TallyOf(vs, b).votes
    BY <2>2, SMT
  <2> HIDE DEF new, bv
  <2>4. \A c : TallyOf(nv, c).votes = TallyOf(vs, c).votes
    BY <2>2, <2>3
  <2>5. Voters(nv) = Voters(vs)
    BY <2>1 DEF Voters
  <2> QED BY <1>0, <2>1, <2>4, <2>5, SMT DEF Extends, nv
<1> QED BY <1>1, <1>2


\* The canonical vote of a validator: it stays one; that of another than the
\* voter changes only to the block of a tally the other is in; a voter that had
\* one has it changed, or a second vote tallied, only with a conflict.  The
\* majority changes only with a vote that was added.
VotesChanged(nv, vs, i, b) ==
    /\ \A j \in Validators : vs.votes[j] # None => nv.votes[j] # None
    /\ \A j \in Validators : j # i /\ nv.votes[j] # vs.votes[j] =>
          nv.votes[j] = b /\ j \in TallyOf(vs, b).votes
    /\ nv.votes[i] # vs.votes[i] => vs.votes[i] = None \/ Conflicting(vs, i, b)
    /\ Added(vs, i, b) =>
          /\ nv.votes[i] # None
          /\ vs.votes[i] # None => Conflicting(vs, i, b)
          /\ nv.votes[i] # b => Conflicting(vs, i, b)
    /\ ~Added(vs, i, b) => nv.maj23 = vs.maj23

LEMMA AddVoteVotes ==
    ASSUME NEW vs, Sound(vs), NEW i \in Validators, NEW b \in Values
    PROVE  VotesChanged(AddVote(vs, i, b), vs, i, b)
<1> DEFINE nv == AddVote(vs, i, b)
<1>0. WellFormed(vs) /\ b # None
  BY NoneAssumption DEF Sound, Values
<1>1. CASE GetVote(vs, i, b)
  <2>1. nv = vs /\ ~Added(vs, i, b)
    BY <1>1 DEF AddVote, Added
  <2> HIDE DEF nv
  <2> QED BY <2>1 DEF nv, VotesChanged
<1>2. CASE ~GetVote(vs, i, b) /\ ~Tallies(vs, i, b)
  <2>1. /\ WellFormed(nv) /\ vs.votes[i] # None
        /\ nv.votes_by_block = vs.votes_by_block /\ nv.sum = vs.sum
        /\ nv.peer_maj23s = vs.peer_maj23s
        /\ nv.has_maj23 = vs.has_maj23 /\ nv.maj23 = vs.maj23
        /\ nv.votes = [j \in Validators |-> IF j = i /\ Replaces(vs, i, b) THEN b ELSE vs.votes[j]]
    <3>1. VoteRefused(nv, vs, i, b)
      BY <1>0, <1>2, AddRefused
    <3> HIDE DEF nv
    <3> QED BY <3>1 DEF VoteRefused
  <2>2. ~Added(vs, i, b) /\ Conflicting(vs, i, b)
    BY <1>2 DEF Added, Conflicting, Tallies
  <2> HIDE DEF nv
  <2> QED BY <1>0, <2>1, <2>2 DEF nv, VotesChanged
<1>3. CASE ~GetVote(vs, i, b) /\ Tallies(vs, i, b)
  <2> DEFINE bv  == TallyOf(vs, b)
             add == [peer_maj23 |-> bv.peer_maj23, votes |-> bv.votes \cup {i},
                     sum |-> bv.sum + Power[i]]
  <2>1. /\ WellFormed(nv) /\ i \notin bv.votes
        /\ nv.votes_by_block = WithBlock(vs, b, add)
        /\ nv.sum = IF vs.votes[i] = None THEN vs.sum + Power[i] ELSE vs.sum
        /\ nv.peer_maj23s = vs.peer_maj23s
        /\ nv.has_maj23 = (vs.has_maj23 \/ Crosses(vs, i, b))
        /\ nv.maj23 = IF Crosses(vs, i, b) THEN b ELSE vs.maj23
        /\ nv.votes = [j \in Validators |-> IF \/ Crosses(vs, i, b) /\ j \in bv.votes \cup {i}
                                               \/ j = i /\ Replaces(vs, i, b)
                                            THEN b ELSE vs.votes[j]]
    <3>1. VoteTallied(nv, vs, i, b)
      BY <1>0, <1>3, AddTallied
    <3> HIDE DEF nv
    <3> QED BY <3>1 DEF VoteTallied
  <2>2. Added(vs, i, b)
    BY <1>3 DEF Added
  <2>3. vs.votes[i] # None => Conflicting(vs, i, b)
    BY <1>3 DEF Conflicting, Conflicts, GetVote
  <2> HIDE DEF nv, add, bv
  <2>4. nv.votes[i] = IF Crosses(vs, i, b) \/ Replaces(vs, i, b) THEN b ELSE vs.votes[i]
    BY <2>1
  <2>5. nv.votes[i] # None /\ (nv.votes[i] # b => vs.votes[i] # None)
    BY <1>0, <2>4 DEF Replaces
  <2>6. \A j \in Validators : j # i => nv.votes[j] = IF Crosses(vs, i, b) /\ j \in bv.votes THEN b ELSE vs.votes[j]
    BY <2>1
  <2>7. \A j \in Validators : vs.votes[j] # None => nv.votes[j] # None
    BY <1>0, <2>5, <2>6
  <2>8. \A j \in Validators : j # i /\ nv.votes[j] # vs.votes[j] => nv.votes[j] = b /\ j \in bv.votes
    BY <2>6
  <2> QED BY <2>2, <2>3, <2>5, <2>7, <2>8 DEF nv, bv, VotesChanged
<1> QED BY <1>1, <1>2, <1>3

-----------------------------------------------------------------------------
(* The votes of a height.                                                  *)

\* The votes of a height: sound tallies.
HvsOk(hvs) ==
    /\ hvs = [round |-> hvs.round, sets |-> hvs.sets, catchup |-> hvs.catchup]
    /\ hvs.round \in Int
    /\ DOMAIN hvs.sets \subseteq Int
    /\ hvs.sets = [r \in DOMAIN hvs.sets |-> [t \in VoteTypes |-> hvs.sets[r][t]]]
    /\ \A r \in DOMAIN hvs.sets : \A t \in VoteTypes : Sound(hvs.sets[r][t])
    /\ hvs.catchup \in [Peers -> SUBSET Rounds]

LEMMA VotesOfSound ==
    ASSUME NEW hvs, HvsOk(hvs), NEW r, NEW t \in VoteTypes
    PROVE  Sound(VotesOf(hvs, r, t))
  BY NewVoteSetSound DEF HvsOk, VotesOf

LEMMA NewHeightVotesOk ==
    /\ HvsOk(NewHeightVotes) /\ NewHeightVotes.round = 0 /\ DOMAIN NewHeightVotes.sets = {0}
    /\ \A r : \A t \in VoteTypes : VotesOf(NewHeightVotes, r, t) = NewVoteSet
  BY NewVoteSetSound, SMT DEF HvsOk, NewHeightVotes, NewRoundVotes, VotesOf

\* n holds the tallies of hvs.
SameTallies(n, hvs) == \A r : \A t \in VoteTypes : VotesOf(n, r, t) = VotesOf(hvs, r, t)

LEMMA AddRoundsOk ==
    ASSUME NEW hvs, HvsOk(hvs), NEW R \in SUBSET Int
    PROVE  LET n == AddRounds(hvs, R)
           IN  /\ HvsOk(n) /\ n.round = hvs.round /\ n.catchup = hvs.catchup
               /\ DOMAIN n.sets = DOMAIN hvs.sets \cup R
               /\ SameTallies(n, hvs)
<1> DEFINE D == DOMAIN hvs.sets
           S == [r \in D \cup R |-> IF r \in D THEN hvs.sets[r] ELSE NewRoundVotes]
           n == AddRounds(hvs, R)
<1> n = [round |-> hvs.round, sets |-> S, catchup |-> hvs.catchup]
  BY SMT DEF AddRounds, HvsOk
<1>2. \A r \in D : hvs.sets[r] = [t \in VoteTypes |-> hvs.sets[r][t]]
  BY DEF HvsOk
<1>3. NewRoundVotes = [t \in VoteTypes |-> NewRoundVotes[t]] /\ \A t \in VoteTypes : NewRoundVotes[t] = NewVoteSet
  BY DEF NewRoundVotes
<1> DOMAIN S = D \cup R /\ S = [r \in DOMAIN S |-> [t \in VoteTypes |-> S[r][t]]]
  BY <1>2, <1>3
<1>5. \A r \in DOMAIN S : \A t \in VoteTypes : Sound(S[r][t])
  BY <1>3, NewVoteSetSound DEF HvsOk
<1>6. D \cup R \subseteq Int
  BY DEF HvsOk
<1>7. \A r : \A t \in VoteTypes :
         (IF r \in DOMAIN S THEN S[r][t] ELSE NewVoteSet) = IF r \in D THEN hvs.sets[r][t] ELSE NewVoteSet
  BY <1>3
<1> HIDE DEF S, n
<1>8. HvsOk(n)
  BY <1>5, <1>6 DEF HvsOk
<1>9. SameTallies(n, hvs)
  BY <1>7 DEF SameTallies, VotesOf
<1> QED BY <1>8, <1>9, SMT DEF n

LEMMA SetRoundOk ==
    ASSUME NEW hvs, HvsOk(hvs), NEW r \in Int
    PROVE  LET n == SetRound(hvs, r)
           IN  /\ HvsOk(n) /\ n.round = r /\ n.catchup = hvs.catchup
               /\ DOMAIN n.sets = DOMAIN hvs.sets \cup ((hvs.round - 1)..r)
               /\ SameTallies(n, hvs)
<1> DEFINE R == (hvs.round - 1)..r
           m == AddRounds(hvs, R)
           n == SetRound(hvs, r)
<1>1. /\ HvsOk(m) /\ m.round = hvs.round /\ m.catchup = hvs.catchup
      /\ DOMAIN m.sets = DOMAIN hvs.sets \cup R
      /\ SameTallies(m, hvs)
  <2>1. R \in SUBSET Int
    BY SMT DEF HvsOk
  <2> HIDE DEF R
  <2> QED BY <2>1, AddRoundsOk
<1>2. n = [m EXCEPT !.round = r]
  BY DEF SetRound
<1> HIDE DEF m, n, R
<1> n = [round |-> r, sets |-> m.sets, catchup |-> m.catchup]
  BY <1>1, <1>2 DEF HvsOk
<1>4. HvsOk(n)
  BY <1>1, SMT DEF HvsOk
<1>5. SameTallies(n, hvs)
  BY <1>1 DEF SameTallies, VotesOf
<1> QED BY <1>1, <1>4, <1>5, SMT DEF R, n

\* cmt_hvs_add_vote changes one tally, by add_vote.
VoteEntered(n, hvs, v, p) ==
    /\ HvsOk(n) /\ n.round = hvs.round
    /\ DOMAIN hvs.sets \subseteq DOMAIN n.sets
    /\ DOMAIN n.sets \subseteq DOMAIN hvs.sets \cup {v.round}
    /\ VotesOf(n, v.round, v.type)
          = IF Wants(hvs, v.round, p) THEN AddVote(VotesOf(hvs, v.round, v.type), v.val, v.block)
            ELSE VotesOf(hvs, v.round, v.type)
    /\ \A r : \A t \in VoteTypes :
          r # v.round \/ t # v.type => VotesOf(n, r, t) = VotesOf(hvs, r, t)

LEMMA HvsAddVoteOk ==
    ASSUME NEW hvs, HvsOk(hvs), NEW p \in Peers,
           NEW v, v.val \in Validators, v.type \in VoteTypes, v.round \in Rounds, v.block \in Values
    PROVE  VoteEntered(HvsAddVote(hvs, v, p), hvs, v, p)
<1> DEFINE n   == HvsAddVote(hvs, v, p)
           o   == Opened(hvs, v.round, p)
           R   == v.round
           T   == v.type
           old == VotesOf(hvs, R, T)
           new == AddVote(old, v.val, v.block)
<1>1. CASE ~Wants(hvs, v.round, p)
  BY <1>1 DEF HvsAddVote, VoteEntered
<1>2. CASE Wants(hvs, v.round, p)
  <2>1. /\ HvsOk(o) /\ o.round = hvs.round
        /\ DOMAIN o.sets = DOMAIN hvs.sets \cup {R}
        /\ SameTallies(o, hvs)
    <3>1. CASE R \in DOMAIN hvs.sets
      BY <3>1 DEF Opened, SameTallies
    <3>2. CASE R \notin DOMAIN hvs.sets
      <4> DEFINE a == AddRounds(hvs, {R})
      <4>1. /\ HvsOk(a) /\ a.round = hvs.round /\ a.catchup = hvs.catchup
            /\ DOMAIN a.sets = DOMAIN hvs.sets \cup {R}
            /\ SameTallies(a, hvs)
        <5>1. {R} \in SUBSET Int
          BY MaxRoundAssumption, SMT DEF Rounds
        <5> HIDE DEF R
        <5> QED BY <5>1, AddRoundsOk
      <4>2. o = [a EXCEPT !.catchup[p] = @ \cup {R}]
        BY <3>2 DEF Opened
      <4> HIDE DEF a, o
      <4>3. o = [round |-> a.round, sets |-> a.sets, catchup |-> [a.catchup EXCEPT ![p] = @ \cup {R}]]
        BY <4>1, <4>2 DEF HvsOk
      <4>4. [a.catchup EXCEPT ![p] = @ \cup {R}] \in [Peers -> SUBSET Rounds]
        BY <4>1 DEF HvsOk
      <4>5. HvsOk(o)
        BY <4>1, <4>3, <4>4 DEF HvsOk
      <4>6. SameTallies(o, hvs)
        BY <4>1, <4>3 DEF SameTallies, VotesOf
      <4> QED BY <4>1, <4>3, <4>5, <4>6
    <3> QED BY <3>1, <3>2
  <2>2. n = [o EXCEPT !.sets[R][T] = AddVote(@, v.val, v.block)]
    BY <1>2 DEF HvsAddVote
  <2> R \in DOMAIN o.sets /\ o.sets[R][T] = old
    <3> HIDE DEF o
    <3> QED BY <2>1 DEF SameTallies, VotesOf
  <2>4. Sound(new)
    <3>1. Sound(old)
      BY VotesOfSound
    <3> HIDE DEF old
    <3> QED BY <3>1, AddVoteSound
  <2> DEFINE S == [r \in DOMAIN o.sets |-> [t \in VoteTypes |->
                     IF r = R /\ t = T THEN new ELSE o.sets[r][t]]]
  <2> HIDE DEF o, n, new, old
  <2> n = [round |-> o.round, sets |-> S, catchup |-> o.catchup]
    <3>1. n = [o EXCEPT !.sets = [o.sets EXCEPT ![R] = [o.sets[R] EXCEPT ![T] = new]]]
      BY <2>2 DEF new
    <3>2. \A r \in DOMAIN o.sets : o.sets[r] = [t \in VoteTypes |-> o.sets[r][t]]
      BY <2>1 DEF HvsOk
    <3>3. [o.sets[R] EXCEPT ![T] = new] = [t \in VoteTypes |-> IF t = T THEN new ELSE o.sets[R][t]]
      BY <3>2
    <3>4. o.sets = [r \in DOMAIN o.sets |-> o.sets[r]]
      BY <2>1 DEF HvsOk
    <3>5. ASSUME NEW r \in DOMAIN o.sets
          PROVE  [o.sets EXCEPT ![R] = [o.sets[R] EXCEPT ![T] = new]][r]
                    = [t \in VoteTypes |-> IF r = R /\ t = T THEN new ELSE o.sets[r][t]]
      <4>1. CASE r = R
        BY <4>1, <3>3
      <4>2. CASE r # R
        BY <4>2, <3>2
      <4> QED BY <4>1, <4>2
    <3>6. [o.sets EXCEPT ![R] = [o.sets[R] EXCEPT ![T] = new]] = S
      BY <3>4, <3>5
    <3>7. n = [o EXCEPT !.sets = S]
      BY <3>1, <3>6
    <3> HIDE DEF S
    <3> QED BY <2>1, <3>7 DEF HvsOk
  <2>6. DOMAIN S = DOMAIN o.sets /\ S = [r \in DOMAIN S |-> [t \in VoteTypes |-> S[r][t]]]
    OBVIOUS
  <2>7. \A r \in DOMAIN S : \A t \in VoteTypes : Sound(S[r][t])
    BY <2>1, <2>4 DEF HvsOk
  <2>8. \A r : \A t \in VoteTypes :
           (IF r \in DOMAIN S THEN S[r][t] ELSE NewVoteSet)
              = IF r = R /\ t = T THEN new ELSE IF r \in DOMAIN o.sets THEN o.sets[r][t] ELSE NewVoteSet
    OBVIOUS
  <2> HIDE DEF S
  <2>9. HvsOk(n)
    BY <2>1, <2>6, <2>7, SMT DEF HvsOk
  <2>10. \A r : \A t \in VoteTypes : VotesOf(n, r, t) = IF r = R /\ t = T THEN new ELSE VotesOf(o, r, t)
    BY <2>8 DEF VotesOf
  <2>11. \A r : \A t \in VoteTypes : VotesOf(n, r, t) = IF r = R /\ t = T THEN new ELSE VotesOf(hvs, r, t)
    BY <2>1, <2>10 DEF SameTallies
  <2>12. n.round = hvs.round /\ DOMAIN n.sets = DOMAIN hvs.sets \cup {R}
    BY <2>1, <2>6
  <2> QED BY <1>2, <2>9, <2>11, <2>12 DEF n, new, old, VoteEntered
<1> QED BY <1>1, <1>2

\* cmt_hvs_set_peer_maj23 likewise.
ClaimEntered(n, hvs, R, T, p, b) ==
    /\ HvsOk(n) /\ n.round = hvs.round /\ DOMAIN n.sets = DOMAIN hvs.sets
    /\ VotesOf(n, R, T) \in {VotesOf(hvs, R, T), SetPeerMaj23(VotesOf(hvs, R, T), p, b)}
    /\ \A r : \A t \in VoteTypes :
          r # R \/ t # T => VotesOf(n, r, t) = VotesOf(hvs, r, t)

LEMMA HvsSetPeerMaj23Ok ==
    ASSUME NEW hvs, HvsOk(hvs), NEW R, NEW T \in VoteTypes, NEW p \in Peers, NEW b \in Values
    PROVE  ClaimEntered(HvsSetPeerMaj23(hvs, R, T, p, b), hvs, R, T, p, b)
<1> DEFINE n   == HvsSetPeerMaj23(hvs, R, T, p, b)
           old == VotesOf(hvs, R, T)
           new == SetPeerMaj23(old, p, b)
<1>1. CASE R \notin DOMAIN hvs.sets
  BY <1>1 DEF HvsSetPeerMaj23, ClaimEntered
<1>2. CASE R \in DOMAIN hvs.sets
  <2>1. n = [hvs EXCEPT !.sets[R][T] = SetPeerMaj23(@, p, b)] /\ hvs.sets[R][T] = old
    BY <1>2 DEF HvsSetPeerMaj23, VotesOf
  <2>2. Sound(new)
    <3>1. Sound(old)
      BY VotesOfSound
    <3> HIDE DEF old
    <3> QED BY <3>1, SetPeerMaj23Sound
  <2> DEFINE S == [r \in DOMAIN hvs.sets |-> [t \in VoteTypes |->
                     IF r = R /\ t = T THEN new ELSE hvs.sets[r][t]]]
  <2> HIDE DEF n, new, old
  <2> n = [round |-> hvs.round, sets |-> S, catchup |-> hvs.catchup]
    <3>1. n = [hvs EXCEPT !.sets = [hvs.sets EXCEPT ![R] = [hvs.sets[R] EXCEPT ![T] = new]]]
      BY <2>1 DEF new
    <3>2. \A r \in DOMAIN hvs.sets : hvs.sets[r] = [t \in VoteTypes |-> hvs.sets[r][t]]
      BY DEF HvsOk
    <3>3. [hvs.sets[R] EXCEPT ![T] = new] = [t \in VoteTypes |-> IF t = T THEN new ELSE hvs.sets[R][t]]
      BY <1>2, <3>2
    <3>4. hvs.sets = [r \in DOMAIN hvs.sets |-> hvs.sets[r]]
      BY DEF HvsOk
    <3>5. ASSUME NEW r \in DOMAIN hvs.sets
          PROVE  [hvs.sets EXCEPT ![R] = [hvs.sets[R] EXCEPT ![T] = new]][r]
                    = [t \in VoteTypes |-> IF r = R /\ t = T THEN new ELSE hvs.sets[r][t]]
      <4>1. CASE r = R
        BY <4>1, <3>3
      <4>2. CASE r # R
        BY <4>2, <3>2
      <4> QED BY <4>1, <4>2
    <3>6. [hvs.sets EXCEPT ![R] = [hvs.sets[R] EXCEPT ![T] = new]] = S
      BY <3>4, <3>5
    <3>7. n = [hvs EXCEPT !.sets = S]
      BY <3>1, <3>6
    <3> HIDE DEF S
    <3> QED BY <3>7 DEF HvsOk
  <2>4. DOMAIN S = DOMAIN hvs.sets /\ S = [r \in DOMAIN S |-> [t \in VoteTypes |-> S[r][t]]]
    OBVIOUS
  <2>5. \A r \in DOMAIN S : \A t \in VoteTypes : Sound(S[r][t])
    BY <2>2 DEF HvsOk
  <2>6. \A r : \A t \in VoteTypes :
           (IF r \in DOMAIN S THEN S[r][t] ELSE NewVoteSet)
              = IF r = R /\ t = T THEN new ELSE IF r \in DOMAIN hvs.sets THEN hvs.sets[r][t] ELSE NewVoteSet
    BY <1>2
  <2> HIDE DEF S
  <2>7. HvsOk(n)
    BY <2>4, <2>5 DEF HvsOk
  <2>8. \A r : \A t \in VoteTypes : VotesOf(n, r, t) = IF r = R /\ t = T THEN new ELSE VotesOf(hvs, r, t)
    BY <2>6 DEF VotesOf
  <2>9. n.round = hvs.round /\ DOMAIN n.sets = DOMAIN hvs.sets
    BY <2>4
  <2> QED BY <2>7, <2>8, <2>9 DEF n, new, old, ClaimEntered
<1> QED BY <1>1, <1>2

=============================================================================
