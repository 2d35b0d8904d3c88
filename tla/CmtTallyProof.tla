--------------------------- MODULE CmtTallyProof ----------------------------
(***************************************************************************)
(* The properties of CmtTally for every finite validator set, every power, *)
(* any number of blocks, peers, votes and claims.                          *)
(*                                                                         *)
(* The inductive invariant is Sound of CmtVoteSetProof, with the history:  *)
(* the voters of the set are the validators whose vote arrived, and a      *)
(* block other than the majority is tallied with the counted votes.        *)
(***************************************************************************)
EXTENDS CmtTally, CmtVoteSetProof, FiniteSetTheorems

\* Zenon is the prover where a leaf names none.
USE Zenon

-----------------------------------------------------------------------------
(* Induction, with a set in the place of the predicate.                    *)

\* A set that holds 0 and the successor of each of its numbers holds them all.
LEMMA InductionOnNat ==
    ASSUME NEW T, 0 \in T, \A n \in Nat : n \in T => n + 1 \in T
    PROVE  Nat \subseteq T
<1> DEFINE R == OpToRel(<, Nat)
           B == Nat \ T
<1>1. SUFFICES ASSUME B # {} PROVE FALSE
  OBVIOUS
<1>2. IsWellFoundedOn(R, Nat) /\ B \subseteq Nat
  BY NatLessThanWellFounded
<1>3. \E x \in B : \A y \in B : ~(<<y, x>> \in R)
  <2> HIDE DEF B, R
  <2> QED BY <1>1, <1>2, WFMin
<1>4. PICK x \in B : \A y \in B : ~(<<y, x>> \in R)
  BY <1>3
<1>5. x # 0 /\ x \in Nat /\ x - 1 \in Nat
  BY SMT
<1>6. <<x - 1, x>> \in R
  BY <1>5, SMT DEF OpToRel
<1>7. x - 1 \in T
  BY <1>4, <1>5, <1>6
<1>8. (x - 1) + 1 \in T /\ (x - 1) + 1 = x
  BY <1>5, <1>7, SMT
<1> QED
  <2> HIDE DEF R
  <2> QED BY <1>4, <1>8

-----------------------------------------------------------------------------
(* The invariant of the tally.                                             *)

\* A block that is not the majority is tallied with its counted votes.
TalliedIsCounted ==
    \A b \in Values : vs.maj23 # b =>
        TallyOf(vs, b).votes = {i \in Validators : <<i, b>> \in counted}

TInv == /\ Sound(vs)
        /\ first \in [Validators -> Values \cup {None}]
        /\ counted \subseteq Validators \X Values
        /\ {i \in Validators : first[i] # None} = Voters(vs)
        /\ TalliedIsCounted

LEMMA TInvInit == Init => TInv
<1> SUFFICES ASSUME Init PROVE TInv
  OBVIOUS
<1>1. Sound(vs) /\ Voters(vs) = {}
  BY NewVoteSetSound DEF Init, Voters, NewVoteSet
<1>2. TalliedIsCounted
  BY DEF Init, TalliedIsCounted, TallyOf, Tracks, NewVoteSet, NewBlockVotes
<1> QED BY <1>1, <1>2 DEF Init, TInv

\* A vote is tallied when it is the first of its validator or a peer claims its
\* block, and otherwise leaves the tallies alone.
LEMMA ReceiveVoteKeeps ==
    ASSUME TInv, NEW i \in Validators, NEW b \in Values, ReceiveVote(i, b)
    PROVE  TInv'
<1>0. b # None
  BY NoneAssumption DEF Values
<1>1. vs' = AddVote(vs, i, b) /\ Sound(vs) /\ Sound(vs')
  BY AddVoteSound DEF ReceiveVote, TInv
<1>2. /\ Extends(vs', vs)
      /\ \A c : TallyOf(vs', c).votes =
            TallyOf(vs, c).votes \cup IF c = b /\ Added(vs, i, b) THEN {i} ELSE {}
  <2>1. TallyExtended(vs', vs, i, b)
    BY <1>1, AddVoteExtends
  <2> QED BY <2>1 DEF TallyExtended
<1>3. first[i] = None <=> vs.votes[i] = None
  BY DEF TInv, Voters
<1>4. Vouched(b) <=> Tracks(vs, b) /\ vs.votes_by_block[b].peer_maj23
  BY <1>1 DEF Vouched, Sound, ClaimsTracked
<1>5. first' \in [Validators -> Values \cup {None}] /\ counted' \subseteq Validators \X Values
  BY SMT DEF TInv, ReceiveVote
<1>6. {j \in Validators : first'[j] # None} = Voters(vs')
  <2>1. {j \in Validators : first'[j] # None} = Voters(vs) \cup {i}
    BY <1>0 DEF TInv, ReceiveVote, Voters
  <2>2. Voters(vs') = Voters(vs) \cup {i}
    <3>1. CASE GetVote(vs, i, b)
      <4>1. vs' = vs
        BY <1>1, <3>1 DEF AddVote
      <4>2. i \in Voters(vs)
        BY <3>1, <1>0, <1>1 DEF GetVote, Sound, SumsExact, Tracks, Voters
      <4> QED BY <4>1, <4>2
    <3>2. CASE ~GetVote(vs, i, b) /\ Tallies(vs, i, b)
      BY <3>2, <1>1, AddTalliedSound
    <3>3. CASE ~GetVote(vs, i, b) /\ ~Tallies(vs, i, b)
      <4>1. Voters(vs') = Voters(vs)
        BY <3>3, <1>1, AddRefusedSound
      <4>2. i \in Voters(vs)
        BY <3>3 DEF Tallies, Conflicts, Voters
      <4> QED BY <4>1, <4>2
    <3> QED BY <3>1, <3>2, <3>3
  <2> QED BY <2>1, <2>2
<1>7. TalliedIsCounted'
  <2> SUFFICES ASSUME NEW c \in Values, vs'.maj23 # c
               PROVE  TallyOf(vs', c).votes = {j \in Validators : <<j, c>> \in counted'}
    BY DEF TalliedIsCounted
  <2>1. vs.maj23 # c
    <3>1. c # None
      BY NoneAssumption DEF Values
    <3> QED BY <1>1, <1>2, <3>1 DEF Extends, Sound, WellFormed
  <2>2. TallyOf(vs, c).votes = {j \in Validators : <<j, c>> \in counted}
    BY <2>1 DEF TInv, TalliedIsCounted
  <2>3. CASE c # b
    <3>1. \A j \in Validators : <<j, c>> \in counted' <=> <<j, c>> \in counted
      BY <2>3 DEF ReceiveVote
    <3>2. TallyOf(vs', c).votes = TallyOf(vs, c).votes
      BY <2>3, <1>2
    <3> QED BY <3>1, <3>2, <2>2
  <2>4. CASE c = b /\ GetVote(vs, i, b)
    <3>1. i \in TallyOf(vs, b).votes
      <4>1. CASE vs.votes[i] = b
        BY <4>1, <2>1, <2>4, <1>0, <1>1 DEF Sound, CanonicalTallied, Voters
      <4>2. CASE vs.votes[i] # b
        BY <4>2, <2>4 DEF GetVote, TallyOf
      <4> QED BY <4>1, <4>2
    <3>2. <<i, b>> \in counted
      BY <2>2, <2>4, <3>1
    <3>3. counted' = counted
      BY <3>2 DEF ReceiveVote
    <3>4. TallyOf(vs', c).votes = TallyOf(vs, c).votes
      BY <2>4, <1>1 DEF AddVote
    <3> QED BY <2>2, <3>3, <3>4
  <2>5. CASE c = b /\ ~GetVote(vs, i, b) /\ Tallies(vs, i, b)
    <3>1. first[i] = None \/ Vouched(b)
      BY <2>5, <1>3, <1>4 DEF Tallies, Conflicts, GetVote
    <3>2. counted' = counted \cup {<<i, b>>}
      BY <3>1 DEF ReceiveVote
    <3>3. TallyOf(vs', c).votes = TallyOf(vs, c).votes \cup {i}
      BY <2>5, <1>2 DEF Added
    <3> QED BY <2>2, <2>5, <3>2, <3>3
  <2>6. CASE c = b /\ ~GetVote(vs, i, b) /\ ~Tallies(vs, i, b)
    <3>1. counted' = counted
      BY <2>6, <1>3, <1>4 DEF Tallies, Conflicts, ReceiveVote
    <3>2. TallyOf(vs', c).votes = TallyOf(vs, c).votes
      BY <2>6, <1>2 DEF Added
    <3> QED BY <2>2, <3>1, <3>2
  <2> QED BY <2>3, <2>4, <2>5, <2>6
<1> QED BY <1>1, <1>5, <1>6, <1>7 DEF TInv

\* A claim changes no vote and no tally.
LEMMA ReceiveClaimKeeps ==
    ASSUME TInv, NEW p \in Peers, NEW b \in Values, ReceiveClaim(p, b)
    PROVE  TInv'
<1>1. vs' = SetPeerMaj23(vs, p, b) /\ Sound(vs) /\ Sound(vs')
  BY SetPeerMaj23Sound DEF ReceiveClaim, TInv
<1>2. /\ Extends(vs', vs) /\ vs'.votes = vs.votes
      /\ \A c : TallyOf(vs', c).votes = TallyOf(vs, c).votes
  BY <1>1, SetPeerMaj23Extends, SMT
<1>3. first' = first /\ counted' = counted
  BY DEF ReceiveClaim
<1>4. Voters(vs') = Voters(vs)
  BY <1>2 DEF Voters
<1>5. TalliedIsCounted'
  <2> SUFFICES ASSUME NEW c \in Values, vs'.maj23 # c
               PROVE  TallyOf(vs', c).votes = {j \in Validators : <<j, c>> \in counted'}
    BY DEF TalliedIsCounted
  <2>1. vs.maj23 # c
    <3>1. c # None
      BY NoneAssumption DEF Values
    <3> QED BY <1>1, <1>2, <3>1 DEF Extends, Sound, WellFormed
  <2> QED BY <2>1, <1>2, <1>3 DEF TInv, TalliedIsCounted
<1> QED BY <1>1, <1>3, <1>4, <1>5 DEF TInv

LEMMA TInvNext == TInv /\ [Next]_vars => TInv'
<1> SUFFICES ASSUME TInv, [Next]_vars PROVE TInv'
  OBVIOUS
<1>1. CASE Next
  BY <1>1, ReceiveVoteKeeps, ReceiveClaimKeeps DEF Next
<1>2. CASE UNCHANGED vars
  BY <1>2 DEF vars, TInv, TalliedIsCounted
<1> QED BY <1>1, <1>2

\* The inductive invariant holds in every reachable state.
THEOREM TallyInvariance == Spec => []TInv
  BY TInvInit, TInvNext, PTL DEF Spec

\* TalliedExactly: the running sums of add_verified_vote are the power of the
\* votes they stand for, and a block is tallied with the first votes of its
\* validators and those that arrive while a peer claims it.
THEOREM AlwaysTalliedExactly == Spec => []TalliedExactly
<1>1. TInv => TalliedExactly
  <2> SUFFICES ASSUME TInv PROVE TalliedExactly
    OBVIOUS
  <2>1. TypeOK
    BY WellFormedIsVoteSet DEF TInv, Sound, TypeOK
  <2>2. vs.sum = Weight({i \in Validators : first[i] # None})
    BY DEF TInv, Sound, SumsExact
  <2>3. \A b \in DOMAIN vs.votes_by_block :
           vs.votes_by_block[b].sum = Weight(vs.votes_by_block[b].votes)
    BY DEF TInv, Sound, SumsExact
  <2>4. ASSUME NEW b \in Values, ~(vs.has_maj23 /\ vs.maj23 = b)
        PROVE  (IF Tracks(vs, b) THEN vs.votes_by_block[b].votes ELSE {})
                  = {i \in Validators : <<i, b>> \in counted}
    <3>1. vs.maj23 # b
      BY <2>4, NoneAssumption DEF TInv, Sound, WellFormed, Values
    <3>2. TallyOf(vs, b).votes = IF Tracks(vs, b) THEN vs.votes_by_block[b].votes ELSE {}
      BY DEF TallyOf, NewBlockVotes
    <3> QED BY <3>1, <3>2 DEF TInv, TalliedIsCounted
  <2> QED BY <2>1, <2>2, <2>3, <2>4 DEF TalliedExactly
<1> QED BY <1>1, TallyInvariance, PTL

\* MajorityIsFinal: the "first quorum" test of add_verified_vote keeps the
\* majority for ever, and no vote leaves the set.
THEOREM MajorityNeverMoves == Spec => MajorityIsFinal
<1> DEFINE Step == /\ vs.has_maj23 => vs'.has_maj23 /\ vs'.maj23 = vs.maj23
                   /\ \A i \in Validators : vs.votes[i] # None => vs'.votes[i] # None
<1>1. TInv /\ [Next]_vars => [Step]_vars
  <2> SUFFICES ASSUME TInv, Next PROVE Step
    OBVIOUS
  <2>1. Sound(vs)
    BY DEF TInv
  <2>2. Extends(vs', vs)
    <3>1. ASSUME NEW i \in Validators, NEW b \in Values, ReceiveVote(i, b)
          PROVE  Extends(vs', vs)
      BY <2>1, <3>1, AddVoteExtends DEF ReceiveVote, TallyExtended
    <3>2. ASSUME NEW p \in Peers, NEW b \in Values, ReceiveClaim(p, b)
          PROVE  Extends(vs', vs)
      BY <2>1, <3>2, SetPeerMaj23Extends DEF ReceiveClaim
    <3> QED BY <3>1, <3>2 DEF Next
  <2> QED BY <2>2 DEF Extends, Voters
<1> QED BY <1>1, TallyInvariance, PTL DEF Spec, MajorityIsFinal

-----------------------------------------------------------------------------
(* The table of blocks.                                                    *)

Claimers == {p \in Peers : vs.peer_maj23s[p] # None}

TableInv ==
    /\ IsFiniteSet(DOMAIN vs.votes_by_block)
    /\ IsFiniteSet(Claimers)
    /\ Cardinality(DOMAIN vs.votes_by_block) <= Cardinality(Voters(vs)) + Cardinality(Claimers)

LEMMA OneMore ==
    ASSUME NEW S, NEW x, IsFiniteSet(S)
    PROVE  /\ IsFiniteSet(S \cup {x}) /\ Cardinality(S \cup {x}) \in Nat
           /\ Cardinality(S) <= Cardinality(S \cup {x})
           /\ Cardinality(S \cup {x}) <= Cardinality(S) + 1
           /\ x \notin S => Cardinality(S \cup {x}) = Cardinality(S) + 1
<1>1. Cardinality(S) \in Nat
  BY FS_CardinalityType
<1>2. /\ IsFiniteSet(S \cup {x})
      /\ Cardinality(S \cup {x}) = IF x \in S THEN Cardinality(S) ELSE Cardinality(S) + 1
  BY FS_AddElement
<1> QED BY <1>1, <1>2, SMT

LEMMA VotersFinite == IsFiniteSet(Voters(vs)) /\ Cardinality(Voters(vs)) \in Nat
<1>1. Voters(vs) \in SUBSET Validators
  BY DEF Voters
<1> QED BY <1>1, FiniteAssumption, FS_Subset, FS_CardinalityType

\* A block enters the table with the first vote of a validator, or with the only
\* claim of a peer.
LEMMA TableInvNext == TInv /\ TableInv /\ [Next]_vars => TableInv'
<1> SUFFICES ASSUME TInv, TableInv, [Next]_vars PROVE TableInv'
  OBVIOUS
<1> DEFINE D == DOMAIN vs.votes_by_block
<1>0. /\ Sound(vs) /\ WellFormed(vs)
      /\ IsFiniteSet(D) /\ Cardinality(D) \in Nat
      /\ IsFiniteSet(Claimers) /\ Cardinality(Claimers) \in Nat
      /\ IsFiniteSet(Voters(vs)) /\ Cardinality(Voters(vs)) \in Nat
      /\ Cardinality(D) <= Cardinality(Voters(vs)) + Cardinality(Claimers)
  BY VotersFinite, FS_CardinalityType DEF TInv, Sound, TableInv
<1>1. ASSUME NEW i \in Validators, NEW b \in Values, ReceiveVote(i, b)
      PROVE  TableInv'
  <2>1. vs' = AddVote(vs, i, b)
    BY <1>1 DEF ReceiveVote
  <2>2. CASE GetVote(vs, i, b)
    BY <2>1, <2>2 DEF AddVote, TableInv, Claimers
  <2>3. CASE ~GetVote(vs, i, b) /\ ~Tallies(vs, i, b)
    <3>1. vs'.votes_by_block = vs.votes_by_block /\ vs'.peer_maj23s = vs.peer_maj23s
      <4>1. VoteRefused(vs', vs, i, b)
        BY <2>1, <2>3, <1>0, AddRefused
      <4> QED BY <4>1 DEF VoteRefused
    <3>2. Voters(vs') = Voters(vs)
      BY <2>1, <2>3, <1>0, AddRefusedSound
    <3> QED BY <3>1, <3>2 DEF TableInv, Claimers
  <2>4. CASE ~GetVote(vs, i, b) /\ Tallies(vs, i, b)
    <3>1. Voters(vs') = Voters(vs) \cup {i}
      BY <2>1, <2>4, <1>0, AddTalliedSound
    <3>2. vs'.peer_maj23s = vs.peer_maj23s /\ DOMAIN vs'.votes_by_block = D \cup {b}
      <4>1. VoteTallied(vs', vs, i, b)
        BY <2>1, <2>4, <1>0, AddTallied
      <4> QED BY <4>1 DEF VoteTallied, WithBlock
    <3>3. Claimers' = Claimers
      BY <3>2 DEF Claimers
    <3>4. CASE b \in D
      <4>1. DOMAIN vs'.votes_by_block = D
        BY <3>2, <3>4
      <4>2. Cardinality(Voters(vs)) <= Cardinality(Voters(vs')) /\ Cardinality(Voters(vs')) \in Nat
        BY <3>1, <1>0, OneMore
      <4> QED BY <4>1, <4>2, <3>3, <1>0, SMT DEF TableInv
    <3>5. CASE b \notin D
      <4>1. i \notin Voters(vs)
        BY <2>4, <3>5 DEF Tallies, Conflicts, Tracks, GetVote, Voters
      <4>2. Cardinality(Voters(vs')) = Cardinality(Voters(vs)) + 1
        BY <3>1, <4>1, <1>0, OneMore
      <4>3. /\ IsFiniteSet(DOMAIN vs'.votes_by_block)
            /\ Cardinality(DOMAIN vs'.votes_by_block) = Cardinality(D) + 1
        <5>1. IsFiniteSet(D \cup {b}) /\ Cardinality(D \cup {b}) = Cardinality(D) + 1
          BY <3>5, <1>0, OneMore
        <5> QED BY <5>1, <3>2
      <4> QED BY <4>2, <4>3, <3>3, <1>0, SMT DEF TableInv
    <3> QED BY <3>4, <3>5
  <2> QED BY <2>2, <2>3, <2>4
<1>2. ASSUME NEW p \in Peers, NEW b \in Values, ReceiveClaim(p, b)
      PROVE  TableInv'
  <2>1. vs' = SetPeerMaj23(vs, p, b)
    BY <1>2 DEF ReceiveClaim
  <2>2. CASE ~PeerMayClaim(vs, p, b)
    BY <2>1, <2>2 DEF SetPeerMaj23, TableInv, Claimers
  <2>3. CASE PeerMayClaim(vs, p, b)
    <3> DEFINE bv == TallyOf(vs, b)
    <3>1. /\ WellFormed(vs')
          /\ vs'.votes_by_block =
                WithBlock(vs, b, [peer_maj23 |-> TRUE, votes |-> bv.votes, sum |-> bv.sum])
          /\ vs'.peer_maj23s = [vs.peer_maj23s EXCEPT ![p] = b]
          /\ vs'.votes = vs.votes /\ vs'.sum = vs.sum
          /\ vs'.has_maj23 = vs.has_maj23 /\ vs'.maj23 = vs.maj23
      BY <2>1, <2>3, <1>0, ClaimHeard, SMT
    <3>2. Voters(vs') = Voters(vs)
      BY <3>1 DEF Voters
    <3>3. DOMAIN vs'.votes_by_block = D \cup {b}
      BY <3>1 DEF WithBlock
    <3>4. Claimers' = Claimers \cup {p} /\ p \notin Claimers
      BY <2>3, <3>1, <1>0, NoneAssumption, SMT DEF Claimers, PeerMayClaim, WellFormed, Values
    <3>5. IsFiniteSet(Claimers') /\ Cardinality(Claimers') = Cardinality(Claimers) + 1
      BY <3>4, <1>0, OneMore
    <3>6. /\ IsFiniteSet(DOMAIN vs'.votes_by_block)
          /\ Cardinality(DOMAIN vs'.votes_by_block) <= Cardinality(D) + 1
          /\ Cardinality(DOMAIN vs'.votes_by_block) \in Nat
      <4>1. /\ IsFiniteSet(D \cup {b}) /\ Cardinality(D \cup {b}) \in Nat
            /\ Cardinality(D \cup {b}) <= Cardinality(D) + 1
        BY <1>0, OneMore
      <4> QED BY <4>1, <3>3
    <3> QED BY <3>2, <3>5, <3>6, <1>0, SMT DEF TableInv
  <2> QED BY <2>2, <2>3
<1>3. CASE UNCHANGED vars
  BY <1>3 DEF vars, TableInv, Claimers
<1> QED BY <1>1, <1>2, <1>3 DEF Next

\* BlocksBounded: the fixed table of CMT_VOTE_SET_MAX_BLOCKS never overflows.
THEOREM TableNeverOverflows == Spec => []BlocksBounded
<1>1. Init => TableInv
  <2> SUFFICES ASSUME Init PROVE TableInv
    OBVIOUS
  <2>1. DOMAIN vs.votes_by_block = {} /\ Claimers = {} /\ Voters(vs) = {}
    BY DEF Init, NewVoteSet, Claimers, Voters
  <2> QED BY <2>1, FS_EmptySet, SMT DEF TableInv
<1>2. TInv /\ TableInv => BlocksBounded
  BY DEF TInv, TableInv, BlocksBounded, Claimers
<1> QED BY <1>1, <1>2, TInvInit, TInvNext, TableInvNext, PTL DEF Spec

-----------------------------------------------------------------------------
(* The vote set that is rebuilt from a commit.                             *)

\* What the commit keeps of i's vote, and the validators of s with b kept.
Kept(i) == IF vs.votes[i] \in Blocks /\ vs.votes[i] # vs.maj23 THEN None ELSE vs.votes[i]
KeptFor(s, b) == {i \in s : Kept(i) = b}

\* The vote set after the entries of s, in whatever order the loop of
\* cmt_commit_to_vote_set takes them.
Restored(s) ==
    [votes          |-> [i \in Validators |-> IF i \in s THEN Kept(i) ELSE None],
     sum            |-> Weight({i \in s : Kept(i) # None}),
     has_maj23      |-> Weight(KeptFor(s, vs.maj23)) >= Quorum,
     maj23          |-> IF Weight(KeptFor(s, vs.maj23)) >= Quorum THEN vs.maj23 ELSE None,
     votes_by_block |-> [b \in {Kept(i) : i \in s} \ {None} |->
                            [peer_maj23 |-> FALSE, votes |-> KeptFor(s, b),
                             sum |-> Weight(KeptFor(s, b))]],
     peer_maj23s    |-> [p \in Peers |-> None]]

LEMMA KeptValues ==
    ASSUME TInv, vs.has_maj23, vs.maj23 \in Blocks, NEW i \in Validators
    PROVE  Kept(i) \in {None, Nil, vs.maj23}
<1>1. vs.votes[i] \in Blocks \cup {Nil, None}
  BY DEF TInv, Sound, WellFormed, Values
<1> QED BY <1>1 DEF Kept

LEMMA RestoredWellFormed ==
    ASSUME TInv, vs.has_maj23, vs.maj23 \in Blocks, NEW s \in SUBSET Validators
    PROVE  WellFormed(Restored(s)) /\ Restored(s) # None
<1> DEFINE r == Restored(s)
<1>1. r = [votes |-> r.votes, sum |-> r.sum, has_maj23 |-> r.has_maj23, maj23 |-> r.maj23,
           votes_by_block |-> r.votes_by_block, peer_maj23s |-> r.peer_maj23s]
  BY DEF Restored
<1>2. r.votes \in [Validators -> Values \cup {None}] /\ r.peer_maj23s \in [Peers -> Values \cup {None}]
  BY KeptValues DEF Restored, Values
<1>3. r.sum \in Nat /\ r.has_maj23 \in BOOLEAN
  BY WeightNat, SMT DEF Restored
<1>4. r.maj23 \in Values \cup {None} /\ (r.has_maj23 <=> r.maj23 # None)
  BY NoneAssumption DEF Restored, Values
<1>5. DOMAIN r.votes_by_block \subseteq Values
  BY KeptValues DEF Restored, Values
<1>6. r.votes_by_block \in [DOMAIN r.votes_by_block -> BlockVotes]
  <2>1. \A b : KeptFor(s, b) \in SUBSET Validators /\ Weight(KeptFor(s, b)) \in Nat
    BY WeightNat DEF KeptFor
  <2> QED BY <2>1 DEF Restored, BlockVotes
<1> HIDE DEF r
<1>7. WellFormed(r)
  BY <1>1, <1>2, <1>3, <1>4, <1>5, <1>6 DEF WellFormed
<1>8. r \in VoteSets
  BY <1>1, <1>2, <1>3, <1>4, <1>5, <1>6 DEF VoteSets
<1> QED BY <1>7, <1>8, NullAssumption DEF r

LEMMA RestoredMajority ==
    ASSUME NEW s
    PROVE  /\ Restored(s).has_maj23 <=> Weight(KeptFor(s, vs.maj23)) >= Quorum
           /\ Restored(s).maj23 = IF Restored(s).has_maj23 THEN vs.maj23 ELSE None
<1>1. Restored(s).has_maj23 = (Weight(KeptFor(s, vs.maj23)) >= Quorum)
  BY DEF Restored
<1>2. Restored(s).maj23 = IF Weight(KeptFor(s, vs.maj23)) >= Quorum THEN vs.maj23 ELSE None
  BY DEF Restored
<1> QED BY <1>1, <1>2

LEMMA RestoredTallies ==
    ASSUME NEW s
    PROVE  /\ DOMAIN Restored(s).votes_by_block = {Kept(i) : i \in s} \ {None}
           /\ \A b \in DOMAIN Restored(s).votes_by_block :
                 Restored(s).votes_by_block[b]
                    = [peer_maj23 |-> FALSE, votes |-> KeptFor(s, b), sum |-> Weight(KeptFor(s, b))]
  BY DEF Restored

\* Nil has no quorum among the kept votes: the majority's voters are not for it.
LEMMA NilNeverCrosses ==
    ASSUME TInv, vs.has_maj23, vs.maj23 \in Blocks, NEW s \in SUBSET Validators
    PROVE  Weight(KeptFor(s, Nil)) < Quorum
<1> DEFINE Q == vs.votes_by_block[vs.maj23].votes
           N == KeptFor(s, Nil)
<1>1. /\ Q \in SUBSET Validators /\ Weight(Q) >= Quorum
      /\ \A i \in Q : vs.votes[i] = vs.maj23
  <2>1. vs.votes_by_block[vs.maj23] \in BlockVotes
    BY DEF TInv, Sound, WellFormed, MajorityBacked, Tracks
  <2> QED BY <2>1, QuorumNat DEF TInv, Sound, MajorityBacked, SumsExact, Tracks, BlockVotes
<1>2. N \in SUBSET Validators /\ Q \cap N = {}
  BY <1>1, NoneAssumption DEF KeptFor, Kept
<1>3. Weight(N) \in Nat
  BY <1>2, WeightNat
<1> HIDE DEF Q, N
<1>4. ~(Weight(N) >= Quorum)
  BY <1>1, <1>2, QuorumsMeet
<1> QED BY <1>3, <1>4, QuorumNat, SMT DEF N

\* One round of the loop adds one entry.
LEMMA RestoreStep ==
    ASSUME TInv, vs.has_maj23, vs.maj23 \in Blocks, NEW s \in SUBSET Validators, NEW x \in s
    PROVE  RestoreVote(MakeCommit(vs), Restored(s \ {x}), x) = Restored(s)
<1> DEFINE c == MakeCommit(vs)
           t == s \ {x}
           r == Restored(t)
           n == Restored(s)
           b == Kept(x)
<1>0. c.block_id = vs.maj23 /\ c.signatures[x] = CommitSig(b)
  BY DEF MakeCommit, Kept
<1>1. b \in {None, Nil, vs.maj23} /\ x \in Validators /\ t \in SUBSET Validators
  BY KeptValues
<1>2. WellFormed(r) /\ r # None /\ WellFormed(n)
  BY <1>1, RestoredWellFormed
<1>3. CASE b = None
  <2>1. RestoreVote(c, r, x) = r
    <3> HIDE DEF c, r, b
    <3>1. c.signatures[x].flag = "absent"
      BY <1>0, <1>3, NoneAssumption, SMT DEF CommitSig
    <3> QED BY <3>1, <1>2 DEF RestoreVote
  <2>2. \A a \in Values : KeptFor(t, a) = KeptFor(s, a)
    BY <1>3, NoneAssumption DEF KeptFor, Values
  <2>3. {i \in t : Kept(i) # None} = {i \in s : Kept(i) # None}
    BY <1>3
  <2>4. {Kept(i) : i \in t} \ {None} = {Kept(i) : i \in s} \ {None}
    BY <1>3
  <2>5. \A i \in Validators : (IF i \in t THEN Kept(i) ELSE None) = IF i \in s THEN Kept(i) ELSE None
    BY <1>3
  <2>6. {Kept(i) : i \in s} \ {None} \subseteq Values
    BY KeptValues DEF Values
  <2>7. r = n
    BY <2>2, <2>3, <2>4, <2>5, <2>6 DEF Restored, Values
  <2> QED BY <2>1, <2>7
<1>4. CASE b # None
  <2>0. b \in Values /\ b \in {Nil, vs.maj23} /\ b # None /\ vs.maj23 # Nil /\ vs.maj23 # None
    BY <1>1, <1>4, NoneAssumption DEF Values
  <2>1. CommitVote(c, x) = b /\ c.signatures[x].signed = b /\ c.signatures[x].flag # "absent"
    <3> HIDE DEF c, b
    <3> QED BY <1>0, <1>1, <1>4, NoneAssumption, SMT DEF CommitVote, CommitSig
  <2>2. r.votes[x] = None
    BY <1>1 DEF Restored
  <2>3. TallyOf(r, b) = [peer_maj23 |-> FALSE, votes |-> KeptFor(t, b), sum |-> Weight(KeptFor(t, b))]
    <3>1. CASE b \in {Kept(i) : i \in t}
      BY <3>1, <2>0 DEF TallyOf, Tracks, Restored
    <3>2. CASE b \notin {Kept(i) : i \in t}
      <4>1. KeptFor(t, b) = {}
        BY <3>2 DEF KeptFor
      <4>2. Weight(KeptFor(t, b)) = 0
        BY <4>1, WeightOfNobody
      <4>3. ~Tracks(r, b)
        BY <3>2 DEF Tracks, Restored
      <4> QED BY <4>1, <4>2, <4>3 DEF TallyOf, NewBlockVotes
    <3> QED BY <3>1, <3>2
  <2>4. x \notin KeptFor(t, b) /\ KeptFor(s, b) = KeptFor(t, b) \cup {x}
    BY DEF KeptFor
  <2>5. Weight(KeptFor(s, b)) = Weight(KeptFor(t, b)) + Power[x]
    <3>1. KeptFor(t, b) \in SUBSET Validators
      BY <1>1 DEF KeptFor
    <3>2. Weight(KeptFor(t, b) \cup {x}) = Weight(KeptFor(t, b)) + Power[x]
      BY <1>1, <2>4, <3>1, WeightAdd
    <3> QED BY <2>4, <3>2
  <2>6. ~GetVote(r, x, b) /\ Tallies(r, x, b)
    <3>1. Tracks(r, b) => r.votes_by_block[b].votes = KeptFor(t, b)
      BY DEF Tracks, Restored
    <3> QED BY <2>0, <2>2, <2>4, <3>1 DEF GetVote, Tallies, Conflicts
  <2>7. RestoreVote(c, r, x) = AddVote(r, x, b)
    <3> HIDE DEF c, r, b
    <3> QED BY <1>2, <2>1, <2>6 DEF RestoreVote, Added
  <2> DEFINE nv == AddVote(r, x, b)
             bv == TallyOf(r, b)
  <2>8. /\ WellFormed(nv)
        /\ x \notin bv.votes
        /\ nv.votes_by_block =
              WithBlock(r, b, [peer_maj23 |-> bv.peer_maj23, votes |-> bv.votes \cup {x},
                               sum |-> bv.sum + Power[x]])
        /\ nv.sum = IF r.votes[x] = None THEN r.sum + Power[x] ELSE r.sum
        /\ nv.peer_maj23s = r.peer_maj23s
        /\ nv.has_maj23 = (r.has_maj23 \/ Crosses(r, x, b))
        /\ nv.maj23 = IF Crosses(r, x, b) THEN b ELSE r.maj23
        /\ nv.votes = [j \in Validators |->
              IF \/ Crosses(r, x, b) /\ j \in bv.votes \cup {x}
                 \/ j = x /\ Replaces(r, x, b)
              THEN b ELSE r.votes[j]]
    <3> HIDE DEF r, b
    <3>1. VoteTallied(nv, r, x, b)
      BY <1>1, <1>2, <2>0, <2>6, AddTallied
    <3> HIDE DEF nv
    <3> QED BY <3>1 DEF VoteTallied
  <2> HIDE DEF nv
  <2>9. nv.peer_maj23s = n.peer_maj23s
    BY <2>8 DEF Restored
  <2>10. nv.sum = n.sum
    <3> DEFINE K(u) == {i \in u : Kept(i) # None}
    <3>1. K(s) = K(t) \cup {x} /\ x \notin K(t) /\ K(t) \in SUBSET Validators
      BY <2>0
    <3>2. Weight(K(t) \cup {x}) = Weight(K(t)) + Power[x]
      <4> HIDE DEF K
      <4> QED BY <1>1, <3>1, WeightAdd
    <3>3. Weight(K(s)) = Weight(K(t)) + Power[x]
      BY <3>1, <3>2
    <3>4. r.sum = Weight(K(t)) /\ n.sum = Weight(K(s))
      BY DEF Restored
    <3> QED BY <2>2, <2>8, <3>3, <3>4
  <2>11. nv.votes_by_block = n.votes_by_block
    <3> DEFINE D    == DOMAIN r.votes_by_block
               E    == DOMAIN n.votes_by_block
               F(a) == [peer_maj23 |-> FALSE, votes |-> KeptFor(s, a), sum |-> Weight(KeptFor(s, a))]
    <3>1. nv.votes_by_block = [a \in D \cup {b} |-> IF a = b THEN F(b) ELSE r.votes_by_block[a]]
      <4>1. [peer_maj23 |-> bv.peer_maj23, votes |-> bv.votes \cup {x}, sum |-> bv.sum + Power[x]] = F(b)
        <5> HIDE DEF b, r
        <5>1. /\ bv.peer_maj23 = FALSE /\ bv.votes \cup {x} = KeptFor(s, b)
              /\ bv.sum + Power[x] = Weight(KeptFor(s, b))
          BY <2>3, <2>4, <2>5, SMT
        <5> HIDE DEF bv
        <5> QED BY <5>1
      <4>2. nv.votes_by_block = WithBlock(r, b, F(b))
        <5> HIDE DEF b, r, F, bv
        <5> QED BY <4>1, <2>8
      <4> HIDE DEF r, b, F, bv
      <4> QED BY <4>2 DEF WithBlock
    <3>2. D \cup {b} = E
      <4>1. D = {Kept(i) : i \in t} \ {None} /\ E = {Kept(i) : i \in s} \ {None}
        BY RestoredTallies
      <4> QED BY <4>1, <2>0
    <3>3. \A a : a # b => KeptFor(t, a) = KeptFor(s, a)
      BY DEF KeptFor
    <3>4. \A a \in E : n.votes_by_block[a] = F(a)
      BY RestoredTallies
    <3>5. \A a \in D : a # b => r.votes_by_block[a] = F(a)
      <4>1. \A a \in D : r.votes_by_block[a] =
               [peer_maj23 |-> FALSE, votes |-> KeptFor(t, a), sum |-> Weight(KeptFor(t, a))]
        BY RestoredTallies
      <4> QED BY <4>1, <3>3
    <3>6. n.votes_by_block = [a \in E |-> n.votes_by_block[a]]
      BY <1>2 DEF WellFormed
    <3> HIDE DEF n, r, b, F, D, E
    <3> QED BY <3>1, <3>2, <3>4, <3>5, <3>6, SMT
  <2>12. Crosses(r, x, b) <=> ~r.has_maj23 /\ n.has_maj23
    <3> DEFINE W(u) == Weight(KeptFor(u, vs.maj23))
    <3>1. (r.has_maj23 <=> W(t) >= Quorum) /\ (n.has_maj23 <=> W(s) >= Quorum)
      BY RestoredMajority
    <3>2. W(t) \in Nat /\ W(s) \in Nat /\ Quorum \in Nat /\ Power[x] \in Nat
      BY <1>1, WeightNat, QuorumNat, PowerAssumption DEF KeptFor
    <3>3. CASE b = vs.maj23
      <4>1. bv.sum = W(t) /\ bv.sum + Power[x] = W(s)
        BY <2>3, <2>5, <3>3, SMT
      <4> HIDE DEF r, n, b, W, bv
      <4> QED BY <3>1, <3>2, <4>1, SMT DEF Crosses, bv
    <3>4. CASE b = Nil
      <4>1. bv.sum + Power[x] = Weight(KeptFor(s, Nil)) /\ Weight(KeptFor(s, Nil)) \in Nat
        BY <2>3, <2>5, <3>4, WeightNat, SMT DEF KeptFor
      <4>2. Weight(KeptFor(s, Nil)) < Quorum
        BY NilNeverCrosses
      <4>3. W(t) = W(s)
        <5>1. KeptFor(t, vs.maj23) = KeptFor(s, vs.maj23)
          BY <3>4, <2>0 DEF KeptFor
        <5> QED BY <5>1
      <4> HIDE DEF r, n, b, W, bv
      <4> QED BY <3>1, <3>2, <4>1, <4>2, <4>3, SMT DEF Crosses, bv
    <3> QED BY <2>0, <3>3, <3>4
  <2>13. r.has_maj23 => n.has_maj23
    <3>1. Weight(KeptFor(t, vs.maj23)) <= Weight(KeptFor(s, vs.maj23))
      BY WeightMonotone DEF KeptFor
    <3>2. Weight(KeptFor(t, vs.maj23)) \in Nat /\ Weight(KeptFor(s, vs.maj23)) \in Nat /\ Quorum \in Nat
      BY WeightNat, QuorumNat DEF KeptFor
    <3>3. /\ r.has_maj23 <=> Weight(KeptFor(t, vs.maj23)) >= Quorum
          /\ n.has_maj23 <=> Weight(KeptFor(s, vs.maj23)) >= Quorum
      BY RestoredMajority
    <3> HIDE DEF r, n
    <3> QED BY <3>1, <3>2, <3>3, SMT
  <2>14. Crosses(r, x, b) => b = vs.maj23
    <3>1. SUFFICES ASSUME b = Nil PROVE ~Crosses(r, x, b)
      BY <2>0
    <3>2. bv.sum + Power[x] = Weight(KeptFor(s, Nil)) /\ Weight(KeptFor(s, Nil)) \in Nat
      BY <2>3, <2>5, <3>1, WeightNat, SMT DEF KeptFor
    <3>3. Weight(KeptFor(s, Nil)) < Quorum
      BY NilNeverCrosses
    <3> HIDE DEF r, n, b, bv
    <3> QED BY <3>2, <3>3, QuorumNat, SMT DEF Crosses, bv
  <2>15. nv.has_maj23 = n.has_maj23 /\ nv.maj23 = n.maj23
    <3>1. r.has_maj23 \in BOOLEAN /\ n.has_maj23 \in BOOLEAN /\ nv.has_maj23 \in BOOLEAN
      BY <1>2, <2>8 DEF WellFormed
    <3>2. /\ r.maj23 = (IF r.has_maj23 THEN vs.maj23 ELSE None)
          /\ n.maj23 = (IF n.has_maj23 THEN vs.maj23 ELSE None)
      BY RestoredMajority
    <3> HIDE DEF r, n, b
    <3> QED BY <3>1, <3>2, <2>8, <2>12, <2>13, <2>14
  <2>16. nv.votes = n.votes
    <3>1. \A j \in bv.votes \cup {x} : n.votes[j] = b
      BY <2>3, <2>4, SMT DEF KeptFor, Restored
    <3>2. \A j \in Validators : j # x => r.votes[j] = n.votes[j]
      BY DEF Restored
    <3>3. Replaces(r, x, b) /\ n.votes \in [Validators -> Values \cup {None}]
      BY <1>2, <2>2 DEF Replaces, WellFormed
    <3> HIDE DEF r, n, b, bv
    <3> QED BY <2>8, <3>1, <3>2, <3>3, SMT
  <2>17. nv = n
    <3> HIDE DEF n
    <3> QED BY <1>2, <2>8, <2>9, <2>10, <2>11, <2>15, <2>16 DEF WellFormed
  <2> QED BY <2>7, <2>17 DEF nv
<1> QED BY <1>3, <1>4

\* The whole loop: the fold of ToVoteSet is unique because every entry is taken
\* once, and Restored is it.
LEMMA ToVoteSetIsRestored ==
    ASSUME TInv, vs.has_maj23, vs.maj23 \in Blocks
    PROVE  ToVoteSet(MakeCommit(vs)) = Restored(Validators)
<1> DEFINE c        == MakeCommit(vs)
           pick(s)  == CHOOSE x \in s : TRUE
           Step(g)  == [s \in SUBSET Validators |->
                          IF s = {} THEN NewVoteSet
                          ELSE RestoreVote(c, g[s \ {pick(s)}], pick(s))]
           it       == CHOOSE g : g = Step(g)
           F        == [s \in SUBSET Validators |-> Restored(s)]
<1>1. ToVoteSet(c) = it[Validators]
  BY DEF ToVoteSet, FoldSet, MapThenFoldSet
<1>2. \A s : s # {} => pick(s) \in s
  OBVIOUS
<1>3. Restored({}) = NewVoteSet
  <2>1. KeptFor({}, vs.maj23) = {} /\ {i \in {} : Kept(i) # None} = {}
    BY DEF KeptFor
  <2>2. ~(Weight(KeptFor({}, vs.maj23)) >= Quorum)
    <3>1. Quorum >= 1
      <4>1. TotalPower \in Nat
        BY QuorumNat
      <4> QED BY <4>1, SMT DEF Quorum
    <3>2. Weight(KeptFor({}, vs.maj23)) = 0
      BY <2>1, WeightOfNobody
    <3> QED BY <3>1, <3>2, QuorumNat, SMT
  <2>3. Weight({i \in {} : Kept(i) # None}) = 0
    BY <2>1, WeightOfNobody
  <2>4. Restored({}).votes_by_block = [b \in {} |-> None]
    <3>1. DOMAIN Restored({}).votes_by_block = {}
      BY RestoredTallies, SMT
    <3>2. Restored({}).votes_by_block = [b \in DOMAIN Restored({}).votes_by_block
                                           |-> Restored({}).votes_by_block[b]]
      BY RestoredWellFormed DEF WellFormed
    <3> QED BY <3>1, <3>2
  <2>5. ~Restored({}).has_maj23 /\ Restored({}).maj23 = None
    BY <2>2, RestoredMajority
  <2>6. /\ Restored({}).votes = [i \in Validators |-> None]
        /\ Restored({}).sum = 0
        /\ Restored({}).peer_maj23s = [p \in Peers |-> None]
    BY <2>3 DEF Restored
  <2> QED BY <2>4, <2>5, <2>6, RestoredWellFormed DEF WellFormed, NewVoteSet
<1>4. F = Step(F)
  <2>1. ASSUME NEW s \in SUBSET Validators
        PROVE  F[s] = IF s = {} THEN NewVoteSet ELSE RestoreVote(c, F[s \ {pick(s)}], pick(s))
    <3>1. CASE s = {}
      BY <3>1, <1>3
    <3>2. CASE s # {}
      <4>1. pick(s) \in s
        BY <3>2, <1>2
      <4> HIDE DEF pick
      <4>2. F[s \ {pick(s)}] = Restored(s \ {pick(s)}) /\ F[s] = Restored(s)
        OBVIOUS
      <4>3. RestoreVote(c, Restored(s \ {pick(s)}), pick(s)) = Restored(s)
        BY <4>1, RestoreStep
      <4> QED BY <3>2, <4>2, <4>3
    <3> QED BY <3>1, <3>2
  <2> HIDE DEF pick, c
  <2> QED BY <2>1
<1>5. it = Step(it)
  <2> HIDE DEF F, Step
  <2> QED BY <1>4
<1>6. \A s \in SUBSET Validators :
         it[s] = IF s = {} THEN NewVoteSet ELSE RestoreVote(c, it[s \ {pick(s)}], pick(s))
  <2> HIDE DEF it, pick, c
  <2> QED BY <1>5
<1> HIDE DEF it, F, Step
<1> DEFINE T == {k \in Nat : \A s \in SUBSET Validators : Cardinality(s) = k => it[s] = Restored(s)}
<1>7. \A s \in SUBSET Validators : IsFiniteSet(s) /\ Cardinality(s) \in Nat
  BY FiniteAssumption, FS_Subset, FS_CardinalityType
<1>8. 0 \in T
  <2> SUFFICES ASSUME NEW s \in SUBSET Validators, Cardinality(s) = 0 PROVE it[s] = Restored(s)
    OBVIOUS
  <2>1. s = {}
    BY <1>7, FS_EmptySet
  <2> QED BY <2>1, <1>3, <1>6
<1>9. ASSUME NEW k \in Nat, k \in T PROVE k + 1 \in T
  <2> SUFFICES ASSUME NEW s \in SUBSET Validators, Cardinality(s) = k + 1 PROVE it[s] = Restored(s)
    BY SMT
  <2> DEFINE x == pick(s)
             t == s \ {x}
  <2>1. s # {}
    <3>1. Cardinality({}) = 0 /\ k + 1 # 0
      BY FS_EmptySet, SMT
    <3> QED BY <3>1
  <2>2. x \in s /\ t \in SUBSET Validators
    BY <2>1, <1>2
  <2>3. Cardinality(t) = k
    <3> HIDE DEF x
    <3>1. Cardinality(t) = Cardinality(s) - 1
      BY <1>7, <2>2, FS_RemoveElement
    <3> QED BY <3>1, SMT
  <2>4. it[t] = Restored(t)
    <3> HIDE DEF x, t
    <3> QED BY <1>9, <2>2, <2>3
  <2>5. it[s] = RestoreVote(c, it[t], x)
    BY <1>6, <2>1
  <2>6. RestoreVote(c, Restored(t), x) = Restored(s)
    <3> HIDE DEF x
    <3> QED BY <2>2, RestoreStep
  <2> QED BY <2>4, <2>5, <2>6
<1>10. Nat \subseteq T
  <2> HIDE DEF T
  <2> QED BY <1>8, <1>9, InductionOnNat
<1>11. it[Validators] = Restored(Validators)
  BY <1>7, <1>10
<1> QED BY <1>1, <1>11

\* CommitRestores: the canonical votes for the majority hold a quorum, and the
\* commit made of them is turned back into a vote set with the same majority by
\* cmt_commit_to_vote_set, no entry refused.
THEOREM CommitsRestore == Spec => []CommitRestores
<1>1. TInv => CommitRestores
  <2> SUFFICES ASSUME TInv, vs.has_maj23
               PROVE  /\ \E S \in SUBSET Validators :
                            Weight(S) >= Quorum /\ \A i \in S : vs.votes[i] = vs.maj23
                      /\ vs.maj23 \in Blocks =>
                            LET restored == ToVoteSet(MakeCommit(vs))
                            IN  restored # None /\ restored.has_maj23
                                /\ restored.maj23 = vs.maj23
    BY DEF CommitRestores
  <2> DEFINE Q == vs.votes_by_block[vs.maj23].votes
  <2>1. /\ Q \in SUBSET Validators /\ Weight(Q) >= Quorum
        /\ \A i \in Q : vs.votes[i] = vs.maj23
    <3>1. vs.votes_by_block[vs.maj23] \in BlockVotes
      BY DEF TInv, Sound, WellFormed, MajorityBacked, Tracks
    <3> QED BY <3>1, QuorumNat DEF TInv, Sound, MajorityBacked, SumsExact, Tracks, BlockVotes
  <2>2. ASSUME vs.maj23 \in Blocks
        PROVE  LET restored == ToVoteSet(MakeCommit(vs))
               IN  restored # None /\ restored.has_maj23 /\ restored.maj23 = vs.maj23
    <3>1. ToVoteSet(MakeCommit(vs)) = Restored(Validators) /\ Restored(Validators) # None
      BY <2>2, ToVoteSetIsRestored, RestoredWellFormed
    <3>2. KeptFor(Validators, vs.maj23) \in SUBSET Validators
          /\ Q \in SUBSET KeptFor(Validators, vs.maj23)
      BY <2>1 DEF KeptFor, Kept
    <3>3. Weight(KeptFor(Validators, vs.maj23)) >= Quorum
      <4> HIDE DEF Q
      <4>1. Weight(Q) <= Weight(KeptFor(Validators, vs.maj23))
        BY <3>2, WeightMonotone
      <4>2. Weight(Q) \in Nat /\ Weight(KeptFor(Validators, vs.maj23)) \in Nat
        BY <3>2, <2>1, WeightNat
      <4> QED BY <4>1, <4>2, <2>1, QuorumNat, SMT
    <3>4. Restored(Validators).has_maj23 /\ Restored(Validators).maj23 = vs.maj23
      BY <3>3, RestoredMajority
    <3> QED BY <3>1, <3>4
  <2> QED BY <2>1, <2>2
<1> QED BY <1>1, TallyInvariance, PTL

=============================================================================
