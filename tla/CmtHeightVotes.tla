--------------------------- MODULE CmtHeightVotes ---------------------------
(***************************************************************************)
(* The votes of one height: cmt_hvs_t of shared/dnac/cmt_hvs.c, a prevote  *)
(* and a precommit tally for every round that is tracked, and the rounds   *)
(* that each peer opened ahead of the node.                                *)
(***************************************************************************)
EXTENDS CmtVoteSet

CONSTANTS
    MaxRound      \* the last round of the instance

ASSUME MaxRoundAssumption == MaxRound \in Nat

\* Rounds that votes can name; SetRound reaches one further, and one below 0.
Rounds == 0..MaxRound
TrackedRounds == -1..(MaxRound + 1)
VoteTypes == {"prevote", "precommit"}

\* Each peer may open this many rounds that the node does not track.
MaxCatchup == 2

NewRoundVotes == [t \in VoteTypes |-> NewVoteSet]

\* hvs_new and cmt_hvs_reset
NewHeightVotes ==
    [round   |-> 0,
     sets    |-> [r \in {0} |-> NewRoundVotes],
     catchup |-> [p \in Peers |-> {}]]

IsHeightVotes(hvs) ==
    /\ hvs.round \in TrackedRounds
    /\ DOMAIN hvs.sets \subseteq TrackedRounds
    /\ \A r \in DOMAIN hvs.sets : \A t \in VoteTypes : IsVoteSet(hvs.sets[r][t])
    /\ hvs.catchup \in [Peers -> SUBSET Rounds]

\* add_round for the rounds of R that are not tracked yet.
AddRounds(hvs, R) ==
    [hvs EXCEPT !.sets = [r \in DOMAIN @ \cup R |->
                            IF r \in DOMAIN @ THEN @[r] ELSE NewRoundVotes]]

\* cmt_hvs_set_round
SetRound(hvs, r) == [AddRounds(hvs, (hvs.round - 1)..r) EXCEPT !.round = r]

\* get_vote_set; an untracked round reads as an empty set.
VotesOf(hvs, r, t) == IF r \in DOMAIN hvs.sets THEN hvs.sets[r][t] ELSE NewVoteSet

\* cmt_vote_set_two_thirds_majority: the block of the majority, or None.
Maj23(hvs, r, t) == VotesOf(hvs, r, t).maj23

\* The vote's round is tracked, or the peer may still open it.
Wants(hvs, r, p) == r \in DOMAIN hvs.sets \/ Cardinality(hvs.catchup[p]) < MaxCatchup

Opened(hvs, r, p) ==
    IF r \in DOMAIN hvs.sets THEN hvs ELSE [AddRounds(hvs, {r}) EXCEPT !.catchup[p] = @ \cup {r}]

\* cmt_hvs_add_vote: the vote set that gets the vote, what it reports, and the
\* height's votes after it.
HvsAddVote(hvs, v, p) ==
    IF Wants(hvs, v.round, p)
    THEN [Opened(hvs, v.round, p) EXCEPT !.sets[v.round][v.type] = AddVote(@, v.val, v.block)]
    ELSE hvs
HvsAdded(hvs, v, p) ==
    Wants(hvs, v.round, p) /\ Added(VotesOf(hvs, v.round, v.type), v.val, v.block)
HvsConflicting(hvs, v, p) ==
    Wants(hvs, v.round, p) /\ Conflicting(VotesOf(hvs, v.round, v.type), v.val, v.block)

\* cmt_hvs_pol_info: the last round, up to the current one, with a majority of
\* prevotes; -1 without one.
PolRound(hvs) ==
    Max({-1} \cup {r \in DOMAIN hvs.sets : 0 <= r /\ r <= hvs.round
                                           /\ HasTwoThirdsMajority(hvs.sets[r]["prevote"])})

\* cmt_hvs_set_peer_maj23
HvsSetPeerMaj23(hvs, r, t, p, b) ==
    IF r \in DOMAIN hvs.sets
    THEN [hvs EXCEPT !.sets[r][t] = SetPeerMaj23(@, p, b)]
    ELSE hvs

=============================================================================
