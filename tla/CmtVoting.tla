----------------------------- MODULE CmtVoting -----------------------------
(***************************************************************************)
(* What the consensus state machine of shared/dnac/cmt_cs.c promises the   *)
(* network at one height, as rules on the votes it lets out:               *)
(*   - votes leave in the order of (round, step), one per (round, step);   *)
(*   - a precommit for a block needs +2/3 prevotes for it in that round;   *)
(*   - a validator that precommitted a block prevotes something else only  *)
(*     after +2/3 prevotes for something else in a later round.            *)
(* The state is the set of signed votes that exist, wherever they are on   *)
(* their way: a validator that receives some of them knows a part of it.   *)
(* CmtConsensus implements these rules for one validator.                  *)
(***************************************************************************)
EXTENDS Integers

CONSTANTS
    Validators,   \* the validator set of the height
    Honest,       \* the validators that run the code
    Early,        \* votes of faulty validators that exist from the start
    Quorums,      \* the sets of validators with more than 2/3 of the power
    Blocks,       \* block identifiers
    Hash,         \* the hash in an identifier; the rest names a part set
    Nil,          \* the nil vote
    Rounds        \* the rounds of the height

ASSUME HonestAssumption == Honest \subseteq Validators
ASSUME RoundsAssumption == Rounds \subseteq Nat
ASSUME NilAssumption == Nil \notin Blocks
ASSUME EarlyAssumption ==
    Early \subseteq (Validators \ Honest) \X Rounds \X (Blocks \cup {Nil})

\* Less than a third of the power is faulty: two quorums share an honest
\* validator.
ASSUME QuorumAssumption ==
    /\ Quorums \subseteq SUBSET Validators
    /\ \A P, Q \in Quorums : P \cap Q \cap Honest # {}

VARIABLES
    prevotes,     \* the prevotes let out so far, as <<validator, round, value>>
    precommits    \* the precommits let out so far

vars == <<prevotes, precommits>>

Values == Blocks \cup {Nil}
Votes == Validators \X Rounds \X Values

-----------------------------------------------------------------------------
\* +2/3 of the power prevoted v in round r.
Polka(r, v) == \E Q \in Quorums : \A p \in Q : <<p, r, v>> \in prevotes

\* +2/3 of the power precommitted v in round r.
CommitQuorum(r, v) == \E Q \in Quorums : \A p \in Q : <<p, r, v>> \in precommits

\* p has let a vote of a round above r out.
Passed(p, r) == \E q \in Rounds : \E v \in Values :
                   q > r /\ (<<p, q, v>> \in prevotes \/ <<p, q, v>> \in precommits)

HasPrevoted(p, r) == \E v \in Values : <<p, r, v>> \in prevotes
HasPrecommitted(p, r) == \E v \in Values : <<p, r, v>> \in precommits

\* v names the block that b names, be it under another part set.
SameBlock(b, v) == v \in Blocks /\ Hash[v] = Hash[b]

\* Faulty variant: the lock is forgotten when the round changes.
LockForgotten(p, r, v) == TRUE

\* Every block p precommitted in an earlier round and that v does not name has
\* been overtaken by a polka for something else, later than that precommit.
Unlocked(p, r, v) ==
    \A q \in Rounds : \A b \in Blocks :
        q < r /\ ~SameBlock(b, v) /\ <<p, q, b>> \in precommits =>
            \E s \in Rounds : \E w \in Values :
                q < s /\ s <= r /\ ~SameBlock(b, w) /\ Polka(s, w)

-----------------------------------------------------------------------------
Init == prevotes = Early /\ precommits = Early

\* A faulty validator signs what it likes, when it likes.
FaultyVote(p, r, v) ==
    \/ /\ <<p, r, v>> \notin prevotes
       /\ prevotes' = prevotes \cup {<<p, r, v>>} /\ UNCHANGED precommits
    \/ /\ <<p, r, v>> \notin precommits
       /\ precommits' = precommits \cup {<<p, r, v>>} /\ UNCHANGED prevotes

\* enterPrevote lets a prevote for v out.
Prevote(p, r, v) ==
    /\ prevotes' = prevotes \cup {<<p, r, v>>} /\ UNCHANGED precommits
    /\ ~Passed(p, r) /\ ~HasPrevoted(p, r) /\ ~HasPrecommitted(p, r)
    /\ Unlocked(p, r, v)

\* enterPrecommit lets a precommit for v out.
Precommit(p, r, v) ==
    /\ precommits' = precommits \cup {<<p, r, v>>} /\ UNCHANGED prevotes
    /\ ~Passed(p, r) /\ ~HasPrecommitted(p, r)
    /\ v \in Blocks => Polka(r, v)

Next == \/ \E p \in Honest, r \in Rounds, v \in Values : Prevote(p, r, v) \/ Precommit(p, r, v)
        \/ \E p \in Validators \ Honest, r \in Rounds, v \in Values : FaultyVote(p, r, v)

Spec == Init /\ [][Next]_vars

-----------------------------------------------------------------------------
\* The votes are well formed.
TypeOK == prevotes \subseteq Votes /\ precommits \subseteq Votes

\* No two blocks of a height have commits, whatever the rounds of those are: the
\* purpose of the lock that enterPrecommit sets and of the unlock rule that
\* cs_add_vote_prevote applies.  (One block may have two commits, that name two
\* part sets of it.)  A node decides only on a commit, so no two nodes decide
\* differently.
Agreement == \A r, s \in Rounds : \A b, c \in Blocks :
    CommitQuorum(r, b) /\ CommitQuorum(s, c) => Hash[b] = Hash[c]

=============================================================================
