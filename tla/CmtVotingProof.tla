--------------------------- MODULE CmtVotingProof ---------------------------
(***************************************************************************)
(* Agreement holds for every validator set, every assignment of power with *)
(* less than a third of it faulty, every set of blocks and any number of   *)
(* rounds.                                                                 *)
(*                                                                         *)
(* The argument: a block is choosable in a round when a quorum could still *)
(* precommit it there.  Once a round has a polka for something else, no    *)
(* earlier round's block is choosable any more (PolkaBlocks).  A quorum of *)
(* precommits keeps its block choosable for ever, so every later polka,    *)
(* and with it every later commit, is for the same block.                  *)
(*                                                                         *)
(* The second part takes the agreement from these rules to the network: if *)
(* each honest validator follows them on the votes that it has counted, as *)
(* CmtConsensusProof shows of the state machine, then all together follow  *)
(* them on the votes that exist (NodesCompose).                            *)
(***************************************************************************)
EXTENDS CmtVoting, TLAPS

\* p has not precommitted in round r and still may.
MayPrecommit(p, r) == ~Passed(p, r) /\ ~HasPrecommitted(p, r)

\* A quorum's honest members precommitted b in round r or still may.
Choosable(r, b) == \E Q \in Quorums : \A p \in Q \cap Honest :
                      <<p, r, b>> \in precommits \/ MayPrecommit(p, r)

\* An honest validator precommits one value per round.
OnePrecommit == \A p \in Honest : \A r \in Rounds : \A v, w \in Values :
    <<p, r, v>> \in precommits /\ <<p, r, w>> \in precommits => v = w

\* An honest precommit for a block has its polka.
PrecommitHasPolka == \A p \in Honest : \A r \in Rounds : \A b \in Blocks :
    <<p, r, b>> \in precommits => Polka(r, b)

\* An honest validator that precommitted b and prevoted something else later
\* had a polka for something else in between.
PrevoteWasUnlocked == \A p \in Honest : \A r \in Rounds : \A v \in Values :
    <<p, r, v>> \in prevotes => Unlocked(p, r, v)

\* A polka for something else makes every earlier round's b unchoosable.
PolkaBlocks == \A r, s \in Rounds : \A b \in Blocks : \A w \in Values :
    r < s /\ ~SameBlock(b, w) /\ Polka(s, w) => ~Choosable(r, b)

\* The inductive invariant.
IInv == /\ TypeOK
        /\ OnePrecommit
        /\ PrecommitHasPolka
        /\ PrevoteWasUnlocked
        /\ PolkaBlocks

-----------------------------------------------------------------------------
\* Votes only accumulate, so polkas and quorums stay and the right to
\* precommit, once lost, is lost.
LEMMA Monotone ==
    ASSUME prevotes \subseteq prevotes', precommits \subseteq precommits'
    PROVE  /\ \A r, v : Polka(r, v) => Polka(r, v)'
           /\ \A r, v : CommitQuorum(r, v) => CommitQuorum(r, v)'
           /\ \A p, r : Passed(p, r) => Passed(p, r)'
           /\ \A p, r : HasPrecommitted(p, r) => HasPrecommitted(p, r)'
           /\ \A p, r : MayPrecommit(p, r)' => MayPrecommit(p, r)
<1>1. \A r, v : Polka(r, v) => Polka(r, v)'
  BY DEF Polka
<1>2. \A r, v : CommitQuorum(r, v) => CommitQuorum(r, v)'
  BY DEF CommitQuorum
<1>3. \A p, r : Passed(p, r) => Passed(p, r)'
  BY DEF Passed
<1>4. \A p, r : HasPrecommitted(p, r) => HasPrecommitted(p, r)'
  BY DEF HasPrecommitted
<1>5. \A p, r : MayPrecommit(p, r)' => MayPrecommit(p, r)
  BY <1>3, <1>4 DEF MayPrecommit
<1> QED BY <1>1, <1>2, <1>3, <1>4, <1>5

\* Prevotes for v and precommits of others do not lock p against v.
LEMMA UnlockedStays ==
    ASSUME prevotes \subseteq prevotes', precommits' = precommits,
           NEW p, NEW r, NEW v, Unlocked(p, r, v)
    PROVE  Unlocked(p, r, v)'
  BY Monotone DEF Unlocked

\* A step that leaves the votes alone.
LEMMA SameVotes ==
    ASSUME IInv, UNCHANGED <<prevotes, precommits>>
    PROVE  OnePrecommit' /\ PrecommitHasPolka' /\ PrevoteWasUnlocked' /\ PolkaBlocks'
<1> USE DEF IInv
<1>1. \A r, v : Polka(r, v)' <=> Polka(r, v)
  BY DEF Polka
<1>2. \A r, b : Choosable(r, b)' => Choosable(r, b)
  BY Monotone DEF Choosable
<1>3. OnePrecommit' /\ PrecommitHasPolka'
  BY <1>1 DEF OnePrecommit, PrecommitHasPolka
<1>4. PrevoteWasUnlocked'
  BY UnlockedStays DEF PrevoteWasUnlocked
<1>5. PolkaBlocks'
  BY <1>1, <1>2 DEF PolkaBlocks
<1> QED BY <1>3, <1>4, <1>5

-----------------------------------------------------------------------------
\* The step of do_prevote.  The polka it may complete blocks nothing that an
\* earlier polka has not blocked.
LEMMA PrevoteStep ==
    ASSUME IInv, NEW p \in Honest, NEW r \in Rounds, NEW v \in Values, Prevote(p, r, v)
    PROVE  IInv'
<1> USE DEF IInv
<1>0. prevotes' = prevotes \cup {<<p, r, v>>} /\ precommits' = precommits
  BY DEF Prevote
<1>1. TypeOK'
  BY <1>0, HonestAssumption DEF TypeOK, Votes
<1>2. OnePrecommit' /\ PrecommitHasPolka'
  BY <1>0, Monotone DEF OnePrecommit, PrecommitHasPolka
<1>3. PrevoteWasUnlocked'
  <2> SUFFICES ASSUME NEW q \in Honest, NEW s \in Rounds, NEW w \in Values,
                      <<q, s, w>> \in prevotes'
               PROVE  Unlocked(q, s, w)'
    BY DEF PrevoteWasUnlocked
  <2>1. Unlocked(q, s, w)
    BY <1>0 DEF PrevoteWasUnlocked, Prevote
  <2> QED BY <1>0, <2>1, UnlockedStays
<1>4. PolkaBlocks'
  <2> SUFFICES ASSUME NEW q \in Rounds, NEW s \in Rounds, NEW b \in Blocks, NEW w \in Values,
                      q < s, ~SameBlock(b, w), Polka(s, w)', Choosable(q, b)'
               PROVE  FALSE
    BY DEF PolkaBlocks
  <2>1. PICK C \in Quorums : \A i \in C \cap Honest :
           <<i, q, b>> \in precommits \/ MayPrecommit(i, q)'
    BY <1>0 DEF Choosable
  <2>2. PICK P \in Quorums : \A i \in P : <<i, s, w>> \in prevotes'
    BY DEF Polka
  <2>3. PICK i \in C \cap P : i \in Honest
    BY QuorumAssumption
  <2>4. Passed(i, q)'
    BY <2>2, <2>3 DEF Passed
  <2>5. <<i, q, b>> \in precommits
    BY <2>1, <2>3, <2>4 DEF MayPrecommit
  <2>6. Unlocked(i, s, w)
    BY <1>0, <2>2, <2>3 DEF PrevoteWasUnlocked, Prevote
  <2>7. PICK t \in Rounds, x \in Values : q < t /\ ~SameBlock(b, x) /\ Polka(t, x)
    BY <2>5, <2>6 DEF Unlocked
  <2>8. Choosable(q, b)
    BY <1>0, <2>1, Monotone DEF Choosable
  <2> QED BY <2>7, <2>8 DEF PolkaBlocks
<1> QED BY <1>1, <1>2, <1>3, <1>4

\* The step of enterPrecommit: it uses up a right to precommit.
LEMMA PrecommitStep ==
    ASSUME IInv, NEW p \in Honest, NEW r \in Rounds, NEW v \in Values, Precommit(p, r, v)
    PROVE  IInv'
<1> USE DEF IInv
<1>0. prevotes' = prevotes /\ precommits' = precommits \cup {<<p, r, v>>}
  BY DEF Precommit
<1>1. TypeOK'
  BY <1>0, HonestAssumption DEF TypeOK, Votes
<1>2. OnePrecommit'
  BY <1>0 DEF OnePrecommit, Precommit, HasPrecommitted
<1>3. PrecommitHasPolka'
  BY <1>0, Monotone DEF PrecommitHasPolka, Precommit
<1>4. PrevoteWasUnlocked'
  <2> SUFFICES ASSUME NEW q \in Honest, NEW s \in Rounds, NEW w \in Values,
                      <<q, s, w>> \in prevotes,
                      NEW t \in Rounds, NEW b \in Blocks,
                      t < s, ~SameBlock(b, w), <<q, t, b>> \in precommits'
               PROVE  \E u \in Rounds : \E x \in Values : t < u /\ u <= s /\ ~SameBlock(b, x) /\ Polka(u, x)'
    BY <1>0 DEF PrevoteWasUnlocked, Unlocked
  <2>1. Passed(q, t)
    BY DEF Passed
  <2>2. <<q, t, b>> \in precommits
    BY <1>0, <2>1 DEF Precommit
  <2> QED BY <1>0, <2>2, Monotone DEF PrevoteWasUnlocked, Unlocked
<1>5. PolkaBlocks'
  <2>1. \A s, w : Polka(s, w)' => Polka(s, w)
    BY <1>0 DEF Polka
  <2>2. \A q, b : Choosable(q, b)' => Choosable(q, b)
    <3> SUFFICES ASSUME NEW q, NEW b, NEW i,
                        <<i, q, b>> \in precommits' \/ MayPrecommit(i, q)'
                 PROVE  <<i, q, b>> \in precommits \/ MayPrecommit(i, q)
      BY DEF Choosable
    <3>1. CASE MayPrecommit(i, q)'
      BY <1>0, <3>1, Monotone
    <3>2. CASE <<i, q, b>> \in precommits'
      BY <1>0, <3>2 DEF Precommit, MayPrecommit
    <3> QED BY <3>1, <3>2
  <2> QED BY <2>1, <2>2 DEF PolkaBlocks
<1> QED BY <1>1, <1>2, <1>3, <1>4, <1>5

\* The step of a faulty validator: a polka that it completes has an honest
\* member in common with every quorum that could still commit.
LEMMA FaultyStep ==
    ASSUME IInv, NEW p \in Validators \ Honest, NEW r \in Rounds, NEW v \in Values,
           FaultyVote(p, r, v)
    PROVE  IInv'
<1> USE DEF IInv
<1>0. /\ prevotes \subseteq prevotes' /\ precommits \subseteq precommits'
      /\ prevotes' \subseteq prevotes \cup {<<p, r, v>>}
      /\ precommits' \subseteq precommits \cup {<<p, r, v>>}
  BY DEF FaultyVote
<1>1. \A i \in Honest : \A s, w : /\ <<i, s, w>> \in prevotes' <=> <<i, s, w>> \in prevotes
                                  /\ <<i, s, w>> \in precommits' <=> <<i, s, w>> \in precommits
  BY <1>0
<1>2. TypeOK'
  BY <1>0 DEF TypeOK, Votes
<1>3. OnePrecommit' /\ PrecommitHasPolka'
  BY <1>0, <1>1, Monotone DEF OnePrecommit, PrecommitHasPolka
<1>4. PrevoteWasUnlocked'
  BY <1>0, <1>1, Monotone DEF PrevoteWasUnlocked, Unlocked
<1>5. PolkaBlocks'
  <2> SUFFICES ASSUME NEW q \in Rounds, NEW s \in Rounds, NEW b \in Blocks, NEW w \in Values,
                      q < s, ~SameBlock(b, w), Polka(s, w)', Choosable(q, b)'
               PROVE  FALSE
    BY DEF PolkaBlocks
  <2>1. PICK C \in Quorums : \A i \in C \cap Honest :
           <<i, q, b>> \in precommits \/ MayPrecommit(i, q)'
    BY <1>1 DEF Choosable
  <2>2. PICK P \in Quorums : \A i \in P : <<i, s, w>> \in prevotes'
    BY DEF Polka
  <2>3. PICK i \in C \cap P : i \in Honest
    BY QuorumAssumption
  <2>4. Passed(i, q)'
    BY <2>2, <2>3 DEF Passed
  <2>5. <<i, q, b>> \in precommits /\ <<i, s, w>> \in prevotes
    BY <1>1, <2>1, <2>2, <2>3, <2>4 DEF MayPrecommit
  <2>6. PICK t \in Rounds, x \in Values : q < t /\ ~SameBlock(b, x) /\ Polka(t, x)
    BY <2>3, <2>5 DEF PrevoteWasUnlocked, Unlocked
  <2>7. Choosable(q, b)
    BY <1>0, <2>1, Monotone DEF Choosable
  <2> QED BY <2>6, <2>7 DEF PolkaBlocks
<1> QED BY <1>2, <1>3, <1>4, <1>5

-----------------------------------------------------------------------------
\* No honest validator has voted in the initial state.
LEMMA InitInvariant == Init => IInv
<1> SUFFICES ASSUME Init PROVE IInv
  OBVIOUS
<1>1. \A i \in Honest : \A r, v : <<i, r, v>> \notin prevotes /\ <<i, r, v>> \notin precommits
  BY EarlyAssumption DEF Init
<1>2. TypeOK
  BY EarlyAssumption DEF Init, TypeOK, Votes, Values
<1>3. \A r, v : ~Polka(r, v)
  BY <1>1, QuorumAssumption DEF Polka
<1> QED BY <1>1, <1>2, <1>3 DEF Init, IInv, OnePrecommit, PrecommitHasPolka, PrevoteWasUnlocked,
                                PolkaBlocks

\* Every step preserves the invariant.
LEMMA NextInvariant == IInv /\ [Next]_vars => IInv'
<1> SUFFICES ASSUME IInv, [Next]_vars PROVE IInv'
  OBVIOUS
<1>1. CASE Next
  BY <1>1, PrevoteStep, PrecommitStep, FaultyStep DEF Next
<1>2. CASE UNCHANGED vars
  <2>1. TypeOK'
    BY <1>2 DEF vars, IInv, TypeOK
  <2> QED BY <1>2, <2>1, SameVotes DEF vars, IInv
<1> QED BY <1>1, <1>2

\* Two quorums of precommits are for the same block.
LEMMA QuorumsAgree ==
    ASSUME IInv, NEW r \in Rounds, NEW s \in Rounds, NEW b \in Blocks, NEW c \in Blocks,
           CommitQuorum(r, b), CommitQuorum(s, c), r <= s
    PROVE  Hash[b] = Hash[c]
<1> USE DEF IInv
<1>1. PICK P \in Quorums : \A i \in P : <<i, r, b>> \in precommits
  BY DEF CommitQuorum
<1>2. PICK Q \in Quorums : \A i \in Q : <<i, s, c>> \in precommits
  BY DEF CommitQuorum
<1>3. PICK i \in P \cap Q : i \in Honest
  BY QuorumAssumption
<1>4. CASE r = s
  BY <1>1, <1>2, <1>3, <1>4 DEF OnePrecommit, Values
<1>5. CASE r < s
  <2>1. Polka(s, c)
    BY <1>2, <1>3 DEF PrecommitHasPolka
  <2>2. Choosable(r, b)
    BY <1>1 DEF Choosable
  <2> QED BY <1>5, <2>1, <2>2 DEF PolkaBlocks, SameBlock, Values
<1> QED BY <1>4, <1>5, RoundsAssumption

\* The inductive invariant holds in every reachable state.
THEOREM Invariance == Spec => []IInv
  BY InitInvariant, NextInvariant, PTL DEF Spec

\* The lock and unlock rules of cmt_cs.c keep two commits of one height equal,
\* in any number of rounds, for every voting power with less than a third faulty.
THEOREM Safety == Spec => []Agreement
<1>1. IInv => Agreement
  <2> SUFFICES ASSUME IInv, NEW r \in Rounds, NEW s \in Rounds, NEW b \in Blocks, NEW c \in Blocks,
                      CommitQuorum(r, b), CommitQuorum(s, c)
               PROVE  Hash[b] = Hash[c]
    BY DEF Agreement
  <2>1. r <= s \/ s <= r
    BY RoundsAssumption
  <2> QED BY <2>1, QuorumsAgree
<1> QED BY <1>1, Invariance, PTL

-----------------------------------------------------------------------------
(* From one node to the network.  CmtConsensus shows of one node that it   *)
(* follows the rules on the votes that it has counted.  Here every honest  *)
(* validator is such a node, and counts others' votes only once they exist.*)

VARIABLE counted    \* the votes that each honest node has counted

netvars == <<prevotes, precommits, counted>>

Types == {"prevote", "precommit"}

\* The specification that CmtConsensus implements, for node p.
Node(p) == INSTANCE CmtVoting WITH
    Honest     <- {p},
    Early      <- {},
    prevotes   <- counted[p]["prevote"],
    precommits <- counted[p]["precommit"]

NetInit == Init /\ counted = [p \in Honest |-> [t \in Types |-> {}]]

\* Node p counts a vote as its own specification allows: its own vote, which its
\* peers get from there, or a vote of another validator that has reached it.
Count(p, t, v) ==
    /\ counted' = [counted EXCEPT ![p][t] = @ \cup {v}]
    /\ Node(p)!Next
    /\ \/ /\ v[1] = p
          /\ prevotes' = IF t = "prevote" THEN prevotes \cup {v} ELSE prevotes
          /\ precommits' = IF t = "precommit" THEN precommits \cup {v} ELSE precommits
       \/ /\ v[1] # p
          /\ v \in IF t = "prevote" THEN prevotes ELSE precommits
          /\ UNCHANGED vars

NetNext ==
    \/ \E p \in Honest, t \in Types, v \in Votes : Count(p, t, v)
    \/ /\ \E p \in Validators \ Honest, r \in Rounds, v \in Values : FaultyVote(p, r, v)
       /\ UNCHANGED counted

NetSpec == NetInit /\ [][NetNext]_netvars

\* Two nodes that hold commits hold them for the same block: with DecisionBacked
\* of CmtConsensus, no two nodes decide differently.
NodesAgree ==
    \A p, q \in Honest : \A r, s \in Rounds : \A b, c \in Blocks :
        Node(p)!CommitQuorum(r, b) /\ Node(q)!CommitQuorum(s, c) => Hash[b] = Hash[c]

\* A node counts votes that exist, and all of its own.
CountedExist ==
    /\ counted \in [Honest -> [Types -> SUBSET Votes]]
    /\ \A p \in Honest : /\ counted[p]["prevote"] \subseteq prevotes
                         /\ counted[p]["precommit"] \subseteq precommits
                         /\ \A v \in prevotes : v[1] = p => v \in counted[p]["prevote"]
                         /\ \A v \in precommits : v[1] = p => v \in counted[p]["precommit"]

\* What a node may do on the votes that it has counted it may do on all votes:
\* votes only add polkas, and of its own votes it has counted each.
LEMMA LocalRulesSuffice ==
    ASSUME CountedExist, NEW p \in Honest, NEW r \in Rounds, NEW v \in Values
    PROVE  /\ Node(p)!Polka(r, v) => Polka(r, v)
           /\ Node(p)!CommitQuorum(r, v) => CommitQuorum(r, v)
           /\ ~Node(p)!Passed(p, r) => ~Passed(p, r)
           /\ ~Node(p)!HasPrevoted(p, r) => ~HasPrevoted(p, r)
           /\ ~Node(p)!HasPrecommitted(p, r) => ~HasPrecommitted(p, r)
           /\ Node(p)!Unlocked(p, r, v) => Unlocked(p, r, v)
<1>1. \A s, w : Node(p)!Polka(s, w) => Polka(s, w)
  BY DEF CountedExist, Polka, Node!Polka
<1>2. \A s, w : Node(p)!CommitQuorum(s, w) => CommitQuorum(s, w)
  BY DEF CountedExist, CommitQuorum, Node!CommitQuorum
<1>3. \A s, w : /\ <<p, s, w>> \in prevotes => <<p, s, w>> \in counted[p]["prevote"]
                /\ <<p, s, w>> \in precommits => <<p, s, w>> \in counted[p]["precommit"]
  BY DEF CountedExist
<1>4. ~Node(p)!Passed(p, r) => ~Passed(p, r)
  BY <1>3 DEF Passed, Node!Passed, Node!Values, Values
<1>5. ~Node(p)!HasPrevoted(p, r) => ~HasPrevoted(p, r)
  BY <1>3 DEF HasPrevoted, Node!HasPrevoted, Node!Values, Values
<1>6. ~Node(p)!HasPrecommitted(p, r) => ~HasPrecommitted(p, r)
  BY <1>3 DEF HasPrecommitted, Node!HasPrecommitted, Node!Values, Values
<1>7. Node(p)!Unlocked(p, r, v) => Unlocked(p, r, v)
  BY <1>1, <1>3 DEF Unlocked, Node!Unlocked, SameBlock, Node!SameBlock, Node!Values, Values
<1> QED BY <1>1, <1>2, <1>4, <1>5, <1>6, <1>7

\* A node that lets a vote of its own out takes a step of the network's rules.
LEMMA OwnVoteStep ==
    ASSUME CountedExist, NEW p \in Honest, NEW t \in Types, NEW v \in Votes, Count(p, t, v), v[1] = p
    PROVE  Next
<1>0. /\ counted'[p]["prevote"] = IF t = "prevote" THEN counted[p]["prevote"] \cup {v} ELSE counted[p]["prevote"]
      /\ counted'[p]["precommit"] = IF t = "precommit" THEN counted[p]["precommit"] \cup {v} ELSE counted[p]["precommit"]
  BY DEF Count, CountedExist, Types
<1>1. /\ prevotes' = IF t = "prevote" THEN prevotes \cup {v} ELSE prevotes
      /\ precommits' = IF t = "precommit" THEN precommits \cup {v} ELSE precommits
  BY DEF Count
<1>2. CASE \E r \in Rounds, w \in Values : Node(p)!Prevote(p, r, w)
  <2>1. PICK r \in Rounds, w \in Values : Node(p)!Prevote(p, r, w)
    BY <1>2
  <2>2. /\ counted'[p]["prevote"] = counted[p]["prevote"] \cup {<<p, r, w>>}
        /\ counted'[p]["precommit"] = counted[p]["precommit"]
        /\ ~Node(p)!Passed(p, r) /\ ~Node(p)!HasPrevoted(p, r) /\ ~Node(p)!HasPrecommitted(p, r)
        /\ Node(p)!Unlocked(p, r, w)
    BY <2>1 DEF Node!Prevote
  <2>3. <<p, r, w>> \notin counted[p]["prevote"]
    BY <2>2 DEF Node!HasPrevoted, Node!Values, Values
  <2>4. t = "prevote" /\ v = <<p, r, w>>
    BY <1>0, <2>2, <2>3 DEF Types
  <2>5. Prevote(p, r, w)
    BY <1>1, <2>2, <2>4, LocalRulesSuffice DEF Prevote
  <2> QED BY <2>5 DEF Next
<1>3. CASE \E r \in Rounds, w \in Values : Node(p)!Precommit(p, r, w)
  <2>1. PICK r \in Rounds, w \in Values : Node(p)!Precommit(p, r, w)
    BY <1>3
  <2>2. /\ counted'[p]["precommit"] = counted[p]["precommit"] \cup {<<p, r, w>>}
        /\ counted'[p]["prevote"] = counted[p]["prevote"]
        /\ ~Node(p)!Passed(p, r) /\ ~Node(p)!HasPrecommitted(p, r)
        /\ w \in Blocks => Node(p)!Polka(r, w)
    BY <2>1 DEF Node!Precommit
  <2>3. <<p, r, w>> \notin counted[p]["precommit"]
    BY <2>2 DEF Node!HasPrecommitted, Node!Values, Values
  <2>4. t = "precommit" /\ v = <<p, r, w>>
    BY <1>0, <2>2, <2>3 DEF Types
  <2>5. Precommit(p, r, w)
    BY <1>1, <2>2, <2>4, LocalRulesSuffice DEF Precommit
  <2> QED BY <2>5 DEF Next
<1>4. CASE \E q \in Validators \ {p}, r \in Rounds, w \in Values : Node(p)!FaultyVote(q, r, w)
  <2>1. PICK q \in Validators \ {p}, r \in Rounds, w \in Values : Node(p)!FaultyVote(q, r, w)
    BY <1>4
  <2>2. v = <<q, r, w>>
    BY <1>0, <2>1 DEF Node!FaultyVote, Types
  <2> QED BY <2>2
<1>5. Node(p)!Next
  BY DEF Count
<1> QED BY <1>2, <1>3, <1>4, <1>5 DEF Node!Next, Node!Values, Values

\* Every step of the network is a step of the rules, or none of their business,
\* and keeps what nodes have counted among what exists.
LEMMA NetStep ==
    ASSUME CountedExist, [NetNext]_netvars
    PROVE  [Next]_vars /\ CountedExist'
<1>1. CASE UNCHANGED netvars
  BY <1>1 DEF netvars, vars, CountedExist
<1>2. ASSUME NEW p \in Honest, NEW t \in Types, NEW v \in Votes, Count(p, t, v)
      PROVE  [Next]_vars /\ CountedExist'
  <2>1. counted' \in [Honest -> [Types -> SUBSET Votes]]
    BY <1>2 DEF Count, CountedExist
  <2>2. /\ \A q \in Honest : q # p => counted'[q] = counted[q]
        /\ counted'[p]["prevote"] = IF t = "prevote" THEN counted[p]["prevote"] \cup {v} ELSE counted[p]["prevote"]
        /\ counted'[p]["precommit"] = IF t = "precommit" THEN counted[p]["precommit"] \cup {v} ELSE counted[p]["precommit"]
    BY <1>2 DEF Count, CountedExist, Types
  <2>3. CASE v[1] = p
    <3>1. /\ prevotes' = IF t = "prevote" THEN prevotes \cup {v} ELSE prevotes
          /\ precommits' = IF t = "precommit" THEN precommits \cup {v} ELSE precommits
      BY <1>2, <2>3 DEF Count
    <3>2. CountedExist'
      BY <2>1, <2>2, <2>3, <3>1 DEF CountedExist, Types
    <3> QED BY <1>2, <2>3, <3>2, OwnVoteStep
  <2>4. CASE v[1] # p
    <3>1. UNCHANGED vars /\ v \in IF t = "prevote" THEN prevotes ELSE precommits
      BY <1>2, <2>4 DEF Count
    <3>2. CountedExist'
      BY <2>1, <2>2, <3>1 DEF CountedExist, vars, Types
    <3> QED BY <3>1, <3>2
  <2> QED BY <2>3, <2>4
<1>3. ASSUME NEW p \in Validators \ Honest, NEW r \in Rounds, NEW v \in Values, FaultyVote(p, r, v), UNCHANGED counted
      PROVE  [Next]_vars /\ CountedExist'
  <2>1. Next
    BY <1>3 DEF Next
  <2>2. CountedExist'
    BY <1>3 DEF FaultyVote, CountedExist
  <2> QED BY <2>1, <2>2
<1> QED BY <1>1, <1>2, <1>3 DEF NetNext

\* At the start nothing is counted, and the votes that exist are faulty ones.
LEMMA NetStart == NetInit => Init /\ CountedExist
<1> SUFFICES ASSUME NetInit PROVE Init /\ CountedExist
  OBVIOUS
<1>1. \A p \in Honest : counted[p]["prevote"] = {} /\ counted[p]["precommit"] = {}
  BY DEF NetInit, Types
<1>2. \A p \in Honest : \A v \in Early : v[1] # p
  BY EarlyAssumption
<1> QED BY <1>1, <1>2 DEF NetInit, Init, CountedExist

\* A network whose honest validators each follow the rules on the votes they have
\* counted, as CmtConsensus shows of one node (FollowsTheRules), follows the rules
\* on all votes that exist.
THEOREM NodesCompose == NetSpec => Spec
<1> QED BY NetStart, NetStep, PTL DEF NetSpec, Spec

\* No two nodes of such a network hold commits for different blocks, however their
\* messages are delayed, lost or reordered.
THEOREM NetworkAgrees == NetSpec => []NodesAgree
<1>1. CountedExist /\ Agreement => NodesAgree
  BY LocalRulesSuffice DEF NodesAgree, Agreement, Values
<1> QED BY <1>1, NetStart, NetStep, NodesCompose, Safety, PTL DEF NetSpec
=============================================================================
