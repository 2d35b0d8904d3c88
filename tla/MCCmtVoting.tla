---------------------------- MODULE MCCmtVoting ----------------------------
(* Three honest validators and a faulty one of equal power, which has all  *)
(* its votes ready but the nil votes of the last round.                    *)
EXTENDS CmtVoting, FiniteSets, TLC

MCRounds == 0..1
MCHash == [b \in Blocks |-> b]
MCQuorums == {Q \in SUBSET Validators : Cardinality(Q) >= 3}
MCEarly == ((Validators \ Honest) \X MCRounds \X Values) \ ((Validators \ Honest) \X {1} \X {Nil})
MCSymmetry == Permutations(Honest) \cup Permutations(Blocks)

=============================================================================
