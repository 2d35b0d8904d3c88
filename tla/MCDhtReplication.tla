-------------------------- MODULE MCDhtReplication --------------------------
(* Two nodes, and clients that write the same key at both.                 *)
EXTENDS DhtReplication

MCNodes == 1..2
MCOwners == 1..2
P(n, o, s, h, x, t) == [at |-> n, owner |-> o, seq |-> s, hash |-> h, excl |-> x, ttl |-> t]
\* Two seeds that list each other; a node that joined through the other one.
Mutual == <<{2}, {1}>>
Joined == <<{}, {1}>>
\* Two writes of one seq; an older one and a newer one that expires; a key claimed by
\* two owners.
SameSeq == {P(1, 1, 1, 1, FALSE, 0), P(2, 1, 1, 2, FALSE, 0)}
OldAndNew == {P(1, 1, 1, 2, FALSE, 0), P(2, 1, 2, 1, FALSE, 1)}
Claimed == {P(1, 1, 1, 1, FALSE, 0), P(2, 2, 1, 1, TRUE, 0)}
MCWorlds == ({Mutual, Joined} \X {SameSeq, Claimed}) \cup {<<Mutual, OldAndNew>>}
=============================================================================
