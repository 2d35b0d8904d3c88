------------------------------ MODULE CmtBsync ------------------------------
(***************************************************************************)
(* The block sync reactor of shared/dnac/cmt_bsync_reactor.c over the pool *)
(* of CmtBsyncPool, with the rows nodus_witness_p2p.c gives it: a node     *)
(* that is behind fetches blocks 1, 2, ... from its peers, verifies each   *)
(* with the commit the next one carries, applies it, and switches to       *)
(* consensus when it has caught up.                                        *)
(*                                                                         *)
(* One event loop owns the reactor, so a handler is one step: a message of *)
(* a peer (Receive), a lost connection, and the tick, each with the peers  *)
(* it stops, which process_pending_stops takes down before the handler     *)
(* returns to the loop.  The clock moves between the steps (TimeoutDue,    *)
(* RetryDue, BanOver).                                                     *)
(*                                                                         *)
(* Peers outside Faulty serve the chain they reported, when they get to    *)
(* it.  A peer in Faulty reports any range of Ranges and sends any block   *)
(* of Sendable at any time.  A block has a height, a body, and a commit:   *)
(* the height whose block its LastCommit signs with +2/3 of the power, 0   *)
(* for a LastCommit that signs nothing (the genesis block's, or a forged   *)
(* one).  Only the block of the chain was ever signed at a height, so the  *)
(* id a commit of height h signs is that of Chain(h).                      *)
(***************************************************************************)
EXTENDS CmtBsyncPool

CONSTANTS
    Faulty,      \* the peers that need not follow the protocol
    Top,         \* the height of the chain the other peers serve
    Ranges,      \* the <<base, height>> a faulty peer may report
    Budget,      \* step_budget: blocks processed in one tick
    LocalBlocks, \* the heights whose validators give this node a third of the power
    MaxTrouble   \* bound: lost connections, faulty messages and deadlines that run out

ASSUME BsyncAssumption ==
    /\ Faulty \subseteq Peers /\ NoPeer \notin Peers
    /\ Top \in Nat /\ Budget \in Nat \ {0} /\ MaxPending \in Nat \ {0}
    /\ LocalBlocks \subseteq Nat

VARIABLES
    pool,        \* the block pool
    conn,        \* the connected peers
    asked,       \* <<peer, height>>: requests a peer has and has not answered
    didProcess,  \* didProcessCh
    store,       \* the blocks saved and applied, in order, with their seen commits
    phase,       \* "sync", "switched" to consensus, "dead" (routine_dead), or "fault"
    trouble      \* how much of MaxTrouble has happened

vars == <<pool, conn, asked, didProcess, store, phase, trouble>>

\* The block of the chain at a height.
Chain(h) == [height |-> h, body |-> "chain", commit |-> h - 1]

\* What a faulty peer may send for a height: the chain's block, another one with the
\* right commit, one whose LastCommit signs nothing, one that makes no part set.
Sendable(h) ==
    {Chain(h), [Chain(h) EXCEPT !.body = "other"], [Chain(h) EXCEPT !.commit = 0],
     [Chain(h) EXCEPT !.body = "unsplit"]}

Init ==
    /\ pool = InitPool(1)
    /\ conn = Peers
    /\ asked = {}
    /\ didProcess = FALSE
    /\ store = <<>>
    /\ phase = "sync"
    /\ trouble = 0

\* Something the node has no hand in: one of at most MaxTrouble.
Trouble == trouble < MaxTrouble /\ trouble' = trouble + 1

-----------------------------------------------------------------------------
(* What a handler leaves behind.                                           *)

\* process_pending_stops, in the order of the connection slots: the switch drops
\* the peer and the reactor's RemovePeer runs.
Stopped(s, order) == IF order = <<>> THEN s ELSE RemovePeers(s, order)

\* The requests of the handler reach their peers, the peers it blamed are stopped;
\* `answered` are requests a peer has just replied to.
Leave(after, blamed, answered) ==
    \E s \in {after} :
    \E stop \in {(s.errs \cup blamed) \cap conn} :
    \E order \in SetToSeqs(stop) :
        /\ pool' = [Stopped(s, order) EXCEPT !.sent = {}, !.errs = {}]
        /\ conn' = conn \ stop
        /\ asked' = {a \in (asked \ answered) \cup s.sent : a[1] \in conn \ stop}

-----------------------------------------------------------------------------
(* Peers and their messages.                                               *)

\* A peer connects; the pool learns of it from its status.
Connect(p) ==
    /\ p \notin conn
    /\ conn' = conn \cup {p}
    /\ UNCHANGED <<pool, asked, didProcess, store, phase, trouble>>

\* The connection is lost: cmt_bsync_reactor_remove_peer.
Disconnect(p) ==
    /\ Trouble
    /\ p \in conn
    /\ conn' = conn \ {p}
    /\ pool' = RemovePeer(pool, p)
    /\ asked' = {a \in asked : a[1] # p}
    /\ UNCHANGED <<didProcess, store, phase>>

\* StatusResponse
ReceiveStatus(p) ==
    /\ p \in conn
    /\ \E range \in (IF p \in Faulty THEN Ranges ELSE {<<1, Top>>}) :
           Leave(SetPeerRange(pool, p, range[1], range[2]), {}, {})
    /\ IF p \in Known(pool) THEN Trouble ELSE UNCHANGED trouble
    /\ UNCHANGED <<didProcess, store, phase>>

\* BlockResponse: the filter stops a peer nothing was asked of, while the pool runs.
ReceiveBlock(p) ==
    /\ p \in conn
    /\ \E h \in 1..Top : \E b \in Sendable(h) :
           /\ p \notin Faulty => b = Chain(h) /\ <<p, h>> \in asked
           /\ IF pool.running /\ ~HasPendingRequestFrom(pool, p)
              THEN Leave(pool, {p}, {<<p, h>>})
              ELSE Leave(AddBlock(pool, p, b), {}, {<<p, h>>})
    /\ IF p \in Faulty THEN Trouble ELSE UNCHANGED trouble
    /\ UNCHANGED <<didProcess, store, phase>>

\* NoBlockResponse
ReceiveNoBlock(p) ==
    /\ Trouble
    /\ p \in conn \cap Faulty
    /\ \E h \in 1..Top : Leave(RedoRequestFrom(pool, h, p), {}, {<<p, h>>})
    /\ UNCHANGED <<didProcess, store, phase>>

-----------------------------------------------------------------------------
(* The clock.                                                              *)

\* peer_timeout_ns after the peer last answered, or was first asked.
TimeoutDue(p) ==
    /\ Trouble
    /\ phase = "sync" /\ p \in Known(pool) /\ pool.peers[p].timer = "armed"
    /\ pool' = [pool EXCEPT !.peers[p].timer = "due"]
    /\ UNCHANGED <<conn, asked, didProcess, store, phase>>

\* CMT_BSYNC_REQUEST_RETRY_NS after the requester asked.
RetryDue ==
    /\ Trouble
    /\ phase = "sync"
    /\ \E i \in DOMAIN pool.reqs :
           /\ pool.reqs[i].retry = "armed"
           /\ pool' = [pool EXCEPT !.reqs[i].retry = "due"]
    /\ UNCHANGED <<conn, asked, didProcess, store, phase>>

\* CMT_BSYNC_BAN_NS after the peer was banned.
BanOver(p) ==
    /\ p \in pool.banned
    /\ pool' = [pool EXCEPT !.banned = @ \ {p}]
    /\ UNCHANGED <<conn, asked, didProcess, store, phase, trouble>>

-----------------------------------------------------------------------------
(* The tick.                                                               *)

\* Faulty variant: the height of the commit is checked, not the id it signs.
VerifyCommitOfHeight(first, commit) == commit = first.height

\* cmt_verify_commit: the commit is of the block's height and signs its very id.
VerifyCommit(first, commit) == commit = first.height /\ first = Chain(commit)

\* validate_block: the next block of the state, its own LastCommit a commit of the
\* last one.  A body that is not the chain's is otherwise taken to be valid.
ValidateBlock(m, first) ==
    first.height = Len(m.store) + 1 /\ first.commit = Len(m.store)

\* process_first's checks.
Verifies(m, first, second) == VerifyCommit(first, second.commit) /\ ValidateBlock(m, first)

\* handle_validation_failure: both peers that delivered are removed and banned.
Refuse(m) ==
    [m EXCEPT !.s = RemovePeerAndRedo(RemovePeerAndRedo(m.s, 1), 2),
              !.blamed = @ \cup {m.s.reqs[1].from, m.s.reqs[2].from}]

\* The good end of process_first: pop, save with the second's LastCommit, apply.
Apply(m) ==
    [m EXCEPT !.s = PopRequest(m.s),
              !.store = Append(@, [block |-> m.s.reqs[1].block,
                                   seen |-> m.s.reqs[2].block.commit])]

\* The heights of the two peeked blocks the reference panics on.
Misplaced(m, first, second) ==
    \/ Len(m.store) > 0 /\ first.height # Len(m.store) + 1
    \/ second.height # first.height + 1

\* One pass of the didProcessCh loop; the pool ticks again before the next peek.  A
\* first block MakePartSet refuses ends the routine.
ProcessStep(m) ==
    LET reqs == m.s.reqs
        first == reqs[1].block
        second == reqs[2].block
        ready == Len(reqs) >= 2 /\ first # NoBlock /\ second # NoBlock
        done == IF Verifies(m, first, second) THEN Apply(m) ELSE Refuse(m)
    IN  IF ~m.did \/ m.phase # "sync" THEN m
        ELSE IF ~ready THEN [m EXCEPT !.did = FALSE]
        ELSE IF Misplaced(m, first, second) THEN [m EXCEPT !.did = FALSE, !.phase = "fault"]
        ELSE IF first.body = "unsplit" THEN [m EXCEPT !.phase = "dead"]
        ELSE [done EXCEPT !.s = PoolTickAgain(@)]

Process(m) ==
    LET after[k \in 0..Budget] ==
            IF k = 0 THEN m ELSE LET before == after[k - 1] IN ProcessStep(before)
    IN  after[Budget]

\* switch_check, when its one-second ticker is due: caught up, or the chain cannot
\* move without this node (local_node_blocks_the_chain).
SwitchCheck(m, due) ==
    IF due /\ m.phase = "sync" /\ (IsCaughtUp(m.s) \/ Len(m.store) \in LocalBlocks)
    THEN [m EXCEPT !.s.running = FALSE, !.s.reqs = <<>>, !.phase = "switched"]
    ELSE m

\* cmt_bsync_reactor_tick; trySync and switchDue say which tickers have run out.
Tick ==
    /\ phase = "sync"
    /\ \E trySync, switchDue \in BOOLEAN,
          slow \in (IF pool.mr = "remove" /\ trouble < MaxTrouble
                    THEN SUBSET {p \in Known(pool) : pool.peers[p].pending > 0 /\ ~pool.peers[p].did}
                    ELSE {{}}) :
          LET start == [s |-> PoolTick(pool, slow), did |-> didProcess \/ trySync,
                        blamed |-> {}, store |-> store, phase |-> phase]
          IN  \E m \in {SwitchCheck(Process(start), switchDue)} :
              /\ Leave(m.s, m.blamed, {})
              /\ didProcess' = m.did
              /\ store' = m.store
              /\ phase' = m.phase
              /\ trouble' = IF slow = {} THEN trouble ELSE trouble + 1

-----------------------------------------------------------------------------
Next ==
    \/ \E p \in Peers : \/ Connect(p)
                        \/ Disconnect(p)
                        \/ ReceiveStatus(p)
                        \/ ReceiveBlock(p)
                        \/ ReceiveNoBlock(p)
                        \/ TimeoutDue(p)
                        \/ BanOver(p)
    \/ RetryDue
    \/ Tick

Spec == Init /\ [][Next]_vars

-----------------------------------------------------------------------------
(* Properties.                                                             *)

\* The types of the variables.  A peer the pool knows is connected: the switch tells
\* the reactor of every peer it drops.
TypeOK ==
    /\ conn \subseteq Peers
    /\ Known(pool) \subseteq conn /\ ToSet(pool.sorted) = Known(pool)
    /\ Len(pool.sorted) = Cardinality(Known(pool))
    /\ asked \subseteq conn \X (1..Top)
    /\ didProcess \in BOOLEAN
    /\ phase \in {"sync", "switched", "dead", "fault"}

\* Only the chain gets through, and who spoils it is known.  What is stored at every
\* height below the pool's is the block of that height, with a seen commit that
\* signs it, whichever peers sent it and the block that carried its commit, and
\* whoever was banned, redone or timed out in between; the tick never meets the
\* heights it would panic on.  A block held for a height is of that height, and it
\* is the chain's if the peer recorded as its sender follows the protocol, however
\* the slots of the requester were refilled or answered twice: a pair that
\* handle_validation_failure refuses has a sender that sent a bad block.
SyncIsChain ==
    /\ phase # "fault"
    /\ Len(store) = pool.height - 1
    /\ \A h \in DOMAIN store : store[h] = [block |-> Chain(h), seen |-> h]
    /\ \A i \in DOMAIN pool.reqs : LET r == pool.reqs[i] IN
        r.block # NoBlock =>
            /\ r.block.height = HeightOf(pool, i)
            /\ r.from \in Faulty \/ r.block = Chain(HeightOf(pool, i))

\* The pool's table of peers is true: every peer it knows is connected and none of
\* them is banned, whether for a bad block or for taking back a range, and the
\* height the node must reach before it switches to consensus is the one these
\* peers justify: the cached max_peer_height is what a recount over them gives,
\* after every removal, ban, new range and pop.
PeersExact ==
    /\ TypeOK
    /\ Known(pool) \cap pool.banned = {}
    /\ pool.maxPeer = MaxPeerHeight(pool)

\* A held block has an owner, and the requester knows it holds one: its sender still
\* fills a slot and counts as delivered there, and got_block (or the message that
\* will set it) says so exactly when a block is held.  A requester waiting to pick
\* a peer holds nothing.  And a peer that owes an answer is on the clock: as long
\* as an unanswered request is out at a peer the pool knows, its pending count
\* covers it and its timeout is running, has passed, or has fired.
RequestsOwned ==
    /\ \A i \in DOMAIN pool.reqs : LET r == pool.reqs[i] IN
        /\ (r.block # NoBlock) = (r.got \/ r.gotCh)
        /\ (r.block # NoBlock) = (r.from # NoPeer)
        /\ r.block # NoBlock => \/ r.from = r.peer /\ r.delivered
                                \/ r.from = r.second /\ r.delivered2
        /\ r.state = "PICK" => r.peer = NoPeer /\ r.second = NoPeer
    /\ \A p \in Known(pool) \ Faulty : LET q == pool.peers[p] IN
        /\ Cardinality({a \in asked : a[1] = p}) <= q.pending
        /\ q.pending > 0 => q.timer # "off" \/ q.did
        /\ q.pending = 0 => q.timer = "off"

\* A requester is never abandoned: while it waits without a block, its retry timer
\* or a redo is pending, or a peer the pool knows still has its request.
NotAbandoned ==
    \A i \in DOMAIN pool.reqs : LET r == pool.reqs[i] IN
        r.state = "WAIT" /\ r.block = NoBlock =>
            \/ r.retry # "off"
            \/ r.redo # NoPeer
            \/ {r.peer, r.second} \cap Known(pool) # {}
=============================================================================
