---------------------------- MODULE CmtBsyncPool ----------------------------
(***************************************************************************)
(* The block pool of shared/dnac/cmt_bsync_pool.c: which peer is asked for *)
(* which height, and the blocks that came back, as operators from a pool   *)
(* to a pool.  CmtBsync composes them into the reactor's handlers.         *)
(*                                                                         *)
(* A pool is a record                                                      *)
(*   height   the lowest height not applied (`height`)                     *)
(*   maxPeer  `max_peer_height`                                            *)
(*   reqs     the requesters, reqs[i] for height + i - 1                   *)
(*   peers    the known peers: id -> base, height, pending, timer, did     *)
(*   sorted   the ids in the order `sorted_peers` has them                 *)
(*   banned   the ids whose ban has not run out                            *)
(*   mr       what makeRequestersRoutine does after its sleep              *)
(*   running                                                               *)
(*   sent, errs  what the handler under way passed to send_request and     *)
(*            send_error; emptied when the reactor has acted on them       *)
(*                                                                         *)
(* Time.  A deadline is "off", "armed" or "due" (armed, and its instant    *)
(* has passed).  The 2 ms pauses between two picks or two new requesters   *)
(* are over by the next tick, and peerConnWait before the first.           *)
(* Left out: `num_pending` of the pool (only ever logged) and the rates:   *)
(* the caller says which peers are slow, and the others are equally fast,  *)
(* so the stable sort keeps the order in which they came.                  *)
(***************************************************************************)
EXTENDS Naturals, Sequences, FiniteSets, FiniteSetsExt, SequencesExt, Functions

CONSTANTS
    Peers,       \* the p2p ids a peer can have
    NoPeer,      \* the empty id
    NoBlock,     \* no block is held
    MaxPending,  \* CMT_BSYNC_MAX_PENDING_REQUESTS_PER_PEER
    MinSingle    \* CMT_BSYNC_MIN_BLOCKS_FOR_SINGLE_REQUEST

\* A requester as calloc leaves it: parked in PICK.
NewRequester ==
    [peer |-> NoPeer, second |-> NoPeer, from |-> NoPeer, block |-> NoBlock,
     delivered |-> FALSE, delivered2 |-> FALSE, gotCh |-> FALSE, got |-> FALSE,
     redo |-> NoPeer, newHeight |-> 0, retry |-> "off", state |-> "PICK"]

NewPeer(base, height) ==
    [base |-> base, height |-> height, pending |-> 0, timer |-> "off", did |-> FALSE]

InitPool(start) ==
    [height |-> start, maxPeer |-> 0, reqs |-> <<>>, peers |-> <<>>, sorted |-> <<>>,
     banned |-> {}, mr |-> "evaluate", running |-> TRUE, sent |-> {}, errs |-> {}]

Known(s) == DOMAIN s.peers

HeightOf(s, i) == s.height + i - 1

\* req_at: the index of the requester for a height, 0 for none.
ReqAt(s, h) == IF h < s.height \/ h - s.height >= Len(s.reqs) THEN 0 ELSE h - s.height + 1

DidRequestFrom(r, p) == p \in {r.peer, r.second}

HasPendingRequestFrom(s, p) == \E i \in DOMAIN s.reqs : DidRequestFrom(s.reqs[i], p)

\* incr_pending: the first outstanding request starts the peer's timeout.
IncrPending(q) ==
    [q EXCEPT !.pending = @ + 1, !.timer = IF q.pending = 0 THEN "armed" ELSE @]

\* decr_pending: at zero nothing changes; the last answer stops the timeout, any
\* other one starts it again.
DecrPending(q) ==
    IF q.pending = 0 THEN q
    ELSE [q EXCEPT !.pending = @ - 1, !.timer = IF q.pending = 1 THEN "off" ELSE "armed"]

\* update_max_peer_height: a peer pruned beyond the pool height does not count.
MaxPeerHeight(s) ==
    Max({0} \cup {s.peers[p].height : p \in {q \in Known(s) : s.peers[q].base <= s.height}})

UpdateMaxPeerHeight(s) == [s EXCEPT !.maxPeer = MaxPeerHeight(s)]

\* rq_redo: the channel is one deep, a second redo before the first is served is lost.
Redo(r, p) == IF r.redo = NoPeer THEN [r EXCEPT !.redo = p] ELSE r

\* Faulty variant: the maximum is kept when the peer that had it goes.
RemovePeersStaleMax(s, ps) ==
    [s EXCEPT !.reqs = [i \in DOMAIN @ |->
                  LET hit == SelectSeq(ps, LAMBDA p : DidRequestFrom(@[i], p))
                  IN  IF hit = <<>> THEN @[i] ELSE Redo(@[i], hit[1])],
              !.peers = Restrict(@, Known(s) \ ToSet(ps)),
              !.sorted = SelectSeq(@, LAMBDA q : q \notin ToSet(ps))]

\* remove_peer_locked for the peers of the sequence ps in turn: a requester that asked
\* several of them hears of the first only; the maximum is recounted when a removed
\* peer had it.
RemovePeers(s, ps) ==
    LET out == ToSet(ps)
        told == [r \in ToSet(s.reqs) |->
                    LET hit == SelectSeq(ps, LAMBDA p : DidRequestFrom(r, p))
                    IN  IF hit = <<>> THEN r ELSE Redo(r, hit[1])]
        gone == [s EXCEPT !.reqs = [i \in DOMAIN @ |-> told[@[i]]],
                          !.peers = Restrict(@, Known(s) \ out),
                          !.sorted = SelectSeq(@, LAMBDA q : q \notin out)]
    IN  IF \E p \in out \cap Known(s) : s.peers[p].height = s.maxPeer
        THEN UpdateMaxPeerHeight(gone) ELSE gone

RemovePeer(s, p) == RemovePeers(s, <<p>>)

BanPeer(s, p) == [s EXCEPT !.banned = @ \cup {p}]

\* rq_reset: the slot is emptied, and the block with it when that peer sent it.
Reset(r, p) ==
    LET cleared == IF r.from = p THEN [r EXCEPT !.block = NoBlock, !.from = NoPeer] ELSE r
    IN  IF r.peer = p THEN [cleared EXCEPT !.peer = NoPeer, !.delivered = FALSE]
        ELSE [cleared EXCEPT !.second = NoPeer, !.delivered2 = FALSE]

\* pick_incr_available_peer: the first peer of the sorted list that can serve the
\* height; the timed-out peers met on the way to it are removed.
PickIncrAvailablePeer(s, h, exclude) ==
    LET can == {k \in DOMAIN s.sorted : LET q == s.peers[s.sorted[k]] IN
                   /\ s.sorted[k] # exclude /\ ~q.did
                   /\ q.pending < MaxPending /\ h \in q.base..q.height}
        k == IF can = {} THEN Len(s.sorted) + 1 ELSE Min(can)
        out == SelectSeq(SubSeq(s.sorted, 1, k - 1), LAMBDA p : p # exclude /\ s.peers[p].did)
        rest == IF out = <<>> THEN s ELSE RemovePeers(s, out)
    IN  IF can = {} THEN [s |-> rest, pick |-> NoPeer]
        ELSE [s |-> [rest EXCEPT !.peers[s.sorted[k]] = IncrPending(@)], pick |-> s.sorted[k]]

SendRequest(s, h, p) == [s EXCEPT !.sent = @ \cup {<<p, h>>}]

\* rq_pick_second_peer_and_send_request; the retry timer starts again with `arm`
\* when a second peer was found.
PickSecond(s, i, arm) ==
    LET a == PickIncrAvailablePeer(s, HeightOf(s, i), s.reqs[i].peer)
    IN  IF s.reqs[i].second # NoPeer THEN s
        ELSE IF a.pick = NoPeer THEN a.s
        ELSE SendRequest([a.s EXCEPT !.reqs[i].second = a.pick,
                                     !.reqs[i].delivered2 = FALSE,
                                     !.reqs[i].retry = IF arm THEN "armed" ELSE @],
                         HeightOf(s, i), a.pick)

\* rq_step in state PICK: ask one peer, and a second one near the pool height.
PickPhase(s, i) ==
    LET a == PickIncrAvailablePeer(s, HeightOf(s, i), s.reqs[i].second)
        asked == SendRequest([a.s EXCEPT !.reqs[i].peer = a.pick,
                                         !.reqs[i].delivered = FALSE],
                             HeightOf(s, i), a.pick)
        both == IF i - 1 < MinSingle THEN PickSecond(asked, i, FALSE) ELSE asked
    IN  IF s.reqs[i].state # "PICK" THEN s
        ELSE IF a.pick = NoPeer THEN a.s
        ELSE [both EXCEPT !.reqs[i].retry = "armed", !.reqs[i].state = "WAIT"]

\* The four ready channels in BS-1's order: gotBlock, redo, newHeight, retryTimer.
ServeGotBlock(s, i) ==
    IF s.reqs[i].gotCh THEN [s EXCEPT !.reqs[i].gotCh = FALSE, !.reqs[i].got = TRUE] ELSE s

ServeRedo(s, i) ==
    LET r == s.reqs[i]
        reset == IF DidRequestFrom(r, r.redo) THEN Reset(r, r.redo) ELSE r
        served == [reset EXCEPT !.redo = NoPeer,
                                !.got = IF DidRequestFrom(r, r.redo) /\ r.from = r.redo
                                        THEN FALSE ELSE @]
    IN  IF r.redo = NoPeer THEN s
        ELSE IF served.peer = NoPeer /\ served.second = NoPeer
             THEN [s EXCEPT !.reqs[i] = [served EXCEPT !.retry = "off", !.state = "PICK"]]
             ELSE [s EXCEPT !.reqs[i] = served]

ServeNewHeight(s, i) ==
    LET r == s.reqs[i]
        read == [s EXCEPT !.reqs[i].newHeight = 0]
    IN  IF r.newHeight = 0 \/ r.state = "PICK" THEN s
        ELSE IF ~r.got /\ HeightOf(s, i) - r.newHeight < MinSingle
             THEN PickSecond(read, i, TRUE)
             ELSE read

ServeRetry(s, i) ==
    LET r == s.reqs[i] IN
    IF r.retry # "due" \/ r.state = "PICK" THEN s
    ELSE IF r.got THEN [s EXCEPT !.reqs[i].retry = "off"]
    ELSE [s EXCEPT !.reqs[i] = [Reset(Reset(r, r.peer), r.second) EXCEPT
                                    !.retry = "off", !.state = "PICK"]]

\* Faulty variant: redo is served before the block that is already waiting to be noticed.
ServePhaseRedoFirst(s, i) ==
    IF s.reqs[i].state = "PICK" THEN s
    ELSE ServeRetry(ServeNewHeight(ServeGotBlock(ServeRedo(s, i), i), i), i)

ServePhase(s, i) ==
    IF s.reqs[i].state = "PICK" THEN s
    ELSE ServeRetry(ServeNewHeight(ServeRedo(ServeGotBlock(s, i), i), i), i)

\* rq_step: until it would wait.  A pass that went back to PICK runs again, and the
\* second one has nothing left that could send it back.
RqStep(s, i) ==
    LET pass[k \in 0..2] ==
            IF k = 0 THEN s
            ELSE LET before == pass[k - 1]
                 IN  IF k = 1 \/ before.reqs[i].state = "PICK"
                     THEN ServePhase(PickPhase(before, i), i) ELSE before
    IN  pass[2]

\* remove_timedout_peers: `slow` measured below the minimum receive rate.  The walk
\* is in the order the peers came, which the sorted list has backwards.
RemoveTimedoutPeers(s, slow) ==
    LET out == SelectSeq(Reverse(s.sorted), LAMBDA p : s.peers[p].did \/ p \in slow)
    IN  [RemovePeers(s, out) EXCEPT !.errs = @ \cup slow]

MakeRequesters(s, slow) ==
    LET a == IF s.mr = "remove"
             THEN [RemoveTimedoutPeers(s, slow) EXCEPT !.mr = "evaluate"]
             ELSE s
    IN  IF Len(a.reqs) >= Cardinality(Known(a)) * MaxPending
        THEN [a EXCEPT !.mr = "remove"]
        ELSE IF a.height + Len(a.reqs) > a.maxPeer THEN a
        ELSE [a EXCEPT !.reqs = Append(@, NewRequester)]

\* The peers' AfterFunc timers: onTimeout.
FireTimeouts(s) ==
    LET due == {p \in Known(s) : s.peers[p].timer = "due"}
    IN  [s EXCEPT !.errs = @ \cup due,
                  !.peers = [p \in DOMAIN @ |->
                      IF p \in due THEN [@[p] EXCEPT !.timer = "off", !.did = TRUE]
                      ELSE @[p]]]

StepRequesters(s) ==
    LET after[i \in 0..Len(s.reqs)] ==
            IF i = 0 THEN s ELSE LET before == after[i - 1] IN RqStep(before, i)
    IN  after[Len(s.reqs)]

\* cmt_bsync_pool_tick.  The second tick of one reactor tick reads the same clock:
\* neither the pause of makeRequesters nor a timer has run out since the first.
PoolTick(s, slow) ==
    IF s.running THEN StepRequesters(FireTimeouts(MakeRequesters(s, slow))) ELSE s

PoolTickAgain(s) == IF s.running THEN StepRequesters(s) ELSE s

IsCaughtUp(s) == Known(s) # {} /\ (s.maxPeer = 0 \/ s.height >= s.maxPeer - 1)

\* cmt_bsync_pool_pop_request; the next MinSingle requesters learn the new height.
PopRequest(s) ==
    LET up == UpdateMaxPeerHeight([s EXCEPT !.reqs = Tail(@), !.height = @ + 1])
    IN  [up EXCEPT !.reqs = [i \in DOMAIN @ |->
            IF i <= MinSingle /\ @[i].newHeight = 0
            THEN [@[i] EXCEPT !.newHeight = up.height] ELSE @[i]]]

\* cmt_bsync_pool_remove_peer_and_redo_all_peer_requests
RemovePeerAndRedo(s, i) == BanPeer(RemovePeer(s, s.reqs[i].from), s.reqs[i].from)

RedoRequestFrom(s, h, p) ==
    LET i == ReqAt(s, h)
    IN  IF i # 0 /\ DidRequestFrom(s.reqs[i], p)
        THEN [s EXCEPT !.reqs[i] = Redo(@, p)] ELSE s

\* Faulty variant: the last peer to deliver counts as the sender of the block held.
SetBlockFromLast(r, b, p) ==
    LET first == p = r.peer
        again == IF first THEN r.delivered ELSE r.delivered2
        marked == IF first THEN [r EXCEPT !.delivered = TRUE] ELSE [r EXCEPT !.delivered2 = TRUE]
    IN  [r |-> [marked EXCEPT !.block = IF r.block # NoBlock THEN @ ELSE b, !.from = p,
                              !.gotCh = r.gotCh \/ r.block = NoBlock],
         first |-> ~again]

\* rq_set_block: the slot that delivers, and whether it does so for the first time.
SetBlock(r, b, p) ==
    LET first == p = r.peer
        again == IF first THEN r.delivered ELSE r.delivered2
        marked == IF first THEN [r EXCEPT !.delivered = TRUE] ELSE [r EXCEPT !.delivered2 = TRUE]
    IN  [r |-> IF r.block # NoBlock THEN marked
               ELSE [marked EXCEPT !.block = b, !.from = p, !.gotCh = TRUE],
         first |-> ~again]

\* cmt_bsync_pool_add_block
AddBlock(s, p, b) ==
    LET i == ReqAt(s, b.height)
        set == SetBlock(s.reqs[i], b, p)
    IN  IF i = 0
        THEN IF b.height > s.height /\ s.running THEN [s EXCEPT !.errs = @ \cup {p}] ELSE s
        ELSE IF ~DidRequestFrom(s.reqs[i], p)
        THEN IF s.running THEN [s EXCEPT !.errs = @ \cup {p}] ELSE s
        ELSE [s EXCEPT !.reqs[i] = set.r,
                       !.peers = IF set.first /\ p \in DOMAIN @
                                 THEN [@ EXCEPT ![p] = DecrPending(@)] ELSE @]

\* cmt_bsync_pool_set_peer_range
SetPeerRange(s, p, base, height) ==
    IF base > height THEN BanPeer(IF p \in Known(s) THEN RemovePeer(s, p) ELSE s, p)
    ELSE IF p \in Known(s)
    THEN IF base < s.peers[p].base \/ height < s.peers[p].height
         THEN BanPeer(RemovePeer(s, p), p)
         ELSE UpdateMaxPeerHeight([s EXCEPT !.peers[p].base = base, !.peers[p].height = height])
    ELSE IF p \in s.banned THEN s
    ELSE UpdateMaxPeerHeight([s EXCEPT !.peers = [q \in Known(s) \cup {p} |->
                                            IF q = p THEN NewPeer(base, height) ELSE @[q]],
                                       !.sorted = <<p>> \o @])
=============================================================================
