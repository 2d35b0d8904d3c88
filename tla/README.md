# Nodus Chain: TLA+ models and proofs

A verification development for `nodus-server`: the consensus core of Nodus Chain,
its block sync, the stake ledger with its epoch boundary, and the replication of
the DHT. It holds TLA+ modules translated from the C source, TLC configurations
that check them on small instances, and TLAPS proofs for all values of their
constants.

## 1. The system

`nodus-server` is one process with two parts: a Kademlia DHT and a validator
("witness") of Nodus Chain. It listens on UDP 4000 (DHT), TCP 4001 (clients),
TCP 4002 (replication between servers) and TCP 4004 (chain peers).

The validator's consensus is a line-by-line C port of CometBFT v0.38.26. The
portable half is `src/shared/dnac/cmt_*`. The host half, with files, databases,
clock and sockets, is `src/nodus/src/witness/nodus_witness_cmt_*.c`. Everything
of one node runs on one thread: a tick polls the network, steps the state
machine, ticks the reactors, fires the timer and runs the log's tickers. A
handler returns `CMT_OK`, `CMT_REJECT` (the peer's fault) or `CMT_FAULT` (the
node stops).

How the parts of the validator interact:

```
 peers ──► transport ──► reactor ──► peer queue ─┐
                                                 ├─► cmt_cs_step ──► round state, vote sets
 own votes, proposals, parts ──► internal queue ─┤        │    │
 mempool: transactions available ────────────────┤        │    └─► private validator (sign)
 ticker / host timer ──► expired timeouts ───────┘        ├─► write-ahead log (before handling)
                                                          └─► commit: block store, EndHeight,
 restart: handshake ► open log ► replay ► run                  ledger + state (one transaction)
```

| part of the system | source | module |
|---|---|---|
| private validator, last-sign state | `cmt_privval.c`, `nodus_witness_cmt_privval.c` | `CmtPrivval` |
| voting rules of a height (abstract) | what `cmt_cs.c` promises the network | `CmtVoting` |
| vote set | `cmt_vote_set.c` | `CmtVoteSet`, `CmtTally` |
| height vote set | `cmt_hvs.c` | `CmtHeightVotes` |
| consensus state machine | `cmt_cs.c`, `cmt_part_set.c` | `CmtStateMachine`, `CmtConsensus` |
| event loop, ticker, host timer | `cmt_cs.c`, `cmt_ticker.c`, `nodus_witness.c`, `nodus_witness_cmt_host.c` | `CmtReceive` |
| write-ahead log and file group | `nodus_witness_cmt_wal.c`, `nodus_witness_cmt_autofile.c` | `CmtRecovery` |
| block commit, restart, replay | `cmt_cs.c`, `nodus_witness_cmt_{host,node,store}.c` | `CmtRecovery` |
| block sync: pool | `cmt_bsync_pool.c` | `CmtBsyncPool` |
| block sync: reactor and its host rows | `cmt_bsync_reactor.c`, `nodus_witness_p2p.c` | `CmtBsync` |
| stake operations, epoch boundary, committee, power cap | `nodus_witness_rt_native.c`, `nodus_witness_v2_{epoch,econ}.c`, `nodus_witness_{vset,committee,validator}.c`, `power_cap.c` | `V2Epoch` |
| DHT storage, hints, inter-node connections | `nodus_storage.c`, `nodus_inter_dial.c`, `nodus_tcp.c` | `DhtStore` |
| DHT replication and timers, routing table, cluster health | `nodus_dht_server.c`, `nodus_routing.c`, `nodus_cluster.c`, `nodus_server.c` | `DhtReplication` |

`PROJECT.json` lists the remaining parts as well, each with the reason it is not
modelled or the place it has in the plan (section 8).

## 2. The modules and the code

**`CmtPrivval`.** `mem` is the last-sign state in memory, `disk` the file.
`SignVote` and `SignProposal` are `cmt_pv_sign_vote` and `cmt_pv_sign_proposal`
with the caller's reaction in `cmt_cs.c`; a save may fail, or the process may die
inside it (`CrashInSave`), before or after the rename. A restart reads the file
and may ask for every vote and proposal of the height again with other contents.

**`CmtVoting`.** The votes that exist, and three rules on what an honest
validator lets out: votes in order, a block precommit on a polka (+2/3 prevotes),
a prevote against an earlier precommit only after a later polka for something
else. Faulty validators vote as they like.

**`CmtVoteSet`, `CmtHeightVotes`.** `cmt_vote_set_t` and `cmt_hvs_t` as records,
and the C functions on them as operators: conflicting votes, majority claims of
peers, rounds a peer opens ahead of the node. `CmtTally` runs one vote set under
every order of votes and claims.

**`CmtStateMachine`, `CmtConsensus`.** One validator. In `CmtStateMachine` the C
struct is a record, and each `enter_*` function, `add_vote`, `try_finalize_commit`
and so on is an operator from the struct before to the struct after. `CmtConsensus`
has the variable `cs`, and an action is one call of the event loop with all the
functions it reaches. The network delivers any vote, proposal, part or claim of the
instance in any order, repeatedly or never. A `CMT_FAULT` sets `cs.fault`. The module
instantiates `CmtVoting` with the votes the node has counted.

A vote names a block as the code does, by its hash and the header of its part set
(`BlockId`). The two are independent: `Content` says which block, if any, the bytes
of a part set decode to, so one block may come in two part sets, a part set may
decode to nothing or to another block than the vote says, and it may have too many
bytes (`Oversized`), too many parts for a proposal (`TooMany`) or for the node's
buffers (`Unbounded`). The proposal's, the locked and the valid part set are slots
of one table, as the C pointers are: a slot that two of them name is one part set,
and a part that completes it completes it for both.

**`CmtReceive`.** The loop around it. `BeginTick`, `Step`, `EndDrain`,
`TickReactors`, `TimerNotDue` and `TimerExpired` are the stages of
`witness_cmt_tick`; `Step` is `cmt_cs_step` with its rotating walk over the four
sources. A handler is reduced to what it does to the loop: queue own messages,
ask for a timeout, learn of transactions. `Schedule` is the ticker's
`schedule_timeout` together with the host timer it cancels and arms.

**`CmtRecovery`.** The log as a sequence of files of records, with the head's
buffer and what fsync has confirmed; the heights of block store, ledger and state
store, and the earlier contents a power cut may return to. The actions are the
handling of an own or a peer message (log first), flush, rotation and removal,
the four stages of a commit, block sync, process crash or power cut, a damaged
record, and every stage of a start: handshake, opening of the log with its trim
and its `EndHeight{0}`, search, replay, repair.

**`CmtBsyncPool`, `CmtBsync`.** A node that is behind asks its peers for blocks.
`CmtBsyncPool` has the pool as a record and each C function on it as an operator:
requesters with up to two peers each, their one-deep channels, retry timers, the
peers' pending counts and timeouts, bans. `CmtBsync` has one action per handler of
the reactor: a message (`ReceiveStatus`, `ReceiveBlock`, `ReceiveNoBlock`), a lost
connection, and the whole `Tick` with the requesters' steps, the blocks it verifies
and applies, and the check for the switch to consensus. A handler ends with the
peers it stops, in any order of their slots (`Leave`). A block is its height, its
body and the height whose block its LastCommit signs. A peer in `Faulty` reports any
range and sends, at any time and for any height, the chain's block, another one, one
with a commit that signs nothing, or one that makes no part set, which ends the
routine.

**`V2Epoch`.** The ledger is one record, as the database is one transaction. An
action is one STAKE, UNSTAKE, DELEGATE, UNDELEGATE or VALIDATOR_UPDATE with its
money flow, or `Boundary`: all steps of `nodus_witness_v2_epoch_boundary_apply` in
the order of the code, each an operator from ledger to ledger, and a fault of any
of them stops the node and commits nothing. A unit of time is an epoch; the
module's head comment shows how each rule on heights becomes one on epochs.

**`DhtStore`, `DhtReplication`.** `DhtStore` has a node's rows, its hint table and
its side of a pool connection as values, with the calls on them. `DhtReplication`
has a client's PUT, the receiver of a replica (`Deliver`), the timers
(`HintRetry`, `StorageCleanup`, `Republish`, `BucketRefresh`), heartbeats and the
health check (`Heartbeat`, `Dead`), and the faults: a lost PONG, a dropped frame, a
connection that cannot be made or breaks, a partition, a restart.

**Composition.** `CmtConsensus` implements `CmtVoting` for one honest node against
arbitrary others (`FollowsTheRules`, with `Honest = {Self}`; proved as
`RulesAreFollowed`). Each rule for a node mentions only votes that exist, and votes
never disappear, so a node that obeys the rules on the votes it has counted obeys
them on all votes of the network. `CmtVotingProof` states that network (`NetSpec`:
each honest validator takes steps of the rules on its own counted votes, which are
any subset of those that exist) and proves that it implements `CmtVoting`
(`NodesCompose`) and that no two of its nodes hold commits for different blocks
(`NetworkAgrees`). What is left to the reader is that `NetSpec`'s step of a node is
the one `RulesAreFollowed` gives: both are `CmtVoting`'s actions over counted votes.
`CmtConsensus` takes the order of its own votes from the signer (`SignerNeverRefuses` shows it never needs a
refusal); `CmtReceive` justifies delivering queued messages and timeouts one at a
time and in order; `CmtRecovery` covers what `CmtConsensus` leaves out, the end
of a process.

## 3. What TLC checks

| run | instance | shows |
|---|---|---|
| `privval` | 1 height, 2 rounds, 2 blocks, 2 timestamps | never two different sign bytes for one (height, round, step); a released signature is covered by the file; signatures leave in order |
| `voting` | 3 honest and 1 faulty validator, 2 blocks, 2 rounds | `Agreement` |
| `tally` | powers 1, 1, 2; 2 blocks and nil; 2 peers | sums are exact, a majority is backed by the votes a commit is made of and never changes, conflicting votes are tallied only where a peer's claim stands, the number of tallied blocks is bounded, a stored commit restores the majority |
| `rounds` | powers 1, 2, 1, two blocks with a part set each; 2 rounds; locks, is overtaken, locks again, commits | the node's votes follow `CmtVoting`; locks are backed and kept; the signer never refuses; no step is left without a timeout |
| `commit` | a later height, waiting for transactions, an equivocating proposer, an invalid block, two part sets of one block, one that does not decode, one with too many bytes and one with too many parts, a majority claim, late and repeated commits | the node stops itself only in the case of section 4; valid and decided blocks are backed; hash and part set belong together; equivocation is reported |
| `receive` | queues of 3, 2 expired timeouts, drains of 4 calls, 4 timeouts | a ready source is served within four calls; an expired timeout is handled in its tick; timeouts are in order and never repeated; ticker and host timer agree; own messages are served in the end |
| `recovery` | 3 heights, 2 process crashes, head of 2 records, group of 5 | a restarted node has every own message it had handled; markers follow blocks; the search of the log is exact |
| `recovery_power` | 2 heights, 2 crashes or power cuts, 1 damaged record, head of 3 records | the handshake covers every content found; handled own messages stay in the log; a start gives up only on damage in a rotated file; every start ends |
| `bsync` | an honest and a faulty peer, 3 blocks, 2 requests per peer, 2 troubles | what is stored is the chain, height by height, with commits that sign it; a bad block is held only in the name of a peer that sent it; the table of peers, the bans and the height to reach are exact; a held block and an open request have an owner on the clock |
| `bsync_stall` | 2 honest peers, 3 troubles | expected violation, section 4 |
| `epoch` | 2 genesis documents, up to 3 stake operations over 4 boundaries, 2 validators that may be absent, 2 tie-break orders | the books balance and `active_count` is right; the power of a seated validator is backed by money that cannot be spent; only an empty committee faults a boundary; a commission is public before it is charged; an automatic retirement leaves a set that survives its largest member |
| `dht` | 2 nodes that list each other or one of which joined; 2 writes of one sequence number, an older write and a newer one that expires, or 2 owners with an EXCLUSIVE value; queue and hint table of 1; 1 fault | a stored value is never rolled back, is lost only by expiry and then does not come back; a member marked DEAD that still pings is taken back; unless both nodes gave each other up, both end with the same rows |

Why the bounds are enough: two rounds allow a lock to be kept, contradicted and
released; powers 1, 2, 1 make a quorum that does not need the node itself. Three
heights let a file with an old marker be rotated and removed while a newer height
is replayed, and a second crash can hit a recovery. A head of two records puts
rotation at every position relative to a marker; with power cuts and a damaged
record a head of three keeps the state space small and still rotates damage. In `receive` the budget of four
is the smallest the argument allows (the code has 512), and four timeouts make
every level of the ticker's comparison decide once.

In `commit` the two part sets of one block are voted for by different validators, so
that the node locks with the one and sees a commit with the other.

In `bsync` three blocks let two be applied, so that a requester moves down to the
pool height while it waits; two requests per peer make the pending limit bind, and
`MinSingle = 2` puts a second peer on both lowest heights. The trouble budget counts
lost connections, expired deadlines, messages of the faulty peer and repeated
statuses. In `epoch` four boundaries are the time a delegation needs to enter a
copy, be seated, be withdrawn and unlock; `LockEpochs = 0` is tighter than the
code's lock, so `PowerBacked` does not rest on slack. In `dht` a queue of one frame
and one hint row make every "full" path happen, two retries the give-up path, and
`MaxClock = 1` an expiry between two deliveries.

Deadlock is not checked where a run may really end: when the instance's heights
are decided (`rounds`, `commit`), when all votes exist (`voting`), when the node
has stopped on a full internal queue (`receive`), when a start gave up
(`recovery_power`), when the node has switched to consensus or the peers are gone
(`bsync`), when the bounds on boundaries are reached or a boundary faulted
(`epoch`), and when two nodes have nothing left to send (`dht`).

**Fairness.** `receive` assumes weak fairness of the loop as a whole: the host
calls the tick for as long as the process runs. It assumes nothing about the
network, the mempool or the clock, and nothing about which source is chosen.
`recovery_power` assumes that a start and a commit, which are sequences of
function calls, go on once begun. It does not assume that block sync hands over,
which needs peers, and is used for a node that does not sync.
`dht` assumes that the timers fire again and again, that a partition ends and that
an open connection carries its frames (weak fairness), and strong fairness for
`Open`: a handshake ends within seconds, while the timers that could overfill the
queue of a connection being made and close it run every minute or more seldom, so
they cannot prevent it for ever. It assumes nothing about faults, which are
bounded.

## 4. Where the code and its documentation disagree

One run expects a violation; `PROJECT.json` quotes the lines.

- `bsync_stall`: a requester's redo channel holds one entry and the next is lost.
  A requester holds a block from one of its two peers; its retry timer runs out
  (it fires once and is not armed again while a block is held); both peers go
  before the next tick. The redo that was kept empties the slot and the block, the
  other slot names a peer the pool no longer knows, and nothing wakes the requester
  again by itself. The pool's height does not pass that requester, so block sync
  stops there; the run shows the state, not how long it lasts.

The following are consequences of the models that no run states as a violation.
The properties speak of what the code does.

- `cmt_cs_finalize_commit` stops the node when +2/3 committed a block that it holds
  under another part set. A comment there registers the case (R3-AUD-13) and says
  that the reference stops as well. `NeverPanics` names it as the one exception,
  `commit` reaches it, and shows that there is no other. In the same case the
  node's part set may also be the committed one and still be incomplete.
- A failed save of a proposal's sign state returns `CMT_FAULT`, which the caller
  turns into `CMT_OK`. `cmt_cs.h` says that a fault stops the node. No signature is
  released, so safety is not affected.
- An empty head of the log gets an `EndHeight{0}` also after a rotation. The header
  calls that harmless. At the initial height the replay starts behind the newest
  one, and the messages before it are not replayed.
- With an initial height above 1, a crash in the first commit leaves heights that
  the handshake refuses. The proof of `AlwaysCovered` assumes initial height 1.
- A power cut can take back the commit of a block whose marker is already on disk,
  since the databases run with `synchronous=NORMAL`.
- `nodus/docs/REPLICATION_ISSUES.md` (ISSUE 17, "Dead peer recovery deadlock",
  RESOLVED) and `nodus/docs/ARCHITECTURE.md` ("Dead peers can recover via the PING
  handler") hold while one side still pings: that is `DeadRecovers`. Two nodes that
  marked each other DEAD in one partition ping each other no more, and neither does
  a node that its seed does not list, once it has marked the seed DEAD (`Forgotten`).
  No action of the model but a restart leads out of that state, and `Converges`
  excludes it.
- A hint is deleted when its frame is accepted by a connection that is still being
  made. When the retry meets a full open queue, `on_pending_full` inserts a
  duplicate of the very row, which is ignored, and the row is then deleted. Hints
  are also dropped at every restart. Each time `dht_republish` repairs the loss,
  which is what `Converges` rests on.
- Values of two owners, one of them EXCLUSIVE, that were accepted on different nodes
  stay different for ever: each node refuses the other's (`Contested`).
- A PUT that only extends the lifetime of a value (same sequence number, same data)
  updates the node that received it and no replica.
- UNSTAKE has no check on how many validators stay. When the last bonded one leaves,
  the next boundary finds an empty committee and every node stops
  (`OnlyEmptyHalts` shows that this is the only such way).

Smaller observations: a node that locks again in a later round without the
proposal's block can have `locked_round > valid_round`, which does no harm. Torn
bytes behind a damaged record are not trimmed; after a rotation and another crash
the node gives up. The group check of the tick also runs during block sync and may
rotate a damaged head before the replay, and the repair rewrites only the head
(`nodus_witness_cmt_wal.h` documents that limit).

## 5. What is proved

All proofs are checked by TLAPS; they hold for every value of the constants that
satisfies the named assumptions.

**`CmtPrivvalProof`** (heights positive, rounds natural): `NeverConflicting`,
`AlwaysDurable`, `InOrder`. The properties are not inductive alone. The invariant
adds that both last-sign states are well formed, and that memory equals the file
or is ahead of it at the position that was asked for last. The second case is a
failed save: it is harmless because nothing at or below that position will be
asked for again in this life of the process.

**`CmtVotingProof`** (two quorums share an honest validator): `Safety`, that is
`Spec => []Agreement`, for every validator set, any number of rounds and any set
of blocks. The invariant says: an honest validator precommits once per round; its
block precommit has a polka; a prevote against its lock had a later polka for
something else; and a polka for something else leaves no earlier block choosable,
where a block is choosable in a round while some quorum's honest members have
precommitted it or still may. The last part is what makes it inductive: a commit
keeps its block choosable for ever. `NodesCompose` and `NetworkAgrees` carry the
result to a network of nodes with different knowledge (section 2); their invariant is
that a node has counted only votes that exist, and all of its own.

**`CmtVoteSetProof`, `CmtTallyProof`** (finitely many validators of positive power,
`Weight` adds up): `AlwaysTalliedExactly`, `MajorityNeverMoves`,
`TableNeverOverflows`, `CommitsRestore`. The invariant `Sound` says that a vote set's
sums are the weights of the votes they stand for, that a majority is a tallied
quorum, and that canonical votes for it are among the set's votes;
`TallyInvariance` adds the history of arrivals. `CmtVoteSetProof` states this function
by function, for the height's vote sets as well, and the consensus proofs use it.

**`CmtConsensusLemmas`, `CmtConsensusProof`** (any part sets, `Content` arbitrary; the
own block is valid and decodes from its part set): `SignerAlwaysSigns`,
`LocksAreBacked`, `LocksAreKept`, `BlocksAreBacked`, `DecisionsAreBacked`,
`EquivocationsAreReported` and the refinement `RulesAreFollowed`. The invariant is a
predicate of the record, with one lemma per C function. Besides the properties it
says that signed votes are not ahead of round and step and wait in the queue in their
order; that the tallies are exactly the counted votes; that the ticker is not ahead
of the node; and that the proposal block is the valid block as soon as the current
round has a polka for it, without which a commit that takes the block from the lock
could not be followed. `BlocksAreBacked` speaks of the node's own block and part set
only until the commit: a node that commits may hold the block of its lock beside the
part set that +2/3 committed, which is how the case R3-AUD-13 comes about.

**`CmtRecoveryProof`** (a chain that starts at height 1): `AlwaysCovered`, the
handshake is never left with heights it refuses, for all limits and any number of
crashes and power cuts. The invariant fixes the three heights at every stage of a
commit, and says that every content a power cut may return to is one the
handshake covers.

**`CmtReceiveProof`** (queues of positive size, a budget of at least four):
`RotationIsFair`, `ExpiriesHandled`, `TimeoutsOrdered`, `TimersAgree` and
`TypeCorrect`. The invariant says that a source that has waited k calls is at
most 3 - k places from the start of the walk; that at most one timeout is pending,
only in the drain its expiry began, which has passed it over on each call so far;
and that the ticker's timeout is newer than every expired one while its timer
runs. From the first two follows that a budget of four reaches the timeout.

## 6. What is only model-checked

- Liveness (`Recovers`, `OwnServed`, `DeadRecovers`, `Converges`): fairness and ENABLED are outside
  the prover.
- `CmtBsync`, `V2Epoch` and `DhtReplication`: their proofs are planned (section 8).
  The walks over requesters, rows and frames are recursive functions, and what they
  compute for every length needs induction over data.
- `NeverPanics` and `NeverStalls` of `CmtConsensus`. The first needs an assumption on
  how much power votes for invalid blocks, the second an invariant that ties every
  step to its timer.
- The log properties of `CmtRecovery`, whose operators choose positions in
  flattened sequences: what they compute for every input needs induction over
  data.

## 7. Abstractions

- A part set has one part. `CmtConsensus` has no bound on the internal queue, whose
  overflow stops the node: `CmtReceive` has the queue, its bound and that stop.
- Signatures, hashes and encodings: a vote carries its signer and what it names.
  Votes with a wrong signature, index or address change nothing and are left out.
- Durations: an armed timer may be due at any tick.
- The proposer of a round is a constant; the rotation of priorities is planned.
- The application's verdict on a block is a constant set of valid blocks; the
  application of a block is one database transaction, as the host makes it.
- A record of the log is its kind, height and number; sizes are counted in records.
- `CmtReceive` joins several timeouts asked for by one handler into the last one,
  since the ticker keeps only the newest, and has no orderly shutdown.
- When a round is entered while the node waits for a committed block, the step
  `Commit` is left while the block is still missing; `NeverStalls` treats a node in
  that step as waiting for the block.

- Block sync: a deadline is off, armed or due, and deadlines run out independently.
  The pauses of 2 ms and the wait for the first peers are over by the next tick.
  Rates are left out: which peers are slow is a choice, and the sort by rate keeps
  the order. A commit is the height whose block it signs; that a block other than
  the chain's was never signed is what consensus provides. Left out: vote extensions
  (off, as `nodus_witness_cmt_app.c` says, so that `switch_check` never waits for a
  missing extended commit), failures of the store, and the serving of blocks to
  others.
- Stake ledger: the rules of key generation 4 only. Attendance is a choice; its
  digest and reset, the storage boundary, the self-check of reserved keys, the name
  gate, consent signatures, the EVM, claims, pools, treasury and storage bonds are
  left out. The payer of an operation is its actor, an owner is named by its
  validator. Coins that have unlocked join the liquid balance. The supply gate
  `nodus_rt_core_invariant` is not a guard of the model: `BooksBalance` shows that it
  holds without it. The genesis snapshots use ruleset 1, which for equal bonds gives
  the powers of ruleset 2. CometBFT's own delay of two heights is not included.
- DHT: a datagram arrives within 30 s or not at all; ALIVE and SUSPECT are one state;
  all nodes read one clock; a republish cycle is one batch; one key and one value id.
  The quotas of `nodus_storage_put` and the owner caps of the replica path count the
  rows of other keys, so they are left out, and with them the writes that they
  refuse. Also left out: signatures, the 24 h lifetime of a hint, listeners and
  subscriptions, media, PINGs before the eviction from a full bucket, the iterative
  path of networks larger than four times the replication factor. With two nodes
  `BucketRefresh` finds nobody new.

## 8. Plan

In this order:

1. `P2pReceive`: the receive gate and the sweeps over peers (`cmt_p2p_peer_pump`,
   `cmt_p2p_transport_tick`). No message that was read is dropped, no peer is starved at
   a full queue. It refines the `Receive` action of `CmtReceive`.
2. Mempool (`cmt_mem.c`): list, cache and recheck across `Update`, and the
   announcement that `CmtReceive` consumes.
3. Proposer rotation (`cmt_validator_set.c`) with 64-bit clipping, against a reference
   definition.
4. The evidence pool, the client's pending requests against late responses, worker
   results against reused connection slots, the light client.
5. Proofs: `StoredKept` of `DhtReplication`; `PeersExact` of `CmtBsync`; `BooksBalance` of
   `V2Epoch` step by step; `NeverStalls` of `CmtConsensus`.

Not planned: codecs, cryptography and the EVM (covered by vectors in the
repository's tests), user interfaces, compiled-out channels, one-time migration
tools.
