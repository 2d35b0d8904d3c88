---------------------------- MODULE CmtRecovery ----------------------------
(***************************************************************************)
(* One validator across crashes: the consensus write-ahead log (a group of *)
(* files: rotated wal.000, wal.001, ... and the head "wal"), the block     *)
(* store, the ledger and the state store, the commit of a block            *)
(* (cmt_cs_finalize_commit), block sync, and the start of the node: the    *)
(* handshake that brings ledger and state up to the block store, the log's *)
(* own start, and the replay of the log (cmt_cs_start).                    *)
(*                                                                         *)
(* The replay is what gives a restarted validator back the votes it cast,  *)
(* and with them the block it is locked on, at the height it is deciding.  *)
(***************************************************************************)
EXTENDS Integers, FiniteSets, Sequences, SequencesExt

CONSTANTS
    InitialHeight,  \* initial_height of the genesis document
    HeadLimit,      \* head_size_limit, in records
    TotalLimit,     \* total_size_limit, in records
    MaxRemove,      \* NODUS_CMT_GROUP_MAX_FILES_TO_REMOVE
    BufCap,         \* head_buf_cap, in records
    PowerCuts,      \* may a crash be a power cut?
    BlockSync,      \* does the node start in block sync? (no: sole validator)
    MaxHeight, MaxOwn, MaxPeer, MaxCrashes, MaxFaults  \* bounds

ASSUME InitialHeightAssumption == InitialHeight \in Nat \ {0}

ASSUME LimitsAssumption ==
    /\ {HeadLimit, TotalLimit, MaxRemove, BufCap} \subseteq Nat \ {0}
    /\ {PowerCuts, BlockSync} \subseteq BOOLEAN

VARIABLES
    rotated,    \* the files wal.NNN, oldest first, each a sequence of records
    head,       \* the records of the head file
    synced,     \* how many of them fsync has made safe
    buf,        \* head_buf: records not yet written to the head file
    store,      \* height of the block store
    app,        \* height of the ledger
    state,      \* last_block_height of the state store
    older,      \* commits a power cut may take the database back to
    pc,         \* where the node is, see below
    syncing,    \* block sync has not handed over to consensus yet
    skip_wal,   \* block sync applied a block: the log is not replayed
    repaired,   \* repair_attempted of this start
    height,     \* cs->rs.height
    known,      \* own messages of this height the consensus state has handled
    handled,     \* HISTORY: how many own messages of each height were handled
    crashes, faults

logvars == <<rotated, head, synced, buf>>
dbvars == <<store, app, state, older>>
csvars == <<syncing, skip_wal, repaired, height, known, handled>>
vars == <<logvars, dbvars, pc, csvars, crashes, faults>>

Heights == InitialHeight..(InitialHeight + MaxHeight)

\* "down"       the process is not running, or its handshake is under way
\* "handshaken" ledger, state and block store agree; the log is not open
\* "started"    the log is open; block sync runs, consensus does not yet
\* "run"        the consensus state handles messages
\* "saved" "ended" "applied"  inside the commit of a block: the block is
\*              stored, the end-of-height marker is logged, the ledger is
\*              committed
\* "refused"    cmt_cs_start gave up: corrupt after one repair
PCs == {"down", "handshaken", "started", "run", "saved", "ended", "applied",
        "refused"}

Own(h, n) == [kind |-> "own", height |-> h, seq |-> n]
Peer(h) == [kind |-> "peer", height |-> h, seq |-> 0]
End(h) == [kind |-> "end", height |-> h, seq |-> 0]
Torn == [kind |-> "torn", height |-> 0, seq |-> 0]        \* cut short
Corrupt == [kind |-> "corrupt", height |-> 0, seq |-> 0]  \* wrong checksum

Record ==
    [kind : {"own"}, height : Heights, seq : 1..MaxOwn]
        \cup [kind : {"peer"}, height : Heights, seq : {0}]
        \cup [kind : {"end"}, height : {0} \cup Heights, seq : {0}]
        \cup {Torn, Corrupt}

\* The height consensus works on after a block of height s is applied:
\* cmt_cs_update_to_state.
HeightAfter(s) == IF s = 0 THEN InitialHeight ELSE s + 1

-----------------------------------------------------------------------------
(* Reading the log: the files one after the other, the head last.          *)

Files == Append(rotated, head)

\* The records of s that come before the first one in Bad.
Before(s, Bad) ==
    LET Good == {n \in 0..Len(s) : \A k \in 1..n : s[k] \notin Bad}
    IN SubSeq(s, 1, CHOOSE n \in Good : \A m \in Good : m <= n)

Undecodable(r) == r \in {Torn, Corrupt}
HasUndecodable(s) == \E r \in ToSet(s) : Undecodable(r)

\* What a reader opened on file i sees: it reads on into the later files, and
\* torn bytes with more behind them cost it the record boundaries.
From(i) ==
    LET s == FlattenSeq(SubSeq(Files, i, Len(Files)))
        n == Len(Before(s, {Torn}))
    IN SubSeq(s, 1, IF n < Len(s) THEN n + 1 ELSE n)

Log == FlattenSeq(Files)

\* last_height_found at the end of the group, -1 when no marker was read.
LastMark(i) ==
    LET s == From(i)
        Marks == {k \in DOMAIN s : s[k].kind = "end"}
    IN IF Marks = {} THEN -1
       ELSE s[CHOOSE k \in Marks : \A m \in Marks : m <= k].height

StopsAtAnyMark(i, h) == LastMark(i) >= 0 /\ LastMark(i) < h

\* Every file below i would be searched next, unless a marker of an earlier
\* height shows that this one was never written.
StopsAt(i, h) == LastMark(i) > 0 /\ LastMark(i) < h

HasMark(i, h) == End(h) \in ToSet(From(i))

\* nodus_cmt_wal_search_end_height: newest file first.
Found(h) ==
    \E i \in DOMAIN Files :
        /\ HasMark(i, h)
        /\ \A j \in (i + 1)..Len(Files) : ~HasMark(j, h) /\ ~StopsAt(j, h)

\* The records behind the cursor a successful search leaves.
Behind(h) ==
    LET i == CHOOSE i \in DOMAIN Files :
                 HasMark(i, h) /\ \A j \in (i + 1)..Len(Files) : ~HasMark(j, h)
        s == From(i)
        k == CHOOSE k \in DOMAIN s :
                 s[k] = End(h) /\ \A m \in 1..(k - 1) : s[m] # End(h)
    IN SubSeq(s, k + 1, Len(s))

OwnIn(s) ==
    {r.seq : r \in {r \in ToSet(s) : r.kind = "own" /\ r.height = height}}

\* Fewer than four bytes of a record at the end of the group read as its end.
TornEnd(s) == s # <<>> /\ Last(s) = Torn /\ ~HasUndecodable(Front(s))
-----------------------------------------------------------------------------
Init ==
    /\ rotated = <<>> /\ head = <<>> /\ synced = 0 /\ buf = <<>>
    /\ store = 0 /\ app = 0 /\ state = 0 /\ older = {}
    /\ pc = "down" /\ syncing = FALSE /\ skip_wal = FALSE /\ repaired = FALSE
    /\ height = InitialHeight /\ known = {}
    /\ handled = [h \in Heights |-> 0]
    /\ crashes = 0 /\ faults = 0

(* Writing the log.                                                        *)

\* nodus_cmt_wal_write: into the buffer; a full buffer goes to the file.
Write(r) ==
    /\ IF Len(buf) >= BufCap
         THEN head' = head \o buf /\ buf' = <<r>>
         ELSE head' = head /\ buf' = Append(buf, r)
    /\ UNCHANGED <<rotated, synced>>

WriteSyncBuffered(r) == Write(r)

WriteSyncNoFsync(r) ==
    /\ head' = Append(head \o buf, r)
    /\ synced' = synced
    /\ buf' = <<>>
    /\ UNCHANGED rotated

\* nodus_cmt_wal_write_sync: and everything is on disk when it returns.
WriteSync(r) ==
    /\ head' = Append(head \o buf, r)
    /\ synced' = Len(head')
    /\ buf' = <<>>
    /\ UNCHANGED rotated

\* One own message: logged and synced, then handled.
HandleOwn ==
    /\ pc = "run" /\ handled[height] < MaxOwn
    /\ LET n == handled[height] + 1 IN
           /\ WriteSync(Own(height, n))
           /\ handled' = [handled EXCEPT ![height] = n]
           /\ known' = known \cup {n}
    /\ UNCHANGED <<dbvars, pc, syncing, skip_wal, repaired, height,
                   crashes, faults>>

\* A message of a peer, a timeout or a round step: logged, not synced.
HandlePeer ==
    /\ pc = "run"
    /\ Len(SelectSeq(Log \o buf, LAMBDA r : r = Peer(height))) < MaxPeer
    /\ Write(Peer(height))
    /\ UNCHANGED <<dbvars, pc, csvars, crashes, faults>>

\* The main loop polls the log's two tickers; a node that does not sync
\* replays the log before it gets there.
Ticking == pc = "run" \/ (pc = "started" /\ syncing)

\* The two-second ticker, and the flush before every signature.
FlushAndSync ==
    /\ Ticking
    /\ head' = head \o buf /\ synced' = Len(head') /\ buf' = <<>>
    /\ UNCHANGED <<rotated, dbvars, pc, csvars, crashes, faults>>

\* How many of the files fs the total limit removes, oldest first; the last
\* file is the head and stays.
Removed(fs) ==
    LET Total(k) == Len(FlattenSeq(SubSeq(fs, k + 1, Len(fs))))
        Enough == {k \in 0..(Len(fs) - 1) :
                       Total(k) < TotalLimit \/ k = MaxRemove
                           \/ k = Len(fs) - 1}
    IN CHOOSE k \in Enough : \A m \in Enough : k <= m

\* The five-second ticker: a head at its limit is flushed, synced and renamed,
\* then the oldest files go while the group is too large.
GroupCheck ==
    /\ Ticking
    /\ LET full == Len(head) >= HeadLimit
           rs == IF full THEN Append(rotated, head \o buf) ELSE rotated
           hd == IF full THEN <<>> ELSE head
           k == Removed(Append(rs, hd))
       IN /\ rotated' = SubSeq(rs, k + 1, Len(rs))
          /\ head' = hd
          /\ buf' = IF full THEN <<>> ELSE buf
          /\ synced' = IF full THEN 0 ELSE synced
    /\ UNCHANGED <<dbvars, pc, csvars, crashes, faults>>
-----------------------------------------------------------------------------
(* The commit of a block: cmt_cs_finalize_commit and apply_block.          *)

\* The database takes a commit; a power cut may still take it back.
Commits == older' = IF PowerCuts THEN older \cup {<<store, app, state>>} ELSE {}

\* SQLite's checkpoint: what was committed is on disk.
Checkpoint ==
    /\ older # {}
    /\ older' = {}
    /\ UNCHANGED <<logvars, store, app, state, pc, csvars, crashes, faults>>

SaveBlockUnsaved ==
    /\ pc = "run" /\ height < InitialHeight + MaxHeight
    /\ pc' = "saved"
    /\ UNCHANGED <<logvars, dbvars, csvars, crashes, faults>>

\* bs_save_block, unless the store already has the block.
SaveBlock ==
    /\ pc = "run" /\ height < InitialHeight + MaxHeight
    /\ store' = IF store < height THEN height ELSE store
    /\ Commits
    /\ pc' = "saved"
    /\ UNCHANGED <<logvars, app, state, csvars, crashes, faults>>

\* cs_wal_write_end_height.
WriteEndHeight ==
    /\ pc = "saved"
    /\ WriteSync(End(height))
    /\ pc' = "ended"
    /\ UNCHANGED <<dbvars, csvars, crashes, faults>>

\* Block sync stores a block it fetched and applies it; nothing is logged.
SyncBlock ==
    /\ pc = "started" /\ syncing /\ height < InitialHeight + MaxHeight
    /\ store' = height
    /\ Commits
    /\ pc' = "ended"
    /\ UNCHANGED <<logvars, app, state, csvars, crashes, faults>>

\* The one ledger transaction of apply_block, from BEGIN IMMEDIATE to COMMIT.
CommitLedger ==
    /\ pc = "ended"
    /\ app' = height
    /\ Commits
    /\ pc' = "applied"
    /\ UNCHANGED <<logvars, store, state, csvars, crashes, faults>>

\* nodus_cmt_ss_save, then update_to_state and schedule_round0, or block
\* sync's next block.
SaveState ==
    /\ pc = "applied"
    /\ state' = height
    /\ Commits
    /\ height' = HeightAfter(height)
    /\ known' = {}
    /\ skip_wal' = (skip_wal \/ syncing)
    /\ pc' = IF syncing THEN "started" ELSE "run"
    /\ UNCHANGED <<logvars, store, app, syncing, repaired, handled,
                   crashes, faults>>
-----------------------------------------------------------------------------
(* Crashes.                                                                *)

\* The process ends anywhere. The head keeps what reached the file; a power
\* cut may take what fsync did not confirm. The record being written when it
\* happened may be torn. The database keeps its commits; a power cut may take
\* the latest of them back.
Crash ==
    /\ pc # "down" /\ crashes < MaxCrashes
    /\ crashes' = crashes + 1
    /\ \E n \in (IF PowerCuts THEN synced ELSE Len(head))..Len(head) :
       \E tail \in IF n < Len(head) \/ buf # <<>> THEN {<<>>, <<Torn>>}
                   ELSE {<<>>} :
           head' = SubSeq(head, 1, n) \o tail
    /\ synced' = Len(head')
    /\ buf' = <<>>
    /\ \E d \in older \cup {<<store, app, state>>} :
           store' = d[1] /\ app' = d[2] /\ state' = d[3]
    /\ older' = {}
    /\ pc' = "down"
    /\ syncing' = FALSE /\ skip_wal' = FALSE /\ repaired' = FALSE
    /\ known' = {} /\ height' = InitialHeight
    /\ UNCHANGED <<rotated, handled, faults>>

\* A record of the head file goes bad on the disk.
DiskFault ==
    /\ pc = "down" /\ faults < MaxFaults
    /\ \E k \in DOMAIN head :
           head[k] # Torn /\ head' = [head EXCEPT ![k] = Corrupt]
    /\ faults' = faults + 1
    /\ UNCHANGED <<rotated, synced, buf, dbvars, pc, csvars, crashes>>
-----------------------------------------------------------------------------
(* The start: hs_replay_blocks_with_context, nodus_cmt_wal_start,          *)
(* cmt_cs_start.                                                           *)

\* The combinations of heights the handshake can bring together. Without a
\* block it compares the ledger's hash with the state's.
CanReplay ==
    \/ store = 0 /\ app = state
    \/ store > 0 /\ app <= store /\ store \in {state, state + 1}

\* A block the ledger lacks: executed and committed with the real ledger.
ReplayLedger ==
    /\ pc = "down" /\ CanReplay /\ app < store
    /\ app' = IF app < state THEN HeightAfter(app) ELSE store
    /\ Commits
    /\ UNCHANGED <<logvars, store, state, pc, csvars, crashes, faults>>

ReplayStateRealOnly ==
    /\ pc = "down" /\ CanReplay /\ app = state /\ store = state + 1
    /\ app' = store /\ state' = store
    /\ Commits
    /\ UNCHANGED <<logvars, store, pc, csvars, crashes, faults>>

\* The ledger has the last block and the state store does not: the mock
\* application replays it; or the state save that ends a real replay.
ReplayState ==
    /\ pc = "down" /\ CanReplay /\ app = store /\ store = state + 1
    /\ state' = store
    /\ Commits
    /\ UNCHANGED <<logvars, store, app, pc, csvars, crashes, faults>>

HandshakeDone ==
    /\ pc = "down" /\ CanReplay /\ app = state /\ store \in {0, state}
    /\ pc' = "handshaken"
    /\ height' = HeightAfter(state)
    /\ UNCHANGED <<logvars, dbvars, syncing, skip_wal, repaired, known, handled,
                   crashes, faults>>

\* wal_trim_torn_tail: the walk stops at a corrupt record, so torn bytes
\* behind one stay.
Trimmed(s) == IF TornEnd(s) THEN Front(s) ELSE s

\* An empty head gets EndHeight{0}.
Seeded(s) == IF s = <<>> THEN <<End(0)>> ELSE s

\* nodus_cmt_wal_open and nodus_cmt_wal_start; then block sync begins, or
\* consensus at once.
StartWal ==
    /\ pc = "handshaken"
    /\ head' = Seeded(Trimmed(head))
    /\ synced' = Len(head')
    /\ pc' = "started"
    /\ syncing' = BlockSync
    /\ UNCHANGED <<rotated, buf, dbvars, skip_wal, repaired, height, known,
                   handled, crashes, faults>>

\* The marker the replay of this height starts from.
EndHeightBefore == IF height = InitialHeight THEN 0 ELSE height - 1

CanCatchUp == ~skip_wal /\ ~Found(height) /\ Found(EndHeightBefore)

\* cmt_cs_start, a replay that meets no undecodable record.
CatchUp ==
    /\ pc = "started"
    /\ CanCatchUp
    /\ LET s == Behind(EndHeightBefore) IN
           /\ ~HasUndecodable(s) \/ TornEnd(s)
           /\ known' = OwnIn(s)
    /\ pc' = "run" /\ syncing' = FALSE
    /\ UNCHANGED <<logvars, dbvars, skip_wal, repaired, height, handled,
                   crashes, faults>>

\* No catch-up: block sync applied blocks, this height's marker exists, or
\* the previous height's does not ("proceeding to start state anyway").
StartAnyway ==
    /\ pc = "started"
    /\ ~CanCatchUp
    /\ known' = {}
    /\ pc' = "run" /\ syncing' = FALSE
    /\ UNCHANGED <<logvars, dbvars, skip_wal, repaired, height, handled,
                   crashes, faults>>

RepairNothing ==
    /\ pc = "started" /\ CanCatchUp /\ HasUndecodable(Behind(EndHeightBefore))
    /\ pc' = IF repaired THEN "refused" ELSE "started"
    /\ repaired' = TRUE
    /\ UNCHANGED <<logvars, dbvars, syncing, skip_wal, height, known, handled,
                   crashes, faults>>

\* The replay met an undecodable record: nodus_cmt_wal_repair rewrites the
\* head up to its first one, once; the second time the node does not start.
Repair ==
    /\ pc = "started" /\ CanCatchUp /\ HasUndecodable(Behind(EndHeightBefore))
    /\ IF repaired
         THEN /\ pc' = "refused"
              /\ UNCHANGED <<head, synced>>
         ELSE /\ head' = Seeded(Before(head, {Torn, Corrupt}))
              /\ synced' = Len(head')
              /\ pc' = pc
    /\ repaired' = TRUE
    /\ UNCHANGED <<rotated, buf, dbvars, syncing, skip_wal, height, known,
                   handled, crashes, faults>>
-----------------------------------------------------------------------------
Handshake == ReplayLedger \/ ReplayState \/ HandshakeDone \/ StartWal

StartConsensus == CatchUp \/ StartAnyway \/ Repair

Commit == WriteEndHeight \/ CommitLedger \/ SaveState

Next ==
    \/ HandleOwn \/ HandlePeer \/ FlushAndSync \/ GroupCheck \/ Checkpoint
    \/ SaveBlock \/ SyncBlock \/ Commit
    \/ Crash \/ DiskFault
    \/ Handshake \/ StartConsensus

Spec == Init /\ [][Next]_vars

\* The start and the commit are sequences of calls that go on once begun. The
\* last conjunct is weak fairness of StartConsensus, which is enabled exactly
\* when pc = "started". With BlockSync it would claim that block sync hands
\* over, which needs peers; it is used for a node that does not sync.
FairSpec ==
    /\ Spec
    /\ WF_vars(Handshake) /\ WF_vars(Commit)
    /\ []<>(pc # "started") \/ []<><<StartConsensus>>_vars
-----------------------------------------------------------------------------
InLog(r) == \E f \in ToSet(Files) : r \in ToSet(f)

\* TYPE INVARIANT. Every variable keeps its type; fsync never confirms more
\* than the head file holds.
TypeOK ==
    /\ rotated \in Seq(Seq(Record)) /\ head \in Seq(Record)
    /\ buf \in Seq(Record) /\ Len(buf) <= BufCap
    /\ synced \in 0..Len(head)
    /\ {store, app, state} \subseteq {0} \cup Heights
    /\ older \subseteq ({0} \cup Heights) \X ({0} \cup Heights)
                           \X ({0} \cup Heights)
    /\ pc \in PCs
    /\ {syncing, skip_wal, repaired} \subseteq BOOLEAN
    /\ height \in Heights /\ known \subseteq 1..MaxOwn
    /\ handled \in [Heights -> 0..MaxOwn]

\* Wherever the process stopped, in a commit, in block sync or in an earlier
\* handshake, hs_replay_blocks_with_context finds heights of block store,
\* ledger and state store it can bring together: the "uncovered case" and the
\* refusals above it are never taken. This is what the comment on the one
\* ledger transaction promises (nodus_witness_cmt_host.c).
HandshakeCovered == pc = "down" => CanReplay

\* Once consensus runs again at a height whose start is marked in the log, it
\* has handled every own message it had handled at that height in any earlier
\* life of the process: nothing this validator told the network is forgotten,
\* across flushes, rotations, removals of old files, torn tails and crashes
\* during recovery itself.
OwnMessagesReplayed ==
    /\ pc = "run"
    /\ faults = 0
    /\ height > InitialHeight /\ InLog(End(height - 1))
    => known = 1..handled[height]

\* An own message that was handled stays in the log through every crash, power
\* cuts included, because nodus_cmt_wal_write_sync returned before it was
\* handled and nodus_cmt_wal_start trims only torn bytes.
OwnMessagesLogged ==
    faults = 0 => \A h \in Heights : \A n \in 1..handled[h] : InLog(Own(h, n))

\* An end-of-height marker in the log implies that the block of that height is
\* in the block store: cmt_cs_finalize_commit writes it AFTER the block is
\* stored.
MarkedBlockStored ==
    \A f \in ToSet(Files) : \A r \in ToSet(f) : r.kind = "end" => r.height <= store

\* The early stop of nodus_cmt_wal_search_end_height never costs a result: a
\* marker is found exactly when some file holds it, although an empty head
\* gets an EndHeight{0} in the middle of the log.  The variables keep their
\* types.
SearchExact ==
    /\ TypeOK
    /\ faults = 0 => \A h \in Heights : Found(h) <=> InLog(End(h))

\* cmt_cs_start gives up ("the WAL is still corrupted after one repair") only
\* when the damage is in a rotated file: whatever record of the head is bad,
\* one repair makes the log readable.
RefusesOnlyRotatedDamage ==
    pc = "refused" => \E f \in ToSet(rotated) : HasUndecodable(f)

\* A node that went down comes back to running consensus, or gives up in
\* cmt_cs_start: whatever point of a commit, of block sync or of an earlier
\* start it went down at, no start waits or repeats for ever.
Recovers == pc = "down" ~> pc \in {"run", "refused"}
=============================================================================
