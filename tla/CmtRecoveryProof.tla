-------------------------- MODULE CmtRecoveryProof --------------------------
(***************************************************************************)
(* The handshake is always covered: for a chain that starts at height 1,   *)
(* and for every bound, limit and number of crashes, power cuts included,  *)
(* the heights a restarted node finds are ones it can replay from.         *)
(*                                                                         *)
(* HandshakeCovered speaks of a node that is down; the strengthening says  *)
(* where block store, ledger and state store are at every point of a       *)
(* commit, and that every database content a power cut may return to is    *)
(* a content the handshake covers.                                         *)
(***************************************************************************)
EXTENDS CmtRecovery, TLAPS

\* Block store s, ledger a, state store t are level, or the last block is
\* stored and not, or only partly, applied.
Reachable(s, a, t) ==
    \/ s = t /\ a = t
    \/ s = t + 1 /\ a \in {t, s}

Idle == {"handshaken", "started", "run", "refused"}

Positions ==
    /\ store \in Nat /\ app \in Nat /\ state \in Nat /\ height \in Nat
    /\ pc \in PCs
    /\ Reachable(store, app, state)
    /\ pc \in Idle => store = state /\ app = state /\ height = state + 1
    /\ pc \in {"saved", "ended"} =>
           store = state + 1 /\ app = state /\ height = store
    /\ pc = "applied" => store = state + 1 /\ app = store /\ height = store

OlderCovered ==
    \A d \in older : /\ d[1] \in Nat /\ d[2] \in Nat /\ d[3] \in Nat
                     /\ Reachable(d[1], d[2], d[3])

HInv == Positions /\ OlderCovered

\* Whatever a transaction adds to the contents a power cut may return to is
\* covered when the content it starts from is: the `older` half of every
\* step that commits.
LEMMA CommitsKeepCovered ==
    ASSUME HInv, Commits
    PROVE  OlderCovered'
<1>1. older' \subseteq older \cup {<<store, app, state>>}
  BY DEF Commits
<1> DEFINE cur == <<store, app, state>>
<1>2. cur[1] = store /\ cur[2] = app /\ cur[3] = state
  OBVIOUS
<1>3. SUFFICES ASSUME NEW d \in older'
               PROVE  /\ d[1] \in Nat /\ d[2] \in Nat /\ d[3] \in Nat
                      /\ Reachable(d[1], d[2], d[3])
  BY DEF OlderCovered
<1>4. CASE d \in older
  BY <1>4 DEF HInv, OlderCovered
<1>5. CASE d = cur
  BY <1>2, <1>5 DEF HInv, Positions
<1> QED
  BY <1>1, <1>3, <1>4, <1>5

\* The strengthened invariant holds initially.
LEMMA HInvInit ==
    ASSUME InitialHeight = 1
    PROVE  Init => HInv
BY DEF Init, HInv, Positions, OlderCovered, Reachable, PCs, Idle

\* Every step keeps the heights where the commit, block sync and the handshake
\* leave them, and every content a power cut may return to covered.
LEMMA HInvNext ==
    ASSUME InitialHeight = 1, HInv, [Next]_vars
    PROVE  HInv'
<1> USE DEF HInv
<1>1. CASE UNCHANGED vars
  BY <1>1 DEF vars, logvars, dbvars, csvars, Positions, OlderCovered
<1>2. CASE HandleOwn \/ HandlePeer \/ FlushAndSync \/ GroupCheck \/ DiskFault
  <2>1. UNCHANGED <<dbvars, pc, height>>
    BY <1>2 DEF HandleOwn, HandlePeer, FlushAndSync, GroupCheck, DiskFault,
                csvars
  <2> QED
    BY <2>1 DEF dbvars, Positions, OlderCovered
<1>3. CASE Checkpoint
  BY <1>3 DEF Checkpoint, csvars, Positions, OlderCovered
<1>4. CASE SaveBlock
  <2>1. OlderCovered'
    BY <1>4, CommitsKeepCovered DEF SaveBlock
  <2>2. Positions'
    BY <1>4 DEF SaveBlock, csvars, Positions, Reachable, Idle, PCs
  <2> QED
    BY <2>1, <2>2
<1>5. CASE SyncBlock
  <2>1. OlderCovered'
    BY <1>5, CommitsKeepCovered DEF SyncBlock
  <2>2. Positions'
    BY <1>5 DEF SyncBlock, csvars, Positions, Reachable, Idle, PCs
  <2> QED
    BY <2>1, <2>2
<1>6. CASE WriteEndHeight
  BY <1>6 DEF WriteEndHeight, dbvars, csvars, Positions, OlderCovered,
              Reachable, Idle, PCs
<1>7. CASE CommitLedger
  <2>1. OlderCovered'
    BY <1>7, CommitsKeepCovered DEF CommitLedger
  <2>2. Positions'
    BY <1>7 DEF CommitLedger, csvars, Positions, Reachable, Idle, PCs
  <2> QED
    BY <2>1, <2>2
<1>8. CASE SaveState
  <2>1. OlderCovered'
    BY <1>8, CommitsKeepCovered DEF SaveState
  <2>2. Positions'
    BY <1>8 DEF SaveState, HeightAfter, Positions, Reachable, Idle, PCs
  <2> QED
    BY <2>1, <2>2
<1>9. CASE Crash
  <2>1. OlderCovered'
    BY <1>9 DEF Crash, OlderCovered
  <2>2. PICK d \in older \cup {<<store, app, state>>} :
            store' = d[1] /\ app' = d[2] /\ state' = d[3]
    BY <1>9 DEF Crash
  <2>3. /\ store' \in Nat /\ app' \in Nat /\ state' \in Nat
        /\ Reachable(store', app', state')
    <3>1. CASE d \in older
      BY <2>2, <3>1 DEF OlderCovered
    <3>2. CASE d = <<store, app, state>>
      BY <2>2, <3>2 DEF Positions
    <3> QED
      BY <3>1, <3>2
  <2>4. pc' = "down" /\ height' = 1
    BY <1>9 DEF Crash
  <2> QED
    BY <2>1, <2>3, <2>4 DEF Positions, Reachable, Idle, PCs
<1>10. CASE ReplayLedger
  <2>1. OlderCovered'
    BY <1>10, CommitsKeepCovered DEF ReplayLedger
  <2>2. Positions'
    BY <1>10 DEF ReplayLedger, csvars, Positions, Reachable, Idle, PCs
  <2> QED
    BY <2>1, <2>2
<1>11. CASE ReplayState
  <2>1. OlderCovered'
    BY <1>11, CommitsKeepCovered DEF ReplayState
  <2>2. Positions'
    BY <1>11 DEF ReplayState, csvars, Positions, Reachable, Idle, PCs
  <2> QED
    BY <2>1, <2>2
<1>12. CASE HandshakeDone
  BY <1>12 DEF HandshakeDone, dbvars, HeightAfter, Positions, OlderCovered,
               Reachable, Idle, PCs
<1>13. CASE StartWal
  BY <1>13 DEF StartWal, dbvars, Positions, OlderCovered, Reachable, Idle, PCs
<1>14. CASE CatchUp \/ StartAnyway \/ Repair
  <2>1. pc \in Idle /\ pc' \in Idle /\ UNCHANGED <<dbvars, height>>
    BY <1>14 DEF CatchUp, StartAnyway, Repair, Idle
  <2> QED
    BY <2>1 DEF dbvars, Positions, OlderCovered, Idle, PCs
<1> QED
  BY <1>1, <1>2, <1>3, <1>4, <1>5, <1>6, <1>7, <1>8, <1>9, <1>10, <1>11,
     <1>12, <1>13, <1>14 DEF Next, Commit, Handshake, StartConsensus

\* For a chain whose first block has height 1, hs_replay_blocks_with_context
\* never meets a combination of heights it refuses, after any sequence of
\* crashes, power cuts and interrupted handshakes.
THEOREM AlwaysCovered ==
    ASSUME InitialHeight = 1
    PROVE  Spec => []HandshakeCovered
<1>1. HInv => HandshakeCovered
  BY DEF HInv, Positions, Reachable, HandshakeCovered, CanReplay
<1> QED
  BY HInvInit, HInvNext, <1>1, PTL DEF Spec
=============================================================================
