-------------------------- MODULE CmtReceiveProof --------------------------
(***************************************************************************)
(* The guarantees of the event loop, for every queue size, every set of    *)
(* timeouts and every step budget of at least four calls.                  *)
(***************************************************************************)
EXTENDS CmtReceive, TLAPS

Stamps == Timeouts \union {NoTimeout}

\* The parts of TypeOK the proofs use.
Typed ==
  /\ phase \in Phases
  /\ calls \in 0..StepBudget
  /\ poll_start \in Sources
  /\ peer_q \in 0..QueueSize
  /\ internal_q \in 0..QueueSize
  /\ txs_available \in BOOLEAN
  /\ wait_sync \in BOOLEAN
  /\ timer_active \in BOOLEAN
  /\ timer_armed \in BOOLEAN
  /\ tock_q \in Seq(Timeouts)
  /\ ti \in Stamps
  /\ tock \in Stamps
  /\ fault \in Faults
  /\ served \in SUBSET Sources
  /\ waited \in [Sources -> 0..4]

\* A ready source that was passed over stands that much nearer to the start of
\* the walk; one that is not ready waits for nothing.
Waiting ==
  \A s \in Sources : IF Ready(s) THEN waited[s] + Distance(s) <= 3 ELSE waited[s] = 0

\* At most one expired timeout is pending, only inside the drain its expiry
\* began, and that drain has passed it over on each of its calls so far.
Pending ==
  /\ Len(tock_q) <= 1
  /\ tock_q # <<>> => phase = "drain_timer" /\ calls <= waited[Tock]

\* The last timeout that expired.
Latest == IF tock_q = <<>> THEN tock ELSE tock_q[1]

\* The ticker's timeout is newer than all that expired while its timer runs,
\* and is the last of them afterwards.
Ordered ==
  /\ tock_q # <<>> => After(tock_q[1], tock)
  /\ IF timer_active THEN After(ti, Latest) ELSE ti = Latest

\* The inductive invariant.
RInv == Typed /\ Waiting /\ Pending /\ Ordered /\ TimerAgrees

USE TimeoutsAssumption, QueueAssumption, TockAssumption, BudgetAssumption

-----------------------------------------------------------------------------
\* The order of timeouts (cmt_ticker.c) is transitive.
LEMMA AfterTransitive ==
  ASSUME NEW t \in Stamps, NEW u \in Stamps, NEW v \in Stamps,
         After(t, u), After(u, v)
  PROVE  After(t, v)
BY DEF After, Stamps, NoTimeout

\* A timeout the ticker accepts is newer than the one it holds.
LEMMA AcceptedIsNewer ==
  ASSUME NEW t \in Timeouts, ti \in Stamps, ~Ignored(t)
  PROVE  After(t, ti)
BY DEF After, Ignored, Stamps, NoTimeout

\* Asking for a timeout keeps the ticker and the host in agreement, and the
\* ticker's timeout newer than every expired one.
LEMMA ScheduleKeepsOrder ==
  ASSUME NEW u \in Stamps, NEW t \in Timeouts, ti \in Stamps,
         timer_active \in BOOLEAN, TimerAgrees,
         IF timer_active THEN After(ti, u) ELSE ti = u,
         Schedule(t)
  PROVE  /\ ti' \in Stamps /\ timer_active' \in BOOLEAN /\ timer_armed' \in BOOLEAN
         /\ TimerAgrees'
         /\ IF timer_active' THEN After(ti', u) ELSE ti' = u
<1>1. CASE Ignored(t)
  <2>1. UNCHANGED ticker
    BY <1>1 DEF Schedule
  <2> QED
    BY <2>1 DEF ticker, TimerAgrees, After
<1>2. CASE ~Ignored(t)
  <2>1. ti' = t /\ timer_active' = TRUE /\ timer_armed' = TRUE
    BY <1>2 DEF Schedule
  <2>2. After(t, ti) /\ t \in Stamps
    BY <1>2, AcceptedIsNewer DEF Stamps
  <2>3. After(t, u)
    BY <2>2, AfterTransitive
  <2> QED
    BY <2>1, <2>2, <2>3 DEF TimerAgrees
<1> QED
  BY <1>1, <1>2

\* A place of the walk is one of four.
LEMMA PlacesRange ==
  ASSUME NEW p \in Sources, NEW s \in Sources
  PROVE  (s - p) % 4 \in 0..3
BY DEF Sources

\* The walk visits every source within four places.
LEMMA DistanceRange ==
  ASSUME NEW s \in Sources, poll_start \in Sources
  PROVE  Distance(s) \in 0..3
BY PlacesRange DEF Distance

\* The loop starts in the invariant.
LEMMA RInvInit == Init => RInv
<1> SUFFICES ASSUME Init PROVE RInv
  OBVIOUS
<1>1. Typed
  <2>1. ti \in Stamps /\ tock \in Stamps
    BY DEF Init, Stamps
  <2>2. timer_active \in BOOLEAN /\ timer_armed \in BOOLEAN
    BY DEF Init
  <2>3. waited \in [Sources -> 0..4]
    BY DEF Init
  <2>4. tock_q \in Seq(Timeouts)
    BY DEF Init
  <2>5. /\ calls \in 0..StepBudget /\ poll_start \in Sources
        /\ peer_q \in 0..QueueSize /\ internal_q \in 0..QueueSize
    BY DEF Init, Sources, Txs
  <2>6. /\ phase \in Phases /\ fault \in Faults /\ served \in SUBSET Sources
        /\ txs_available \in BOOLEAN /\ wait_sync \in BOOLEAN
    BY DEF Init, Phases, Faults
  <2> QED
    BY <2>1, <2>2, <2>3, <2>4, <2>5, <2>6 DEF Typed
<1>2. Waiting
  <2> SUFFICES ASSUME NEW s \in Sources
               PROVE  waited[s] = 0 /\ waited[s] + Distance(s) <= 3
    BY DEF Waiting
  <2>1. Distance(s) \in 0..3
    BY <1>1, DistanceRange DEF Typed
  <2> QED
    BY <2>1 DEF Init
<1>3. Pending
  BY DEF Init, Pending
<1>4. Ordered
  <2>1. tock_q = <<>> /\ Latest = NoTimeout
    BY DEF Init, Latest
  <2>2. CASE wait_sync
    BY <2>1, <2>2 DEF Init, Ordered
  <2>3. CASE ~wait_sync
    <3>1. ti \in Timeouts /\ timer_active = TRUE
      BY <2>3 DEF Init
    <3>2. After(ti, NoTimeout)
      BY <3>1 DEF After, NoTimeout
    <3> QED
      BY <2>1, <3>1, <3>2 DEF Ordered
  <2> QED
    BY <2>2, <2>3
<1>5. TimerAgrees
  BY DEF Init, TimerAgrees
<1> QED
  BY <1>1, <1>2, <1>3, <1>4, <1>5 DEF RInv

\* The walk of the next call begins behind the served source, so every source
\* it had not reached moves nearer.
LEMMA DistanceShrinks ==
  ASSUME NEW s \in Sources, NEW r \in Sources, r # s,
         poll_start \in Sources, poll_start' = (s + 1) % 4,
         Distance(s) <= Distance(r)
  PROVE  /\ Distance(r) >= 1
         /\ Distance(r)' <= Distance(r) - 1
<1>1. poll_start \in {0, 1, 2, 3} /\ s \in {0, 1, 2, 3} /\ r \in {0, 1, 2, 3}
  BY DEF Sources
<1>2. poll_start' = IF s = 3 THEN 0 ELSE s + 1
  BY <1>1
<1>3. Distance(s) = IF s >= poll_start THEN s - poll_start ELSE s - poll_start + 4
  BY <1>1 DEF Distance
<1>4. Distance(r) = IF r >= poll_start THEN r - poll_start ELSE r - poll_start + 4
  BY <1>1 DEF Distance
<1>5. Distance(r)' = IF r >= poll_start' THEN r - poll_start' ELSE r - poll_start' + 4
  BY <1>1, <1>2 DEF Distance
<1> QED
  BY <1>1, <1>2, <1>3, <1>4, <1>5

\* A call of cmt_cs_step preserves the invariant.
LEMMA StepKeeps == RInv /\ Step => RInv'
<1> SUFFICES ASSUME RInv, Step PROVE RInv'
  OBVIOUS
<1> USE DEF RInv
<1>1. PICK s \in Sources :
        /\ Picked(s)
        /\ Handled(s)
        /\ poll_start' = (s + 1) % 4
        /\ waited' = [r \in Sources |-> IF r = s THEN 0 ELSE PassedOver(r)]
        /\ served' = served \union {s}
  BY DEF Step
<1>2. /\ calls' = calls + 1 /\ calls < StepBudget
      /\ phase' = phase /\ wait_sync' = wait_sync
  BY DEF Step
<1>3. PICK n \in 0..MaxPush :
        LET own == (IF s = Own THEN internal_q - 1 ELSE internal_q) + n
        IN  /\ internal_q' = (IF own > QueueSize THEN QueueSize ELSE own)
            /\ fault' = (IF own > QueueSize THEN "internal_full" ELSE fault)
  BY <1>1 DEF Handled
<1>4. /\ txs_available' \in {txs_available /\ s # Txs, TRUE}
      /\ peer_q' = (IF s = Peer THEN peer_q - 1 ELSE peer_q)
      /\ tock_q' = (IF s = Tock THEN Tail(tock_q) ELSE tock_q)
      /\ tock' = (IF s = Tock THEN Head(tock_q) ELSE tock)
      /\ UNCHANGED ticker \/ \E t \in Timeouts : Schedule(t)
  BY <1>1 DEF Handled
<1>5. Ready(s)
  BY <1>1 DEF Picked
<1>6. s = Tock => tock_q # <<>> /\ tock_q' = <<>> /\ tock' = tock_q[1]
  <2>1. s = Tock => tock_q # <<>>
    BY <1>5 DEF Ready, Txs, Peer, Own, Tock
  <2> QED
    BY <2>1, <1>4 DEF Typed, Pending
<1>7. internal_q' \in 0..QueueSize /\ (s # Own /\ internal_q > 0 => internal_q' > 0)
  <2>1. s = Own => internal_q > 0
    BY <1>5 DEF Ready, Txs, Peer, Own, Tock
  <2> QED
    BY <2>1, <1>3 DEF Typed
<1>8. peer_q' \in 0..QueueSize
  <2>1. s = Peer => peer_q > 0
    BY <1>5 DEF Ready, Txs, Peer, Own, Tock
  <2> QED
    BY <2>1, <1>4 DEF Typed
<1>9. ASSUME NEW r \in Sources PROVE PassedOver(r) \in 0..4
  <2>1. waited[r] \in 0..4
    BY DEF Typed
  <2>2. CASE Ready(r)
    BY <2>1, <2>2 DEF PassedOver
  <2>3. CASE ~Ready(r)
    BY <2>3 DEF PassedOver
  <2> QED
    BY <2>2, <2>3
<1>10. Latest' = Latest /\ Latest \in Stamps
  <2>1. tock_q # <<>> => tock_q[1] \in Timeouts
    BY DEF Typed
  <2>2. CASE s = Tock
    BY <2>1, <2>2, <1>6 DEF Latest, Stamps
  <2>3. CASE s # Tock
    BY <2>1, <2>3, <1>4 DEF Latest, Stamps, Typed
  <2> QED
    BY <2>2, <2>3
<1>11. /\ ti' \in Stamps /\ timer_active' \in BOOLEAN /\ timer_armed' \in BOOLEAN
       /\ TimerAgrees'
       /\ IF timer_active' THEN After(ti', Latest) ELSE ti' = Latest
  <2>1. IF timer_active THEN After(ti, Latest) ELSE ti = Latest
    BY DEF Ordered
  <2>2. CASE UNCHANGED ticker
    <3>1. ti' = ti /\ timer_active' = timer_active /\ timer_armed' = timer_armed
      BY <2>2 DEF ticker
    <3>2. After(ti', Latest) <=> After(ti, Latest)
      BY <3>1 DEF After
    <3>3. TimerAgrees'
      BY <3>1 DEF TimerAgrees
    <3> QED
      BY <2>1, <3>1, <3>2, <3>3 DEF Typed
  <2>3. ASSUME NEW t \in Timeouts, Schedule(t)
        PROVE  /\ ti' \in Stamps /\ timer_active' \in BOOLEAN /\ timer_armed' \in BOOLEAN
               /\ TimerAgrees'
               /\ IF timer_active' THEN After(ti', Latest) ELSE ti' = Latest
    BY <2>1, <2>3, <1>10, ScheduleKeepsOrder DEF Typed
  <2> QED
    BY <2>2, <2>3, <1>4
<1>12. Typed'
  <2>1. poll_start' \in Sources
    BY <1>1 DEF Sources
  <2>2. calls' \in 0..StepBudget
    BY <1>2 DEF Typed
  <2>3. tock_q' \in Seq(Timeouts) /\ tock' \in Stamps
    <3>1. CASE s = Tock
      BY <3>1, <1>6 DEF Typed, Stamps
    <3>2. CASE s # Tock
      BY <3>2, <1>4 DEF Typed
    <3> QED
      BY <3>1, <3>2
  <2>4. waited' \in [Sources -> 0..4]
    BY <1>1, <1>9
  <2>5. served' \in SUBSET Sources
    BY <1>1 DEF Typed
  <2>6. fault' \in Faults
    BY <1>3 DEF Typed, Faults
  <2>7. txs_available' \in BOOLEAN
    BY <1>4
  <2>8. phase' \in Phases /\ wait_sync' \in BOOLEAN
    BY <1>2 DEF Typed
  <2> QED
    BY <2>1, <2>2, <2>3, <2>4, <2>5, <2>6, <2>7, <2>8, <1>7, <1>8, <1>11 DEF Typed
<1>13. Waiting'
  <2> SUFFICES ASSUME NEW r \in Sources
               PROVE  IF Ready(r)' THEN waited'[r] + Distance(r)' <= 3 ELSE waited'[r] = 0
    BY DEF Waiting
  <2>1. Distance(r)' \in 0..3
    <3>1. poll_start' \in Sources
      BY <1>12 DEF Typed
    <3> QED
      BY <3>1, PlacesRange DEF Distance
  <2>2. CASE r = s
    BY <2>1, <2>2, <1>1
  <2>3. CASE r # s /\ ~Ready(r)
    <3>1. waited'[r] = 0
      BY <2>3, <1>1 DEF PassedOver
    <3> QED
      BY <2>1, <3>1
  <2>4. CASE r # s /\ Ready(r)
    <3>1. Distance(s) <= Distance(r)
      BY <2>4, <1>1 DEF Picked
    <3>2. Distance(r) >= 1 /\ Distance(r)' <= Distance(r) - 1
      BY <2>4, <3>1, <1>1, DistanceShrinks DEF Typed
    <3>3. waited[r] + Distance(r) <= 3
      BY <2>4 DEF Waiting
    <3>4. waited[r] \in 0..4 /\ Distance(r) \in 0..3
      BY DistanceRange DEF Typed
    <3>5. waited'[r] = waited[r] + 1
      BY <2>4, <3>2, <3>3, <3>4, <1>1 DEF PassedOver
    <3>6. Ready(r)'
      <4>1. r \in {Txs, Peer, Own, Tock}
        BY DEF Sources, Txs, Peer, Own, Tock
      <4>2. CASE r = Txs
        <5>1. txs_available = TRUE /\ s # Txs
          BY <2>4, <4>2 DEF Ready, Typed, Txs, Peer, Own, Tock
        <5>2. txs_available' = TRUE
          BY <5>1, <1>4
        <5> QED
          BY <4>2, <5>2 DEF Ready, Txs, Peer, Own, Tock
      <4>3. CASE r = Peer
        BY <2>4, <4>3, <1>4 DEF Ready, Txs, Peer, Own, Tock
      <4>4. CASE r = Own
        BY <2>4, <4>4, <1>7 DEF Ready, Txs, Peer, Own, Tock
      <4>5. CASE r = Tock
        BY <2>4, <4>5, <1>4 DEF Ready, Txs, Peer, Own, Tock
      <4> QED
        BY <4>1, <4>2, <4>3, <4>4, <4>5
    <3> QED
      BY <2>1, <3>2, <3>3, <3>4, <3>5, <3>6
  <2> QED
    BY <2>2, <2>3, <2>4
<1>14. Pending'
  <2>1. CASE s = Tock
    BY <2>1, <1>6 DEF Pending
  <2>2. CASE s # Tock
    <3>1. tock_q' = tock_q
      BY <2>2, <1>4
    <3>2. ASSUME tock_q # <<>> PROVE calls' <= waited'[Tock] /\ phase' = "drain_timer"
      <4>1. Tock \in Sources /\ Ready(Tock)
        BY <3>2 DEF Ready, Sources, Txs, Peer, Own, Tock
      <4>2. waited[Tock] + Distance(Tock) <= 3 /\ Distance(Tock) \in 0..3
        BY <4>1, DistanceRange DEF Waiting, Typed
      <4>3. waited[Tock] \in 0..4
        BY <4>1 DEF Typed
      <4>4. waited'[Tock] = waited[Tock] + 1
        BY <2>2, <4>1, <4>2, <4>3, <1>1 DEF PassedOver
      <4> QED
        BY <3>2, <4>3, <4>4, <1>2 DEF Pending, Typed
    <3> QED
      BY <3>1, <3>2 DEF Pending
  <2> QED
    BY <2>1, <2>2
<1>15. Ordered'
  <2>1. tock_q' # <<>> => After(tock_q'[1], tock')
    <3>1. CASE s = Tock
      BY <3>1, <1>6
    <3>2. CASE s # Tock
      BY <3>2, <1>4 DEF Ordered, After
    <3> QED
      BY <3>1, <3>2
  <2>2. IF timer_active' THEN After(ti', Latest') ELSE ti' = Latest'
    BY <1>10, <1>11 DEF After
  <2> QED
    BY <2>1, <2>2 DEF Ordered, After
<1> QED
  BY <1>11, <1>12, <1>13, <1>14, <1>15

\* Whatever the network, the mempool and the rest of the tick do to the loop
\* while no timeout is pending preserves the invariant: the walk and the
\* waiting are unchanged, and a source that becomes ready has not waited.
LEMMA OutsideKeeps ==
  ASSUME RInv, tock_q' = tock_q, tock' = tock, waited' = waited,
         poll_start' = poll_start, internal_q' = internal_q,
         peer_q' \in peer_q..QueueSize, txs_available' \in {txs_available, TRUE},
         tock_q = <<>>, phase' \in Phases, calls' \in 0..StepBudget,
         wait_sync' \in BOOLEAN, fault' \in Faults, served' \in SUBSET Sources,
         UNCHANGED ticker \/ \E t \in Timeouts : Schedule(t)
  PROVE  RInv'
<1> USE DEF RInv
<1>1. Latest' = Latest /\ Latest \in Stamps
  BY DEF Latest, Typed
<1>2. /\ ti' \in Stamps /\ timer_active' \in BOOLEAN /\ timer_armed' \in BOOLEAN
      /\ TimerAgrees'
      /\ IF timer_active' THEN After(ti', Latest) ELSE ti' = Latest
  <2>1. IF timer_active THEN After(ti, Latest) ELSE ti = Latest
    BY DEF Ordered
  <2>2. CASE UNCHANGED ticker
    <3>1. ti' = ti /\ timer_active' = timer_active /\ timer_armed' = timer_armed
      BY <2>2 DEF ticker
    <3>2. After(ti', Latest) <=> After(ti, Latest)
      BY <3>1 DEF After
    <3>3. TimerAgrees'
      BY <3>1 DEF TimerAgrees
    <3> QED
      BY <2>1, <3>1, <3>2, <3>3 DEF Typed
  <2>3. ASSUME NEW t \in Timeouts, Schedule(t)
        PROVE  /\ ti' \in Stamps /\ timer_active' \in BOOLEAN /\ timer_armed' \in BOOLEAN
               /\ TimerAgrees'
               /\ IF timer_active' THEN After(ti', Latest) ELSE ti' = Latest
    BY <2>1, <2>3, <1>1, ScheduleKeepsOrder DEF Typed
  <2> QED
    BY <2>2, <2>3
<1>3. Typed'
  <2>1. peer_q' \in 0..QueueSize
    BY DEF Typed
  <2>2. txs_available' \in BOOLEAN
    BY DEF Typed
  <2> QED
    BY <2>1, <2>2, <1>2 DEF Typed
<1>4. Waiting'
  <2> SUFFICES ASSUME NEW r \in Sources
               PROVE  IF Ready(r)' THEN waited[r] + Distance(r) <= 3 ELSE waited[r] = 0
    BY DEF Waiting, Distance
  <2>1. Distance(r) \in 0..3 /\ waited[r] \in 0..4
    BY DistanceRange DEF Typed
  <2>2. CASE ~Ready(r)
    BY <2>1, <2>2 DEF Waiting
  <2>3. CASE Ready(r)
    <3>1. r \in {Txs, Peer, Own, Tock}
      BY DEF Sources, Txs, Peer, Own, Tock
    <3>2. CASE r = Txs
      <4>1. txs_available
        BY <2>3, <3>2 DEF Ready, Txs, Peer, Own, Tock
      <4>2. txs_available = TRUE
        BY <4>1 DEF Typed
      <4>3. txs_available' = TRUE
        BY <4>2
      <4>4. Ready(r)'
        BY <3>2, <4>3 DEF Ready, Txs, Peer, Own, Tock
      <4> QED
        BY <2>3, <4>4 DEF Waiting
    <3>3. CASE r = Peer
      <4>1. peer_q' > 0
        BY <2>3, <3>3 DEF Ready, Typed, Txs, Peer, Own, Tock
      <4>2. Ready(r)'
        BY <3>3, <4>1 DEF Ready, Txs, Peer, Own, Tock
      <4> QED
        BY <2>3, <4>2 DEF Waiting
    <3>4. CASE r = Own
      <4>1. Ready(r)'
        BY <2>3, <3>4 DEF Ready, Txs, Peer, Own, Tock
      <4> QED
        BY <2>3, <4>1 DEF Waiting
    <3>5. CASE r = Tock
      BY <2>3, <3>5 DEF Ready, Txs, Peer, Own, Tock
    <3> QED
      BY <3>1, <3>2, <3>3, <3>4, <3>5
  <2> QED
    BY <2>2, <2>3
<1>5. Pending'
  BY DEF Pending
<1>6. Ordered'
  <2>1. IF timer_active' THEN After(ti', Latest') ELSE ti' = Latest'
    BY <1>1, <1>2 DEF After
  <2> QED
    BY <2>1 DEF Ordered, After
<1> QED
  BY <1>2, <1>3, <1>4, <1>5, <1>6

\* The drain behind the timer does not end before the pending timeout is
\* handled: it makes at least four calls and the walk reaches every source in
\* four.
LEMMA DrainReachesTimeout == RInv /\ DrainOver => tock_q = <<>>
<1> SUFFICES ASSUME RInv, DrainOver, tock_q # <<>> PROVE FALSE
  OBVIOUS
<1>1. Tock \in Sources /\ Ready(Tock)
  BY DEF Ready, Sources, Txs, Peer, Own, Tock
<1>2. waited[Tock] + Distance(Tock) <= 3 /\ Distance(Tock) \in 0..3
  BY <1>1, DistanceRange DEF RInv, Waiting, Typed
<1>3. waited[Tock] \in 0..4 /\ calls \in 0..StepBudget
  BY <1>1 DEF RInv, Typed
<1>4. calls = StepBudget
  BY <1>1 DEF DrainOver, HasWork
<1> QED
  BY <1>2, <1>3, <1>4 DEF RInv, Pending

\* The expiry of the timer preserves the invariant.
LEMMA ExpiryKeeps == RInv /\ TimerExpired => RInv'
<1> SUFFICES ASSUME RInv, TimerExpired PROVE RInv'
  OBVIOUS
<1> USE DEF RInv
<1>1. tock_q = <<>> /\ timer_active = TRUE
  <2>1. phase = "timer" /\ timer_armed
    BY DEF TimerExpired
  <2> QED
    BY <2>1 DEF Pending, TimerAgrees, Typed
<1>2. Len(tock_q) < TockSize
  BY <1>1
<1>3. /\ fault' = "none" /\ timer_active' = FALSE /\ timer_armed' = FALSE
      /\ tock_q' = <<ti>> /\ phase' = "drain_timer" /\ calls' = 0
  <2>1. tock_q' = Append(tock_q, ti)
    BY <1>1, <1>2 DEF TimerExpired
  <2>2. tock_q' = <<ti>>
    BY <1>1, <2>1
  <2>3. fault' = "none" /\ phase' = "drain_timer" /\ calls' = 0
    BY <1>1, <1>2 DEF TimerExpired
  <2>4. timer_armed' = FALSE
    BY DEF TimerExpired
  <2>5. timer_active' = (timer_active /\ ~(fault' = "none"))
    BY DEF TimerExpired
  <2>6. timer_active' = FALSE
    BY <2>3, <2>5
  <2> QED
    BY <2>2, <2>3, <2>4, <2>6
<1>4. UNCHANGED <<wait_sync, txs_available, peer_q, internal_q, poll_start, ti,
                  waited, served, tock>>
  BY DEF TimerExpired, history
<1>5. After(ti, tock)
  BY <1>1 DEF Ordered, Latest
<1>6. ti \in Timeouts
  BY <1>5 DEF Typed, Stamps, After, NoTimeout
<1>7. Typed'
  <2>1. calls' \in 0..StepBudget
    BY <1>3
  <2>2. tock_q' \in Seq(Timeouts)
    BY <1>3, <1>6
  <2>3. phase' \in Phases /\ fault' \in Faults
    BY <1>3 DEF Phases, Faults
  <2>4. timer_active' \in BOOLEAN /\ timer_armed' \in BOOLEAN
    BY <1>3
  <2> QED
    BY <2>1, <2>2, <2>3, <2>4, <1>4 DEF Typed
<1>8. Waiting'
  <2> SUFFICES ASSUME NEW r \in Sources
               PROVE  IF Ready(r)' THEN waited[r] + Distance(r) <= 3 ELSE waited[r] = 0
    BY <1>4 DEF Waiting, Distance
  <2>1. Distance(r) \in 0..3 /\ waited[r] \in 0..4
    BY DistanceRange DEF Typed
  <2>2. CASE r = Tock
    <3>1. ~Ready(r)
      BY <2>2, <1>1 DEF Ready, Txs, Peer, Own, Tock
    <3> QED
      BY <2>1, <3>1 DEF Waiting
  <2>3. CASE r # Tock
    <3>1. Ready(r)' <=> Ready(r)
      BY <2>3, <1>4 DEF Ready, Sources, Txs, Peer, Own, Tock
    <3> QED
      BY <3>1 DEF Waiting
  <2> QED
    BY <2>2, <2>3
<1>9. Pending'
  <2>1. waited[Tock] \in 0..4
    BY DEF Typed, Sources, Tock
  <2> QED
    BY <1>3, <1>4, <2>1 DEF Pending
<1>10. Ordered'
  <2>1. Latest' = ti /\ tock_q'[1] = ti
    BY <1>3 DEF Latest
  <2>2. After(tock_q'[1], tock')
    BY <2>1, <1>4, <1>5 DEF After
  <2> QED
    BY <2>1, <2>2, <1>3, <1>4 DEF Ordered, After
<1>11. TimerAgrees'
  BY <1>3 DEF TimerAgrees
<1> QED
  BY <1>7, <1>8, <1>9, <1>10, <1>11

\* Every step of the loop and of its surroundings preserves the invariant.
LEMMA RInvNext == RInv /\ [Next]_vars => RInv'
<1> SUFFICES ASSUME RInv, [Next]_vars PROVE RInv'
  OBVIOUS
<1> USE DEF queues, history
<1>a. phase # "drain_timer" => tock_q = <<>>
  BY DEF RInv, Pending
<1>b. /\ phase \in Phases /\ calls \in 0..StepBudget /\ wait_sync \in BOOLEAN
      /\ fault \in Faults /\ served \in SUBSET Sources /\ peer_q \in 0..QueueSize
      /\ txs_available \in BOOLEAN
  BY DEF RInv, Typed
<1>1. CASE Receive
  <2>1. peer_q' \in peer_q..QueueSize
    BY <1>1, <1>b DEF Receive
  <2> QED
    BY <1>1, <1>a, <1>b, <2>1, OutsideKeeps DEF Receive
<1>2. CASE NotifyTxsAvailable
  <2>1. peer_q' \in peer_q..QueueSize
    BY <1>2, <1>b DEF NotifyTxsAvailable
  <2> QED
    BY <1>2, <1>a, <1>b, <2>1, OutsideKeeps DEF NotifyTxsAvailable
<1>3. CASE BeginTick
  <2>1. peer_q' \in peer_q..QueueSize
    BY <1>3, <1>b DEF BeginTick
  <2>2. phase' \in Phases /\ calls' \in 0..StepBudget /\ served' \in SUBSET Sources
    BY <1>3 DEF BeginTick, Phases
  <2> QED
    BY <1>3, <1>a, <1>b, <2>1, <2>2, OutsideKeeps DEF BeginTick
<1>4. CASE Step
  BY <1>4, StepKeeps
<1>5. CASE EndDrain
  <2>1. peer_q' \in peer_q..QueueSize
    BY <1>5, <1>b DEF EndDrain
  <2>2. phase' \in Phases
    BY <1>5 DEF EndDrain, Phases
  <2>3. tock_q = <<>>
    BY <1>5, <1>a, DrainReachesTimeout DEF EndDrain
  <2> QED
    BY <1>5, <1>b, <2>1, <2>2, <2>3, OutsideKeeps DEF EndDrain
<1>6. CASE TickReactors
  <2>1. peer_q' \in peer_q..QueueSize
    BY <1>6, <1>b DEF TickReactors
  <2>2. phase' \in Phases
    BY <1>6 DEF TickReactors, Phases
  <2>3. wait_sync' \in BOOLEAN
    BY <1>6, <1>b DEF TickReactors
  <2>4. UNCHANGED ticker \/ \E t \in Timeouts : Schedule(t)
    BY <1>6 DEF TickReactors
  <2>5. tock_q = <<>>
    BY <1>6, <1>a DEF TickReactors
  <2> QED
    BY <1>6, <1>b, <2>1, <2>2, <2>3, <2>4, <2>5, OutsideKeeps DEF TickReactors
<1>7. CASE TimerNotDue
  <2>1. peer_q' \in peer_q..QueueSize
    BY <1>7, <1>b DEF TimerNotDue
  <2>2. phase' \in Phases
    BY <1>7 DEF TimerNotDue, Phases
  <2> QED
    BY <1>7, <1>a, <1>b, <2>1, <2>2, OutsideKeeps DEF TimerNotDue
<1>8. CASE TimerExpired
  BY <1>8, ExpiryKeeps
<1>9. CASE UNCHANGED vars
  BY <1>9 DEF vars, RInv, Typed, Waiting, Ready, Distance, Pending, Ordered, Latest,
              After, TimerAgrees
<1> QED
  BY <1>1, <1>2, <1>3, <1>4, <1>5, <1>6, <1>7, <1>8, <1>9 DEF Next, Loop

\* RInv holds in every reachable state of the loop.
THEOREM Invariance == Spec => []RInv
BY RInvInit, RInvNext, PTL DEF Spec

\* The variables of the loop keep their types: the two message queues and the
\* calls of a drain stay within their bounds.
THEOREM TypeCorrect == Spec => []TypeOK
<1>1. RInv => TypeOK
  BY DEF RInv, Typed, TypeOK, Stamps
<1> QED
  BY <1>1, Invariance, PTL

\* cmt_cs_step serves every source that stays ready within four working
\* calls, whatever the other sources do.
THEOREM RotationIsFair == Spec => []ServedWithinFour
<1>1. RInv => ServedWithinFour
  <2> SUFFICES ASSUME RInv, NEW s \in Sources PROVE waited[s] <= 3
    BY DEF ServedWithinFour
  <2>1. waited[s] \in 0..4 /\ Distance(s) \in 0..3
    BY DistanceRange DEF RInv, Typed
  <2>2. IF Ready(s) THEN waited[s] + Distance(s) <= 3 ELSE waited[s] = 0
    BY DEF RInv, Waiting
  <2> QED
    BY <2>1, <2>2
<1> QED
  BY <1>1, Invariance, PTL

\* Every expired timeout is handled in the tick it expired in, for every step
\* budget of at least four calls and every size of the queues.
THEOREM ExpiriesHandled == Spec => []ExpiryHandled
<1>1. RInv => ExpiryHandled
  BY DEF RInv, Pending, ExpiryHandled
<1> QED
  BY <1>1, Invariance, PTL

\* The timeouts reach the state machine in the order of height, round and
\* step, each at most once.
THEOREM TimeoutsOrdered == Spec => []TimeoutsInOrder
<1>1. RInv => TimeoutsInOrder
  <2> SUFFICES ASSUME RInv, NEW k \in 1..Len(tock_q)
               PROVE  After((<<tock>> \o tock_q)[k + 1], (<<tock>> \o tock_q)[k])
    BY DEF TimeoutsInOrder
  <2>1. k = 1 /\ tock_q # <<>> /\ Len(tock_q) = 1
    <3>1. Len(tock_q) <= 1
      BY DEF RInv, Pending
    <3>2. Len(tock_q) \in Nat
      BY DEF RInv, Typed
    <3>3. k \in Int /\ 1 <= k /\ k <= Len(tock_q)
      BY <3>2
    <3>4. Len(tock_q) = 1 /\ k = 1
      <4> DEFINE n == Len(tock_q)
      <4>1. n \in Nat /\ n <= 1 /\ k \in Int /\ 1 <= k /\ k <= n
        BY <3>1, <3>2, <3>3
      <4> HIDE DEF n
      <4>2. n = 1 /\ k = 1
        BY <4>1
      <4> QED
        BY <4>2 DEF n
    <3> QED
      BY <3>4
  <2>2. (<<tock>> \o tock_q)[2] = tock_q[1] /\ (<<tock>> \o tock_q)[1] = tock
    BY <2>1 DEF RInv, Typed
  <2> QED
    BY <2>1, <2>2 DEF RInv, Ordered
<1> QED
  BY <1>1, Invariance, PTL

\* The ticker and the host's timer always agree.
THEOREM TimersAgree == Spec => []TimerAgrees
<1>1. RInv => TimerAgrees
  BY DEF RInv
<1> QED
  BY <1>1, Invariance, PTL

=============================================================================
