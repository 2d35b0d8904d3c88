---------------------------- MODULE CmtReceive ----------------------------
(***************************************************************************)
(* The event loop around the consensus state machine of one node: the      *)
(* lane tick of the witness (nodus_witness.c, witness_cmt_tick), the poll  *)
(* of the four event sources (cmt_cs.c, cmt_cs_step), the timeout ticker   *)
(* (cmt_ticker.c) and the host's one-shot timer behind it                  *)
(* (nodus_witness_cmt_host.c).                                             *)
(*                                                                         *)
(* CmtConsensus models what a handler does to the round state.  Here a     *)
(* handler is only what it does to the loop: it may queue messages of the  *)
(* node itself and it may ask for a timeout.  Several requests made by one *)
(* handler act like the newest of them, so one is enough.  A handler that  *)
(* fails stops the node, which is a crash (CmtRecovery).                   *)
(***************************************************************************)
EXTENDS Integers, Sequences

CONSTANTS
  Timeouts,     \* timeouts a handler may ask for, <<height, round, step>>
  QueueSize,    \* CMT_CS_MSG_QUEUE_SIZE, of the peer and the internal queue
  TockSize,     \* CMT_CS_TOCK_QUEUE_SIZE
  StepBudget,   \* WITNESS_CMT_STEP_BUDGET, calls of one drain
  MaxPush       \* own messages one handler may queue

ASSUME TimeoutsAssumption == Timeouts \subseteq (Nat \ {0}) \X Nat \X (Nat \ {0})
ASSUME QueueAssumption == QueueSize \in Nat \ {0} /\ MaxPush \in Nat
ASSUME TockAssumption == TockSize \in Nat \ {0}
ASSUME BudgetAssumption == StepBudget \in Nat /\ StepBudget >= 4

VARIABLES
  phase,         \* where the tick stands
  calls,         \* calls of cmt_cs_step made by the current drain
  wait_sync,     \* block sync still runs, consensus has not started
  txs_available,
  peer_q,        \* number of queued peer messages
  internal_q,    \* number of queued messages of this node
  tock_q,        \* expired timeouts not handled yet
  poll_start,    \* the source the next poll begins at
  ti,            \* the ticker's last accepted timeout
  timer_active,  \* the ticker's flag
  timer_armed,   \* the host's flag
  fault,         \* why the loop stopped, if it did
  waited,        \* history: calls a ready source has been passed over
  served,        \* history: the sources served in this tick
  tock           \* history: the timeout handled last

vars == <<phase, calls, wait_sync, txs_available, peer_q, internal_q, tock_q,
          poll_start, ti, timer_active, timer_armed, fault, waited, served, tock>>

ticker == <<ti, timer_active, timer_armed>>
queues == <<txs_available, peer_q, internal_q, tock_q>>
history == <<waited, served, tock>>

\* The sources of the poll, in the order it lists them.
Sources == 0..3
Txs  == 0
Peer == 1
Own  == 2
Tock == 3

Phases == {"poll", "drain", "reactors", "timer", "drain_timer"}
Faults == {"none", "internal_full", "tock_full", "stale_expiry"}

\* The zero value of the ticker: older than every timeout.
NoTimeout == <<0, 0, 0>>

TypeOK ==
  /\ phase \in Phases
  /\ calls \in 0..StepBudget
  /\ wait_sync \in BOOLEAN
  /\ txs_available \in BOOLEAN
  /\ peer_q \in 0..QueueSize
  /\ internal_q \in 0..QueueSize
  /\ tock_q \in Seq(Timeouts)
  /\ poll_start \in Sources
  /\ ti \in Timeouts \union {NoTimeout}
  /\ timer_active \in BOOLEAN
  /\ timer_armed \in BOOLEAN
  /\ fault \in Faults
  /\ waited \in [Sources -> 0..4]
  /\ served \in SUBSET Sources
  /\ tock \in Timeouts \union {NoTimeout}

-----------------------------------------------------------------------------
(* The ticker.                                                             *)

\* t comes after u: by height, then round, then step.
After(t, u) ==
  \/ t[1] > u[1]
  \/ t[1] = u[1] /\ t[2] > u[2]
  \/ t[1] = u[1] /\ t[2] = u[2] /\ t[3] > u[3]

\* Mutant: a timeout equal to the last one is accepted again.
IgnoresOlderOnly(t) ==
  \/ t[1] < ti[1]
  \/ t[1] = ti[1] /\ t[2] < ti[2]
  \/ t[1] = ti[1] /\ t[2] = ti[2] /\ ti[3] > 0 /\ t[3] < ti[3]

\* The ticker ignores a request for an old height, round or step.
Ignored(t) ==
  \/ t[1] < ti[1]
  \/ t[1] = ti[1] /\ t[2] < ti[2]
  \/ t[1] = ti[1] /\ t[2] = ti[2] /\ ti[3] > 0 /\ t[3] <= ti[3]

\* Mutant: the running timer is cancelled after the new one is armed.
ArmBeforeCancel(t) ==
  IF Ignored(t) THEN UNCHANGED ticker
  ELSE /\ ti' = t
       /\ timer_active' = TRUE
       /\ timer_armed' = ~timer_active

\* schedule_timeout, and the action it returns applied to the host's timer:
\* cancel the running timer, then arm it for the new timeout.
Schedule(t) ==
  IF Ignored(t) THEN UNCHANGED ticker
  ELSE /\ ti' = t
       /\ timer_active' = TRUE
       /\ timer_armed' = TRUE

-----------------------------------------------------------------------------
(* The poll.                                                               *)

Ready(s) ==
  CASE s = Txs  -> txs_available
    [] s = Peer -> peer_q > 0
    [] s = Own  -> internal_q > 0
    [] s = Tock -> tock_q # <<>>

\* Mutant: the node's own queue does not count as work.
OwnIsNoWork == \E s \in Sources \ {Own} : Ready(s)

HasWork == \E s \in Sources : Ready(s)

\* How far the walk goes before it visits s.
Distance(s) == (s - poll_start) % 4

\* The first ready source of the walk.
Picked(s) ==
  /\ Ready(s)
  /\ \A r \in Sources : Ready(r) => Distance(s) <= Distance(r)

\* History: a ready source that was not served waited one call more (counted
\* up to 4, one more than the property allows).
PassedOver(r) ==
  IF ~Ready(r) THEN 0 ELSE IF waited[r] < 4 THEN waited[r] + 1 ELSE 4

\* What handling an event of source s does to the queues and the ticker.  A
\* commit updates the mempool, which may announce transactions again.
Handled(s) ==
  \E n \in 0..MaxPush :
    LET own == (IF s = Own THEN internal_q - 1 ELSE internal_q) + n
    IN  /\ txs_available' \in {txs_available /\ s # Txs, TRUE}
        /\ peer_q' = (IF s = Peer THEN peer_q - 1 ELSE peer_q)
        /\ tock_q' = (IF s = Tock THEN Tail(tock_q) ELSE tock_q)
        /\ tock' = (IF s = Tock THEN Head(tock_q) ELSE tock)
        /\ internal_q' = (IF own > QueueSize THEN QueueSize ELSE own)
        /\ fault' = (IF own > QueueSize THEN "internal_full" ELSE fault)
        /\ \/ UNCHANGED ticker
           \/ \E t \in Timeouts : Schedule(t)

Draining == (phase = "drain" /\ ~wait_sync) \/ phase = "drain_timer"

\* Mutant: the walk does not move past the source it served.
StepWithoutRotation ==
  /\ fault = "none"
  /\ Draining
  /\ calls < StepBudget
  /\ \E s \in Sources :
       /\ Picked(s)
       /\ Handled(s)
       /\ poll_start' = s
       /\ waited' = [r \in Sources |-> IF r = s THEN 0 ELSE PassedOver(r)]
       /\ served' = served \union {s}
  /\ calls' = calls + 1
  /\ UNCHANGED <<phase, wait_sync>>

\* One call of cmt_cs_step by a drain: serve the first ready source and move
\* the start of the walk past it.
Step ==
  /\ fault = "none"
  /\ Draining
  /\ calls < StepBudget
  /\ \E s \in Sources :
       /\ Picked(s)
       /\ Handled(s)
       /\ poll_start' = (s + 1) % 4
       /\ waited' = [r \in Sources |-> IF r = s THEN 0 ELSE PassedOver(r)]
       /\ served' = served \union {s}
  /\ calls' = calls + 1
  /\ UNCHANGED <<phase, wait_sync>>

-----------------------------------------------------------------------------
(* The tick.                                                               *)

\* The network delivers a peer's message.  The transport reads one only while
\* the peer queue has room, and the reactor drops it while block sync runs.
Receive ==
  /\ fault = "none"
  /\ phase = "poll"
  /\ ~wait_sync
  /\ peer_q < QueueSize
  /\ peer_q' = peer_q + 1
  /\ UNCHANGED <<phase, calls, wait_sync, txs_available, internal_q, tock_q,
                 poll_start, ticker, fault, history>>

\* The mempool holds a transaction.
NotifyTxsAvailable ==
  /\ fault = "none"
  /\ phase = "poll"
  /\ ~txs_available
  /\ txs_available' = TRUE
  /\ UNCHANGED <<phase, calls, wait_sync, peer_q, internal_q, tock_q,
                 poll_start, ticker, fault, history>>

\* The tick begins with a drain of the state machine.
BeginTick ==
  /\ fault = "none"
  /\ phase = "poll"
  /\ phase' = "drain"
  /\ calls' = 0
  /\ served' = {}
  /\ UNCHANGED <<wait_sync, queues, poll_start, ticker, fault, waited, tock>>

\* Mutant: a drain may end after a single call.
DrainOverAtOnce == calls >= 1 \/ ~HasWork

DrainOver == calls = StepBudget \/ ~HasWork

\* A drain ends when there is nothing to do or its budget is spent.
EndDrain ==
  /\ fault = "none"
  /\ \/ Draining /\ DrainOver
     \/ phase = "drain" /\ wait_sync
  /\ phase' = (IF phase = "drain" THEN "reactors" ELSE "poll")
  /\ UNCHANGED <<calls, wait_sync, queues, poll_start, ticker, fault, history>>

\* The reactors' own ticks.  The block sync reactor may switch to consensus,
\* whose start asks for the timeout of the first round.
TickReactors ==
  /\ fault = "none"
  /\ phase = "reactors"
  /\ phase' = "timer"
  /\ \/ UNCHANGED <<wait_sync, ticker>>
     \/ /\ wait_sync
        /\ wait_sync' = FALSE
        /\ \E t \in Timeouts : Schedule(t)
  /\ UNCHANGED <<calls, queues, poll_start, fault, history>>

\* The host's timer is not due, or block sync runs.
TimerNotDue ==
  /\ fault = "none"
  /\ phase = "timer"
  /\ phase' = "poll"
  /\ UNCHANGED <<calls, wait_sync, queues, poll_start, ticker, fault, history>>

\* The host's timer is due: the ticker fires, the timeout is queued, and the
\* state machine is drained a second time.
TimerExpired ==
  /\ fault = "none"
  /\ phase = "timer"
  /\ ~wait_sync
  /\ timer_armed
  /\ LET refused == IF Len(tock_q) >= TockSize THEN "tock_full"
                    ELSE IF ~timer_active THEN "stale_expiry"
                    ELSE "none"
         fires == refused = "none"
     IN  /\ fault' = refused
         /\ timer_active' = (timer_active /\ ~fires)
         /\ tock_q' = (IF fires THEN Append(tock_q, ti) ELSE tock_q)
         /\ phase' = (IF fires THEN "drain_timer" ELSE phase)
         /\ calls' = (IF fires THEN 0 ELSE calls)
  /\ timer_armed' = FALSE
  /\ UNCHANGED <<wait_sync, txs_available, peer_q, internal_q, poll_start, ti,
                 history>>

Init ==
  /\ phase = "poll"
  /\ calls = 0
  /\ wait_sync \in BOOLEAN
  /\ txs_available = FALSE
  /\ peer_q = 0
  /\ internal_q = 0
  /\ tock_q = <<>>
  /\ poll_start = Txs
  /\ ti \in (IF wait_sync THEN {NoTimeout} ELSE Timeouts)
  /\ timer_active = ~wait_sync
  /\ timer_armed = ~wait_sync
  /\ fault = "none"
  /\ waited = [s \in Sources |-> 0]
  /\ served = {}
  /\ tock = NoTimeout

\* What the loop itself does, as opposed to what the world does to it.
Loop == BeginTick \/ Step \/ EndDrain \/ TickReactors \/ TimerNotDue \/ TimerExpired

Next == Receive \/ NotifyTxsAvailable \/ Loop

Spec == Init /\ [][Next]_vars

\* The host calls the tick for as long as the node runs, whatever arrives.
FairSpec == Spec /\ WF_vars(Loop)

-----------------------------------------------------------------------------
(* Properties.                                                             *)

\* The claim of cmt_cs_step: a source that is ready on every call is served
\* at least once in any four consecutive working calls, so neither a flood of
\* peer messages nor one of own messages holds back the others.
ServedWithinFour == \A s \in Sources : waited[s] <= 3

\* A timeout that expired is handled before its tick ends, however full the
\* other queues are: the drain after the timer reaches it.  So the queue of
\* expired timeouts never overflows, which would stop the node.
ExpiryHandled == phase # "drain_timer" => tock_q = <<>>

\* Timeouts reach the state machine in the order of height, round and step,
\* and none of them twice.
TimeoutsInOrder ==
  LET all == <<tock>> \o tock_q
  IN  \A k \in 1..Len(tock_q) : After(all[k + 1], all[k])

\* The ticker and the host agree on whether a timer runs: an accepted timeout
\* is not lost by the cancellation of the one before it, and the host never
\* delivers an expiry the ticker does not expect.
TimerAgrees == timer_armed = timer_active

\* A queued message of this node is handled, whatever the peers send.
OwnServed == internal_q > 0 ~> (Own \in served \/ fault # "none")

=============================================================================
