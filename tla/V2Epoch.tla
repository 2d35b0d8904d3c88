------------------------------ MODULE V2Epoch ------------------------------
(***************************************************************************)
(* The stake ledger of the Nodus Chain at key generation 4: the STAKE,     *)
(* UNSTAKE, DELEGATE, UNDELEGATE and VALIDATOR_UPDATE handlers of          *)
(* nodus_witness_rt_native.c and the whole epoch boundary of               *)
(* nodus_witness_v2_epoch.c with the distribution                          *)
(* (nodus_witness_v2_econ.c), the validator-set snapshots                  *)
(* (nodus_witness_vset.c), the committee selection                         *)
(* (nodus_witness_committee.c) and the power cap (power_cap.c).            *)
(*                                                                         *)
(* TIME.  One unit is one epoch of DNAC_EPOCH_LENGTH blocks.  `epoch' is   *)
(* the number N of the NEXT boundary: the transactions that run now are in *)
(* blocks ((N-1)E, NE].  Every rule of the code reads a height only        *)
(* through its epoch: nb(h) = N, the tenure test active_since + 2E <= eE   *)
(* is N + 2 <= e, a pending commission h + 2E is due at boundary N + 2,    *)
(* and a coin with unlock height U*E is spent by no block up to U*E (the   *)
(* gates refuse unlock >= height), that is while N <= U.                   *)
(*                                                                         *)
(* The ledger is one record, as the database is one transaction: a         *)
(* boundary is the composition of its steps and either all of it is        *)
(* committed or, on a fault, none and the node stops.                      *)
(***************************************************************************)
EXTENDS Integers, Bags, FiniteSets, FiniteSetsExt, Functions

CONSTANTS
    Vals,            \* validator ids, ordered like the 64-byte ids
    Delegators,      \* accounts that delegate
    Geneses,         \* the genesis documents: [seats, target]
    Bond,            \* the bond of a genesis row and of a STAKE (>= STAKE_MIN)
    Purse,           \* liquid coins of every account at genesis
    Fee,             \* the fee of a transaction
    Amounts,         \* amounts a DELEGATE or an UNDELEGATE names
    Rates,           \* commission rates, in basis points
    Pool,            \* reward_pool at genesis
    Seeds,           \* tie-break orders a state_seed can produce
    Flaky,           \* validators that may miss the attendance bar
    Movers,          \* validators that are staked, left or delegated to
    MaxValidators,   \* DNAC_MAX_VALIDATORS
    MinDelegation,   \* DNAC_MIN_DELEGATION
    MaxDelegators,   \* NODUS_MAX_DELEGATORS_PER_VALIDATOR
    AutoRetire,      \* DNAC_AUTO_RETIRE_EPOCHS
    UnbondEpochs,    \* DNAC_VALIDATOR_UNBOND_EPOCHS
    LockEpochs,      \* DNAC_UNDELEGATE_LOCK_EPOCHS
    RewardDivisor,   \* 2 ^ NODUS_V2_GEN_REWARD_DIVISOR_LOG2
    PayoutInterval,  \* the payday interval, in epochs
    CapBps,          \* POWER_CAP_BPS
    MaxEpoch,        \* bound: boundaries explored
    MaxTx            \* bound: transactions explored

ASSUME EpochAssumption ==
    /\ Vals \subseteq Nat /\ Movers \subseteq Vals /\ Delegators \cap Vals = {}
    /\ \A g \in Geneses : g.seats \subseteq Vals /\ g.target \in Nat \ {0}
    /\ {Bond, RewardDivisor, PayoutInterval, AutoRetire, MaxValidators}
           \subseteq Nat \ {0}
    /\ {Purse, Fee, Pool, UnbondEpochs, LockEpochs, MinDelegation,
        MaxDelegators, MaxEpoch, MaxTx} \subseteq Nat
    /\ CapBps \in 500 .. 3000

VARIABLES
    ledger,      \* the committed tables, see Genesis
    epoch,       \* the next boundary
    announced,   \* history: the commission made public at past boundaries
    txs          \* transactions so far

vars == <<ledger, epoch, announced, txs>>

\* An owner is named by the id of its validator.
Accounts == Vals \cup Delegators

Bonded  == {"ACTIVE", "ELIGIBLE"}
Exiting == {"RETIRING", "AUTO_RETIRED"}

Sum(f) == FoldFunction(+, 0, f)

(***************************************************************************)
(* The power cap                                                           *)
(***************************************************************************)

\* dna_power_cap_counted: the powers are walked from the largest; `tail' are
\* the entries not capped yet, and the walk stops at the first one whose
\* largest power is within the cap.  0 stands for the guards' refusal.
PowerCap(p) ==
    LET n     == Cardinality(DOMAIN p)
        ratio == Max({CapBps, (10000 + n - 1) \div n})
        cap[tail \in SUBSET DOMAIN p] ==
            LET k == n - Cardinality(tail)
                c == (ratio * Sum(Restrict(p, tail)))
                         \div (10000 - ratio * k)
                m == CHOOSE x \in tail : \A y \in tail :
                         p[y] < p[x] \/ (p[y] = p[x] /\ x <= y)
            IN  IF tail = {} \/ ratio * k >= 10000 THEN 0
                ELSE IF p[m] <= c THEN c ELSE cap[tail \ {m}]
    IN  IF \E m \in DOMAIN p : p[m] = 0 THEN 0 ELSE cap[DOMAIN p]

\* nodus_witness_vset_powers of a ruleset-2 snapshot; a cap of zero is a
\* power that cannot be computed.
Powers(snap) ==
    LET p   == [v \in DOMAIN snap |-> snap[v].total]
        cap == PowerCap(p)
    IN  [v \in DOMAIN snap |-> Min({p[v], cap})]

(***************************************************************************)
(* Snapshots and balance copies                                            *)
(***************************************************************************)

\* copy_collect_g4: the bond row and the delegation rows of every validator.
CopyOf(l) == [v \in Vals |-> [bond |-> l.row[v].self, del |-> l.deleg[v]]]

\* nodus_witness_v2_balance_copy_frozen_key.
FrozenTotal(copy, v) == copy[v].bond + Sum(copy[v].del)

\* nodus_validator_v2_bonded_tenured at e_start: status and tenure are live;
\* since 0 stands for active_since_block <= 1, the genesis carve-out.
BondedTenured(l, e) ==
    {v \in Vals : /\ l.row[v].status \in Bonded
                  /\ l.row[v].since + 2 <= e \/ l.row[v].since = 0}

\* nodus_committee_compute_for_epoch: live status and tenure, the balances of
\* copy(e - 2), a frozen total of zero is not seated, total DESC then the
\* seeded tie-break, cut at the epoch's target.
Committee(l, e, seed) ==
    LET copy   == l.copies[e - 2]
        total  == [v \in BondedTenured(l, e) |-> FrozenTotal(copy, v)]
        cand   == {v \in DOMAIN total : total[v] # 0}
        Before(u, v) == \/ total[u] > total[v]
                        \/ total[u] = total[v] /\ seed[u] < seed[v]
        seated == {v \in cand :
                     Cardinality({u \in cand : Before(u, v)}) < l.target}
    IN  [v \in seated |-> [self  |-> copy[v].bond,
                           total |-> total[v],
                           comm  |-> l.row[v].comm]]

(***************************************************************************)
(* Coins                                                                   *)
(***************************************************************************)

\* A coin born locked: of whom, released from which validator, until when.
\* `locked' is the bag of the units of such coins.
Coin(a, v, unlock) == [owner |-> a, from |-> v, unlock |-> unlock]

Coins(a, v, unlock, x) == [c \in {Coin(a, v, unlock)} |-> x]

\* The coins whose unlock height no longer stops a spend in the epoch that
\* ends at boundary n: the gates no longer tell them from unlocked ones.
Mature(l, n) ==
    LET ripe == {c \in DOMAIN l.locked : c.unlock < n}
    IN  [l EXCEPT
           !.liquid = [a \in Accounts |-> @[a] +
               Sum(Restrict(l.locked, {c \in ripe : c.owner = a}))],
           !.locked = Restrict(@, DOMAIN @ \ ripe)]

\* rtn_sysfund_exec: inputs = change + fee + lock, the fee to the pool.
CanFund(l, a, lock) == l.liquid[a] >= Fee + lock

Fund(l, a, lock) == [l EXCEPT !.liquid[a] = @ - Fee - lock, !.pool = @ + Fee]

\* Faulty variant: one epoch too early.
PowerExitBoundaryEarly(n) == n + 1

\* nodus_v2_power_exit_boundary of a change in the epoch ending at n.
PowerExitBoundary(n) == n + 2

(***************************************************************************)
(* Transactions                                                            *)
(***************************************************************************)

Tx(l) ==
    /\ ledger.fault = "none"
    /\ epoch <= MaxEpoch /\ txs < MaxTx
    /\ ledger' = l
    /\ txs' = txs + 1
    /\ UNCHANGED <<epoch, announced>>

\* rtn_stake2_exec: a fresh id, Rule M on the count, a row that is ACTIVE at
\* once.  In the first epoch the block may be block 1 (since 0).
Stake(v, rate, since) ==
    /\ ledger.row[v].status = "NONE"
    /\ ledger.count + 1 <= MaxValidators
    /\ CanFund(ledger, v, Bond)
    /\ since = 0 => epoch = 1
    /\ Tx([Fund(ledger, v, Bond) EXCEPT
             !.count = @ + 1,
             !.row[v] = [@ EXCEPT !.status = "ACTIVE", !.self = Bond,
                                  !.comm = rate, !.since = since]])

\* rtn_unstake2_exec: BONDED -> RETIRING, and nothing else.
Unstake(v) ==
    /\ ledger.row[v].status \in Bonded
    /\ CanFund(ledger, v, 0)
    /\ Tx([Fund(ledger, v, 0) EXCEPT !.row[v].status = "RETIRING"])

\* rtn_delegate2_exec: to a bonded validator, a new row of at least the
\* minimum and within the validator's room.
Delegate(d, v, x) ==
    LET have == ledger.deleg[v][d]
    IN  /\ ledger.row[v].status \in Bonded
        /\ have = 0 =>
             /\ x >= MinDelegation
             /\ Cardinality({a \in Delegators : ledger.deleg[v][a] # 0})
                    < MaxDelegators
        /\ CanFund(ledger, d, x)
        /\ Tx([Fund(ledger, d, x) EXCEPT !.deleg[v][d] = @ + x,
                                         !.row[v].total = @ + x])

\* rtn_sysfund_release_coin: locked past the power exit boundary.
ReleaseCoin(d, v, x) == Coins(d, v, PowerExitBoundary(epoch) + LockEpochs, x)

\* rtn_undelegate2_exec with the release coin of its CORE leg: from a
\* validator of any status, leaving nothing or the minimum.
Undelegate(d, v, x) ==
    LET have == ledger.deleg[v][d]
    IN  /\ x <= have
        /\ have - x # 0 => have - x >= MinDelegation
        /\ x <= ledger.row[v].total
        /\ CanFund(ledger, d, 0)
        /\ Tx([Fund(ledger, d, 0) EXCEPT
                 !.deleg[v][d] = @ - x, !.row[v].total = @ - x,
                 !.locked = @ (+) ReleaseCoin(d, v, x)])

\* Faulty variant: an increase waits for one epoch.
UpdateShortNotice(v, rate) ==
    /\ ledger.row[v].status \in Bonded \cup {"RETIRING"}
    /\ CanFund(ledger, v, 0)
    /\ Tx([Fund(ledger, v, 0) EXCEPT !.row[v] =
             IF rate > @.comm
             THEN [@ EXCEPT !.pend = rate, !.peff = epoch + 1]
             ELSE [@ EXCEPT !.comm = rate, !.pend = 0, !.peff = 0]])

\* rtn_vupd2_exec: an increase waits for two epochs, a decrease is immediate
\* and drops what waits.
ValidatorUpdate(v, rate) ==
    /\ ledger.row[v].status \in Bonded \cup {"RETIRING"}
    /\ CanFund(ledger, v, 0)
    /\ Tx([Fund(ledger, v, 0) EXCEPT !.row[v] =
             IF rate > @.comm
             THEN [@ EXCEPT !.pend = rate, !.peff = epoch + 2]
             ELSE [@ EXCEPT !.comm = rate, !.pend = 0, !.peff = 0]])

(***************************************************************************)
(* The epoch boundary, step by step                                        *)
(***************************************************************************)

\* A step after a fault does not run.
Faulted(l) == l.fault # "none"

\* Step 1, v2ep_activate_commissions.
ActivateCommissions(l, h) ==
    LET due(r) == r.peff # 0 /\ r.peff <= h /\ r.pend # 0
    IN  [l EXCEPT !.row = [v \in Vals |->
           IF due(@[v]) THEN [@[v] EXCEPT !.comm = l.row[v].pend,
                                          !.pend = 0, !.peff = 0]
           ELSE @[v]]]

\* Faulty variant: the copy taken one boundary later.
SourceCopyOneLate(h) == IF h >= 2 THEN h - 2 ELSE 0

\* v2ec_source_copy: the copy the snapshot that governed the epoch was
\* built from.
SourceCopy(h) == IF h >= 3 THEN h - 3 ELSE 0

\* v2ec_pay_member of a member that met the bar: what its owner and what each
\* delegator is credited.
PayMember(entry, copied, share) ==
    LET base  == (share * entry.self) \div entry.total
        gross == share - base
        comm  == (gross * entry.comm) \div 10000
        sumD  == Sum(copied.del)
    IN  [owner |-> base + comm,
         del   |-> [d \in Delegators |->
                      IF sumD = 0 THEN 0
                      ELSE ((gross - comm) * copied.del[d]) \div sumD]]

\* v2ec_member_load: the entry of the set agrees with the copy it was built
\* from, or the node faults.
MemberLoads(entry, copy, v) ==
    /\ entry.self = copy[v].bond
    /\ entry.total = FrozenTotal(copy, v)

\* Step 1b, nodus_witness_v2_settlement_apply.  A member that missed the bar
\* leaves its share in the pool.
Settlement(l, h, absent) ==
    LET payout == l.pool \div RewardDivisor
        src    == SourceCopy(h)
        member == DOMAIN l.cur
        gate   == /\ src \in DOMAIN l.copies
                  /\ \A v \in member : MemberLoads(l.cur[v], l.copies[src], v)
        power  == Powers(l.cur)
        all    == Sum(power)
        pay    == [v \in member \ absent |->
                     PayMember(l.cur[v], l.copies[src][v],
                               (payout * power[v]) \div all)]
        owed   == [a \in Accounts |->
                     IF a \in Delegators
                     THEN Sum([v \in DOMAIN pay |-> pay[v].del[a]])
                     ELSE IF a \in DOMAIN pay THEN pay[a].owner ELSE 0]
    IN  IF Faulted(l) \/ payout = 0 THEN l
        ELSE IF all = 0 THEN [l EXCEPT !.fault = "powers"]
        ELSE IF ~gate THEN [l EXCEPT !.fault = "copy"]
        ELSE [l EXCEPT !.accrual = [a \in Accounts |-> @[a] + owed[a]],
                       !.pool = @ - Sum(owed)]

\* Faulty variant: the accrual rows stay when they are paid.
PaydayKeepsAccruals(l, h) ==
    IF Faulted(l) \/ h % PayoutInterval # 0 THEN l
    ELSE [l EXCEPT !.liquid = [a \in Accounts |-> @[a] + l.accrual[a]]]

\* Step 1c, nodus_witness_v2_payday_apply: every accrual row becomes an
\* unlocked coin.
Payday(l, h) ==
    IF Faulted(l) \/ h % PayoutInterval # 0 THEN l
    ELSE [l EXCEPT !.liquid = [a \in Accounts |-> @[a] + l.accrual[a]],
                   !.accrual = [a \in Accounts |-> 0]]

\* v2ep_active_count_dec for a graduate: only a RETIRING row still counts
\* (Rule N already lowered the count for an AUTO_RETIRED one).
CountAfter(l, v) ==
    IF l.row[v].status = "RETIRING" THEN l.count - 1 ELSE l.count

\* v2ep_release_delegations: a locked coin to every delegator.
ReleaseDelegations(l, v, h) ==
    [c \in {Coin(d, v, h + LockEpochs) :
              d \in {a \in Delegators : l.deleg[v][a] # 0}} |->
        l.deleg[v][c.owner]]

\* v2ep_graduate for one candidate: the bond to its owner, every delegation
\* to its delegator, the row emptied.
GraduateOne(l, v, h) ==
    LET given == ReleaseDelegations(l, v, h)
    IN  IF Faulted(l) THEN l
        ELSE IF Sum(given) # l.row[v].total THEN [l EXCEPT !.fault = "totals"]
        ELSE IF CountAfter(l, v) < 0 THEN [l EXCEPT !.fault = "count"]
        ELSE [l EXCEPT
                !.locked = @ (+) Coins(v, v, h + UnbondEpochs, l.row[v].self)
                             (+) given,
                !.deleg[v] = [d \in Delegators |-> 0],
                !.row[v] = [@ EXCEPT !.status = "UNSTAKED", !.self = 0,
                                     !.total = 0],
                !.count = CountAfter(l, v)]

\* Step 2, v2ep_graduate: every exiting row that is not an entry of the
\* snapshot taking effect at h.
Graduates(l) ==
    {v \in Vals : l.row[v].status \in Exiting /\ v \notin DOMAIN l.nxt}

Graduate(l, h) ==
    LET after[S \in SUBSET Vals] ==
            IF S = {} THEN l
            ELSE LET v == Max(S) IN GraduateOne(after[S \ {v}], v, h)
    IN  IF Faulted(l) THEN l
        ELSE IF Cardinality({v \in Vals : l.row[v].status \in Exiting})
                  > 2 * MaxValidators
        THEN [l EXCEPT !.fault = "candidates"]
        ELSE after[Graduates(l)]

\* v2ep_rn_weight_verdict: the set still commits without its largest member.
Survives(power) ==
    LET P == Sum(power)
    IN  P > 0 /\ P - Max(Range(power)) > (2 * P) \div 3

\* Faulty variant: any set that is not empty will do.
RetirementStandsNonEmpty(tried, h, seed) ==
    DOMAIN Committee(tried, h + 1, seed) # {}

\* The verdict of Rule N on the set that boundary h will store, with the rows
\* of `tried' provisionally retired: nodus_witness_vset_preview_next, then the
\* weight floor; an empty set is refused.
RetirementStands(tried, h, seed) ==
    LET next == Committee(tried, h + 1, seed)
    IN  DOMAIN next # {} /\ Survives(Powers(next))

\* The counting half of v2ep_rule_n.  A member with a duty is ACTIVE and an
\* entry of the snapshot that governed the epoch; everyone else starts again
\* from zero.
CountMissed(l, absent) ==
    LET duty == {v \in DOMAIN l.cur : l.row[v].status = "ACTIVE"}
    IN  [l EXCEPT !.row = [v \in Vals |->
            IF @[v].status \notin Bonded THEN @[v]
            ELSE [@[v] EXCEPT !.missed =
                    IF v \in duty \cap absent THEN @ + 1 ELSE 0]]]

\* Step 3, v2ep_rule_n: all who reached the limit are retired together or not
\* at all.
RuleN(l, h, absent, seed) ==
    LET counted == CountMissed(l, absent)
        due     == {v \in Vals : /\ counted.row[v].status = "ACTIVE"
                                 /\ counted.row[v].missed >= AutoRetire}
        tried   == [counted EXCEPT !.row = [v \in Vals |->
            IF v \in due THEN [@[v] EXCEPT !.status = "AUTO_RETIRED"]
            ELSE @[v]]]
    IN  IF Faulted(l) THEN l
        ELSE IF Cardinality({v \in Vals : l.row[v].status \in Bonded})
                  > MaxValidators
        THEN [l EXCEPT !.fault = "bonded"]
        ELSE IF due = {} \/ ~RetirementStands(tried, h, seed) THEN counted
        ELSE IF l.count < Cardinality(due) THEN [l EXCEPT !.fault = "count"]
        ELSE [tried EXCEPT !.count = @ - Cardinality(due)]

\* Step 4, nodus_witness_vset_apply_boundary_flips: the snapshot taking
\* effect decides who is ACTIVE.
Flips(l) ==
    IF Faulted(l) THEN l
    ELSE [l EXCEPT !.row = [v \in Vals |->
             IF @[v].status \in Bonded
             THEN [@[v] EXCEPT !.status =
                     IF v \in DOMAIN l.nxt THEN "ACTIVE" ELSE "ELIGIBLE"]
             ELSE @[v]]]

\* Step 5, nodus_witness_vset_commit_next; an empty committee is refused.
CommitNext(l, h, seed) ==
    LET next == Committee(l, h + 1, seed)
    IN  IF Faulted(l) THEN l
        ELSE IF DOMAIN next = {} THEN [l EXCEPT !.fault = "empty"]
        ELSE [l EXCEPT !.cur = l.nxt, !.nxt = next]

\* Step 6, nodus_witness_v2_balance_copy_write: copy(h), the copies before
\* h - 2 deleted.
BalanceCopy(l, h) ==
    IF Faulted(l) THEN l
    ELSE [l EXCEPT !.copies = [b \in {c \in DOMAIN @ : c >= h - 2} \cup {h} |->
                                 IF b = h THEN CopyOf(l) ELSE @[b]]]

\* The transaction of the boundary: all of it, or nothing and the fault.
AllOrFault(l, done) ==
    IF Faulted(done) THEN [l EXCEPT !.fault = done.fault] ELSE done

\* nodus_witness_v2_epoch_boundary_apply at boundary h.  `absent' are the members that miss nodus_witness_v2_attendance_-
\* meets_bar for the epoch that ends.
BoundaryApply(l, h, absent, seed) ==
    LET paid == Payday(Settlement(ActivateCommissions(l, h), h, absent), h)
        left == RuleN(Graduate(paid, h), h, absent, seed)
    IN  AllOrFault(l, BalanceCopy(CommitNext(Flips(left), h, seed), h))

(***************************************************************************)
(* The system                                                              *)
(***************************************************************************)

Row(seated) == [status |-> IF seated THEN "ACTIVE" ELSE "NONE",
                self   |-> IF seated THEN Bond ELSE 0,
                total  |-> 0, missed |-> 0, since |-> 0,
                comm   |-> 0, pend |-> 0, peff |-> 0]

\* nodus_witness_vset_commit_genesis and copy(0): the snapshots of epochs 0
\* and 1 and the first copy, all from the genesis rows.
Genesis(g) ==
    LET set == [v \in g.seats |-> [self |-> Bond, total |-> Bond, comm |-> 0]]
    IN  [row     |-> [v \in Vals |-> Row(v \in g.seats)],
         deleg   |-> [v \in Vals |-> [d \in Delegators |-> 0]],
         cur     |-> set,      \* snapshot(epoch - 1), in effect
         nxt     |-> set,      \* snapshot(epoch), stored
         copies  |-> [b \in {0} |-> [v \in Vals |->
                        [bond |-> IF v \in g.seats THEN Bond ELSE 0,
                         del  |-> [d \in Delegators |-> 0]]]],
         pool    |-> Pool,
         accrual |-> [a \in Accounts |-> 0],
         liquid  |-> [a \in Accounts |-> Purse],
         locked  |-> EmptyBag,
         count   |-> Cardinality(g.seats),
         target  |-> g.target,
         supply  |-> Pool + Purse * Cardinality(Accounts)
                       + Bond * Cardinality(g.seats),
         fault   |-> "none"]

\* What the row of v tells a delegator its commission can become; a validator
\* without a row has no delegator to tell.
Public(l, v) == IF l.row[v].status = "NONE" THEN 10000
                ELSE Max({l.row[v].comm, l.row[v].pend})

Init ==
    /\ \E g \in Geneses : ledger = Genesis(g)
    /\ epoch = 1
    /\ announced = [v \in Vals |-> [k \in 1 .. 3 |-> Public(ledger, v)]]
    /\ txs = 0

\* The block of the boundary: attendance is whatever it is.
Boundary ==
    /\ ledger.fault = "none"
    /\ epoch <= MaxEpoch
    /\ \E absent \in SUBSET (Flaky \cap DOMAIN ledger.cur), seed \in Seeds :
         \E l \in {BoundaryApply(ledger, epoch, absent, seed)} :
           /\ ledger' = IF Faulted(l) THEN l ELSE Mature(l, epoch + 1)
           /\ epoch' = IF Faulted(l) THEN epoch ELSE epoch + 1
           /\ announced' = [v \in Vals |-> <<announced[v][2],
                              announced[v][3], Public(l, v)>>]
    /\ UNCHANGED txs

Next ==
    \/ \E v \in Movers, rate \in Rates, since \in {0, epoch} :
         Stake(v, rate, since)
    \/ \E v \in Movers : Unstake(v)
    \/ \E v \in Movers, d \in Delegators, x \in Amounts :
         Delegate(d, v, x) \/ Undelegate(d, v, x)
    \/ \E v \in Movers, rate \in Rates : ValidatorUpdate(v, rate)
    \/ Boundary

Spec == Init /\ [][Next]_vars

(***************************************************************************)
(* Properties                                                              *)
(***************************************************************************)

\* The tables hold what their columns allow: the amounts are not negative and
\* the copies are the ones retention keeps.
TypeOK ==
    /\ epoch \in 1 .. MaxEpoch + 1 /\ txs \in 0 .. MaxTx
    /\ \A v \in Vals :
         /\ ledger.row[v].status \in
              {"NONE", "UNSTAKED"} \cup Bonded \cup Exiting
         /\ {ledger.row[v].self, ledger.row[v].total} \subseteq Nat
         /\ ledger.row[v].missed \in 0 .. MaxEpoch
         /\ \A d \in Delegators : ledger.deleg[v][d] \in Nat
    /\ Range(ledger.liquid) \cup Range(ledger.accrual)
          \cup Range(ledger.locked) \cup {ledger.pool} \subseteq Nat
    /\ DOMAIN ledger.copies = {b \in 0 .. epoch - 1 : b >= epoch - 3}

\* The conservation equation of nodus_rt_core_invariant closes after every
\* transaction and every boundary, without its gate: coins, bonds,
\* delegations, the reward pool and the accruals add up to the genesis
\* supply, and a row's total_delegated is the sum of its delegation rows.
\* No amount goes below zero and the tables keep their types.  And
\* validator_stats.active_count, which Rule M bounds STAKE by, counts the
\* bonded and the retiring rows, through every exit and auto-retirement.
BooksBalance ==
    /\ TypeOK
    /\ Sum(ledger.liquid) + Sum(ledger.locked) + ledger.pool
         + Sum(ledger.accrual)
         + Sum([v \in Vals |-> ledger.row[v].self + ledger.row[v].total])
       = ledger.supply
    /\ \A v \in Vals : ledger.row[v].total = Sum(ledger.deleg[v])
    /\ ledger.count = Cardinality({v \in Vals :
           ledger.row[v].status \in Bonded \cup {"RETIRING"}})
    /\ ledger.count <= MaxValidators

\* "The coupled triple" (nodus_witness_v2_epoch.h): whatever order stake moves
\* in, the power of every member of the set in effect is backed.  Its bond is
\* still in its row, and each delegation counted in its power is still
\* delegated or held in a coin that cannot be spent yet.
PowerBacked ==
    LET copy == ledger.copies[Max({epoch - 3, 0})]
        Held(d, v) == Sum(Restrict(ledger.locked,
            {c \in DOMAIN ledger.locked : c.owner = d /\ c.from = v}))
    IN  ledger.fault = "none" =>
          \A v \in DOMAIN ledger.cur :
            /\ ledger.row[v].self >= ledger.cur[v].self
            /\ ledger.cur[v].total = FrozenTotal(copy, v)
            /\ \A d \in Delegators :
                 copy[v].del[d] <= ledger.deleg[v][d] + Held(d, v)

\* A boundary has no verdict class: a fault stops every node at once.  No
\* order of stake operations makes one fault, except that nobody is left to
\* seat: no bonded, tenured row with stake in the copy the set is ranked by.
OnlyEmptyHalts ==
    ledger.fault # "none" =>
        /\ ledger.fault = "empty"
        /\ \A v \in BondedTenured(ledger, epoch + 1) :
             FrozenTotal(ledger.copies[epoch - 1], v) = 0

\* rtn_vupd2_exec's two-epoch notice: the commission a stored set charges was
\* public one full epoch before the copy of the delegations it is charged on,
\* so a delegator that leaves on the announcement never pays the increase.
CommissionNotice ==
    \A v \in DOMAIN ledger.nxt : ledger.nxt[v].comm <= announced[v][1]

\* Rule N's floor is judged on a preview; the set that is stored three steps
\* later is the one that must survive.  Whenever a boundary auto-retires
\* someone, the stored next set commits without its largest member.
RuleNSurvivable ==
    [][(\E v \in Vals : /\ ledger.row[v].status \in Bonded
                        /\ ledger'.row[v].status = "AUTO_RETIRED")
       => Survives(Powers(ledger'.nxt))]_vars

=============================================================================
