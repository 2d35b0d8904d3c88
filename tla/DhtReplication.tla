--------------------------- MODULE DhtReplication ---------------------------
(***************************************************************************)
(* Replication of DHT values between nodes: the PUT handler and the timers *)
(* of dht/nodus_dht_server.c, the cluster heartbeat of                     *)
(* consensus/nodus_cluster.c that feeds the routing table the replicas are *)
(* chosen from, and the connections in between, which fail.                *)
(*                                                                         *)
(* A datagram arrives within the 30 s of NODUS_CLUSTER_SUSPECT_SEC or not  *)
(* at all, so a PING and its PONG are one step.  The table holds at most R *)
(* peers (the "routing table IS the network" path) and no bucket is full.  *)
(***************************************************************************)
EXTENDS DhtStore, FiniteSets

CONSTANTS Nodes,        \* the servers, numbers
          Worlds,       \* <<who lists whom as a seed, what clients write>>, the writes
                        \* a set of [at, owner, seq, hash, excl, ttl]
          ReplMin,      \* NODUS_REPLICATION_MIN
          MaxClock,     \* bound on the clock
          MaxTrouble    \* bound on the faults of a run

ASSUME DhtAssumption ==
  /\ \A w \in Worlds : w[1] \in [Nodes -> SUBSET Nodes] /\ \A n \in Nodes : n \notin w[1][n]
  /\ {QueueMax, PeerRows, MaxRetries, ReplMin} \subseteq Nat \ {0}
  /\ {MaxClock, MaxTrouble} \subseteq Nat

VARIABLES lists,     \* lists[n]: the seeds n is configured with, its cluster members
          row,       \* row[n]: the rows of nodus_values
          lane,      \* lane[n][m]: n's connection to m and its hints for m
          cl,        \* cl[n][m]: member m: "new" (SUSPECT, never seen), "seen" (ALIVE or SUSPECT), "dead"
          rt,        \* rt[n][m]: the routing entry ("quiet": 15 min old, "stale": an hour)
          clock,     \* nodus_time_now, the same on every node
          cut,       \* pairs of nodes with no network between them
          todo,      \* the puts no client has sent yet
          trouble,   \* faults so far
          newest,    \* history: the highest seq node n stored for an owner, 0: none
          swept      \* history: the values node n deleted as expired

vars == <<lists, row, lane, cl, rt, clock, cut, todo, trouble, newest, swept>>

Peers(n) == Nodes \ {n}
Linked(n, m) == {n, m} \notin cut
Closest(n) == {m \in Peers(n) : rt[n][m] \in {"fresh", "quiet"}}
Known(n) == {m \in Peers(n) : rt[n][m] # "absent"}

\* n pings m: every member that is not DEAD.
Pings(n, m) == m \in lists[n] /\ cl[n][m] # "dead"
Silent(n, m) == ~Linked(n, m) \/ ~(Pings(n, m) \/ Pings(m, n))

\* Hints are kept for members only: a seed has a placeholder id until it is first
\* heard of, and a DEAD one (in the table only through FIND_NODE) is taken to be
\* offline for NODUS_HINT_OFFLINE_SKIP_SEC.
Member(n, m) == m \in lists[n] /\ cl[n][m] = "seen"

Fault == trouble < MaxTrouble /\ trouble' = trouble + 1
\* A choice that costs one fault unless it is the faultless one.
Costs(bad) == trouble + (IF bad THEN 1 ELSE 0) <= MaxTrouble
              /\ trouble' = trouble + (IF bad THEN 1 ELSE 0)

Stored(n, rows) ==
  /\ row' = [row EXCEPT ![n] = rows]
  /\ newest' = [newest EXCEPT ![n] =
       [o \in Owners |-> IF rows[o] # NoRow /\ rows[o].seq > @[o] THEN rows[o].seq ELSE @[o]]]

-----------------------------------------------------------------------------
\* Membership

\* Faulty variant: the handler of a PING does not tell the cluster module.
HeartbeatPongOnly(n, m, lost) ==
  /\ Pings(n, m) /\ Linked(n, m)
  /\ Costs(lost)
  /\ UNCHANGED <<lists, row, lane, clock, cut, todo, newest, swept>>
  /\ cl' = [cl EXCEPT ![n][m] = IF lost THEN @ ELSE "seen"]
  /\ rt' = [rt EXCEPT ![n][m] = IF lost THEN @ ELSE "fresh", ![m][n] = "fresh"]

\* A heartbeat of n to m and the answer; each side hears the other one
\* (nodus_cluster_on_pong, nodus_dht_peer_seen).  `lost`: no PONG arrives.
Heartbeat(n, m, lost) ==
  /\ Pings(n, m) /\ Linked(n, m)
  /\ Costs(lost)
  /\ UNCHANGED <<lists, row, lane, clock, cut, todo, newest, swept>>
  /\ cl' = [cl EXCEPT ![n][m] = IF lost THEN @ ELSE "seen",
                     ![m][n] = IF n \in lists[m] THEN "seen" ELSE @]
  /\ rt' = [rt EXCEPT ![n][m] = IF lost THEN @ ELSE "fresh", ![m][n] = "fresh"]

\* The health check of nodus_cluster_tick for a member silent for 60 s.
Dead(n, m) ==
  /\ m \in lists[n] /\ cl[n][m] = "seen" /\ Silent(n, m)
  /\ cl' = [cl EXCEPT ![n][m] = "dead"]
  /\ rt' = [rt EXCEPT ![n][m] = "absent"]
  /\ UNCHANGED <<lists, row, lane, clock, cut, todo, trouble, newest, swept>>

\* A routing entry nobody refreshes gets old.
EntryAges(n, m) ==
  /\ rt[n][m] \in {"fresh", "quiet"} /\ Silent(n, m)
  /\ m \in lists[n] => cl[n][m] \in {"dead", "new"}
  /\ rt' = [rt EXCEPT ![n][m] = IF rt[n][m] = "fresh" THEN "quiet" ELSE "stale"]
  /\ UNCHANGED <<lists, row, lane, cl, clock, cut, todo, trouble, newest, swept>>

\* dht_bucket_refresh asks the peer of a quiet bucket; its answer is inserted.
BucketRefresh(n, m) ==
  /\ rt[n][m] \in {"quiet", "stale"} /\ Linked(n, m)
  /\ rt' = [rt EXCEPT ![n] = [k \in Nodes |->
                IF k # n /\ k \in Closest(m) THEN "fresh" ELSE @[k]]]
  /\ UNCHANGED <<lists, row, lane, cl, clock, cut, todo, trouble, newest, swept>>

-----------------------------------------------------------------------------
\* Values

\* do_replicate_store_frame: sent to every peer; parked only when fewer than
\* ReplMin sends succeed although at least that many peers were tried.
Replicate(n, f, bad) ==
  LET out == [m \in Closest(n) |-> Send(lane[n][m], f, Member(n, m), m \in bad)]
      lost == {m \in Closest(n) : ~out[m].ok}
      park == /\ Cardinality(Closest(n) \ lost) < ReplMin
              /\ Cardinality(Closest(n)) >= ReplMin
  IN [m \in Nodes |->
        IF m \notin Closest(n) THEN lane[n][m]
        ELSE IF park /\ m \in lost /\ Member(n, m) THEN Park(out[m].lane, f)
        ELSE out[m].lane]

\* handle_t2_put.
Put(n, p, bad) ==
  /\ p \in todo /\ p.at = n /\ bad \subseteq Closest(n)
  /\ Costs(bad # {})
  /\ todo' = todo \ {p}
  /\ LET v == [owner |-> p.owner, seq |-> p.seq, hash |-> p.hash, excl |-> p.excl,
               exp |-> IF p.ttl = 0 \/ p.excl THEN 0 ELSE clock + p.ttl]
     IN IF PutStores(row[n], v)
        THEN Stored(n, [row[n] EXCEPT ![v.owner] = v])
             /\ lane' = [lane EXCEPT ![n] = Replicate(n, v, bad)]
        ELSE UNCHANGED <<row, newest, lane>>
  /\ UNCHANGED <<lists, cl, rt, clock, cut, swept>>

\* "sv" at the receiver; `dropped`: over NODUS_SV_MAX_PER_SEC.
Deliver(n, m, dropped) ==
  /\ lane[n][m].st = "open" /\ lane[n][m].q # <<>> /\ Linked(n, m)
  /\ Costs(dropped)
  /\ UNCHANGED <<lists, cl, rt, clock, cut, todo, swept>>
  /\ lane' = [lane EXCEPT ![n][m].q = Tail(@)]
  /\ IF dropped THEN UNCHANGED <<row, newest>>
     ELSE Stored(m, PutIfNewer(row[m], Head(lane[n][m].q), clock))

\* dht_hinted_retry; `bad`: the peers no connection can be made to.
HintRetry(n, bad) ==
  /\ \E m \in Peers(n) : lane[n][m].hints # <<>>
  /\ bad \subseteq {m \in Peers(n) : lane[n][m].hints # <<>> /\ lane[n][m].st = "none"}
  /\ Costs(bad # {})
  /\ UNCHANGED <<lists, row, cl, rt, clock, cut, todo, newest, swept>>
  /\ lane' = [lane EXCEPT ![n] =
                [m \in Nodes |-> Retry(@[m], Member(n, m), m \in bad)]]

\* dht_storage_cleanup.
StorageCleanup(n) ==
  /\ Cleanup(row[n], clock) # row[n]
  /\ row' = [row EXCEPT ![n] = Cleanup(@, clock)]
  /\ swept' = [swept EXCEPT ![n] = @ \cup {row[n][o] : o \in {q \in Owners : row'[n][q] # row[n][q]}}]
  /\ UNCHANGED <<lists, lane, cl, rt, clock, cut, todo, trouble, newest>>

\* nodus_storage_fetch_batch without the rows already expired, in key order.
LiveRows(n) ==
  LET live[o \in 0..Cardinality(Owners)] ==
        IF o = 0 THEN <<>>
        ELSE IF row[n][o] # NoRow /\ ~Expired(row[n][o], clock)
             THEN Append(live[o - 1], row[n][o]) ELSE live[o - 1]
  IN live[Cardinality(Owners)]

\* dht_republish, a cycle of at most NODUS_REPUBLISH_BATCH rows, which is one tick;
\* `bad`: the peers no connection can be made to.
Republish(n, bad) ==
  /\ Cardinality(Known(n)) >= ReplMin
  /\ bad \subseteq {m \in Closest(n) : lane[n][m].st = "none"}
  /\ Costs(bad # {})
  /\ UNCHANGED <<lists, row, cl, rt, clock, cut, todo, newest, swept>>
  /\ lane' = [lane EXCEPT ![n] =
       [m \in Nodes |-> IF m \in Closest(n)
                        THEN SendEach(@[m], LiveRows(n), Member(n, m), m \in bad) ELSE @[m]]]

-----------------------------------------------------------------------------
\* Connections, clocks and faults

\* The handshake of a dialled connection completes; its queue is flushed.
Open(n, m) ==
  /\ lane[n][m].st = "dial" /\ Linked(n, m)
  /\ UNCHANGED <<lists, row, cl, rt, clock, cut, todo, trouble, newest, swept>>
  /\ lane' = [lane EXCEPT ![n][m].st = "open"]

\* A connection fails, with every frame it had accepted.
ConnLost(n, m) ==
  /\ lane[n][m].st # "none"
  /\ IF Linked(n, m) THEN Fault ELSE UNCHANGED trouble
  /\ lane' = [lane EXCEPT ![n][m] = Disconnect(@)]
  /\ UNCHANGED <<lists, row, cl, rt, clock, cut, todo, newest, swept>>

Cut(n, m) ==
  /\ n < m /\ Linked(n, m) /\ Fault
  /\ cut' = cut \cup {{n, m}}
  /\ UNCHANGED <<lists, row, lane, cl, rt, clock, todo, newest, swept>>

Heal(n, m) ==
  /\ n < m /\ ~Linked(n, m)
  /\ cut' = cut \ {{n, m}}
  /\ UNCHANGED <<lists, row, lane, cl, rt, clock, todo, trouble, newest, swept>>

\* A process restart: nodus_storage_open keeps the values and drops the hints.
Restart(n) ==
  /\ Fault
  /\ lane' = [a \in Nodes |-> [b \in Nodes |->
                IF a = n THEN Closed ELSE IF b = n THEN Disconnect(lane[a][b]) ELSE lane[a][b]]]
  /\ cl' = [cl EXCEPT ![n] = [m \in Nodes |-> "new"]]
  /\ rt' = [rt EXCEPT ![n] = [m \in Nodes |-> "absent"]]
  /\ UNCHANGED <<lists, row, clock, cut, todo, newest, swept>>

ClockTicks ==
  /\ clock < MaxClock
  /\ clock' = clock + 1
  /\ UNCHANGED <<lists, row, lane, cl, rt, cut, todo, trouble, newest, swept>>

-----------------------------------------------------------------------------
Init ==
  /\ \E w \in Worlds : lists = w[1] /\ todo = w[2]
  /\ row = [n \in Nodes |-> [o \in Owners |-> NoRow]]
  /\ lane = [n \in Nodes |-> [m \in Nodes |-> Closed]]
  /\ cl = [n \in Nodes |-> [m \in Nodes |-> "new"]]
  /\ rt = [n \in Nodes |-> [m \in Nodes |-> "absent"]]
  /\ cut = {} /\ trouble = 0
  /\ clock = IF \E p \in todo : p.ttl > 0 THEN 0 ELSE MaxClock  \* it matters to expiry only
  /\ newest = [n \in Nodes |-> [o \in Owners |-> 0]]
  /\ swept = [n \in Nodes |-> {}]

Next == ClockTicks \/
  \E n \in Nodes :
    \/ \E p \in todo : \E bad \in SUBSET Closest(n) : Put(n, p, bad)
    \/ \E bad \in SUBSET Peers(n) : HintRetry(n, bad) \/ Republish(n, bad)
    \/ StorageCleanup(n)
    \/ Restart(n)
    \/ \E m \in Peers(n) :
         \/ \E lost \in BOOLEAN : Heartbeat(n, m, lost)
         \/ Dead(n, m)
         \/ EntryAges(n, m)
         \/ BucketRefresh(n, m)
         \/ \E dropped \in BOOLEAN : Deliver(n, m, dropped)
         \/ Open(n, m)
         \/ ConnLost(n, m)
         \/ Cut(n, m)
         \/ Heal(n, m)

\* Timers fire again and again, the network carries what it is given, and
\* every partition ends.  Open: a handshake takes at most its deadline of
\* seconds, the timers that could overfill its queue run every 60 s and more.
Fairness == WF_vars(ClockTicks) /\
  \A n \in Nodes :
    /\ WF_vars(HintRetry(n, {})) /\ WF_vars(StorageCleanup(n))
    /\ WF_vars(Republish(n, {}))
    /\ \A m \in Peers(n) :
         /\ WF_vars(Heartbeat(n, m, FALSE)) /\ WF_vars(Deliver(n, m, FALSE))
         /\ SF_vars(Open(n, m)) /\ WF_vars(Heal(n, m))

Spec == Init /\ [][Next]_vars /\ Fairness

-----------------------------------------------------------------------------
\* A value a node has stored is neither lost nor rolled back at that node, in
\* whatever order replicas, hints and republished copies arrive and across
\* restarts: nodus_storage_put and nodus_storage_put_if_newer only go forward.
\* The one exception is expiry, and what nodus_storage_cleanup deleted does not
\* come back from a replica that still holds it (refuse_expired_on_arrival).
StoredKept ==
  \A n \in Nodes, o \in Owners :
    /\ row[n][o] # NoRow => row[n][o] \notin swept[n]
    /\ row[n][o] = NoRow \/ row[n][o].seq < newest[n][o] =>
         newest[n][o] = 0 \/ \E v \in swept[n] : v.owner = o /\ v.seq = newest[n][o]

\* One node is a member of the other's cluster, and neither pings the other.
Forgotten(n, m) == ~Pings(n, m) /\ ~Pings(m, n) /\ (m \in lists[n] \/ n \in lists[m])

\* A member marked DEAD in nodus_cluster_tick, which is not pinged any more, does
\* not stay DEAD while it goes on pinging: whatever partition or lost answer there
\* was, one of its PINGs arrives and the handler calls nodus_cluster_on_pong.  (Two
\* nodes that marked each other are Forgotten: neither pings.)
DeadRecovers ==
  \A n \in Nodes : \A m \in Peers(n) :
    cl[n][m] = "dead" /\ Pings(m, n) ~> cl[n][m] # "dead" \/ ~Pings(m, n)

\* Two owners wrote the key and one of them as EXCLUSIVE.
Contested ==
  \E n, m \in Nodes : \E o, q \in Owners :
    o # q /\ row[n][o] # NoRow /\ row[m][q] # NoRow /\ row[n][o].excl

Same(a, b) == IF a = NoRow \/ b = NoRow THEN a = b ELSE a.seq = b.seq /\ a.hash = b.hash
Agree == \A n, m \in Nodes : \A o \in Owners : Same(row[n][o], row[m][o])

\* Once no two members have forgotten each other for good, all nodes end up
\* with the same values: what lost connections, dropped frames, refused hints
\* and restarts left out is repaired by dht_republish, and put_if_newer makes
\* every order of arrival end in the same row.  A key contested between an
\* EXCLUSIVE owner and another is the exception.
Converges ==
  <>[](\A n \in Nodes : \A m \in Peers(n) : ~Forgotten(n, m)) => <>[](Agree \/ Contested)
=============================================================================
