------------------------------ MODULE DhtStore ------------------------------
(***************************************************************************)
(* One node's DHT storage (core/nodus_storage.c) and its side of one       *)
(* connection of the inter-node pool (server/nodus_inter_dial.c,           *)
(* transport/nodus_tcp.c): the tables and queues as values, the calls on   *)
(* them as operators.                                                      *)
(*                                                                         *)
(* A value is [owner, seq, hash, excl, exp]: the writer, the sequence      *)
(* number, the rank of data_hash, whether the type is EXCLUSIVE, and       *)
(* expires_at (0: never).  All values are of one key and one value_id, so  *)
(* the rows of a node are a function of the owner.                         *)
(*                                                                         *)
(* A lane is what a node keeps for one peer: [st, q, hints], the pool      *)
(* connection's state, the frames it has accepted and not yet handed over, *)
(* and the peer's rows of dht_hinted_handoff, oldest first.  A frame is    *)
(* the value it carries.                                                   *)
(***************************************************************************)
EXTENDS Naturals, Sequences

CONSTANTS Owners,        \* the identities that write the key
          QueueMax,      \* frames one connection holds (5 MB before it is open, 20 after)
          PeerRows,      \* NODUS_DHT_HINT_PEER_MAX_ROWS
          MaxRetries     \* NODUS_HINT_MAX_RETRIES

NoRow == [owner |-> "none"]
Closed == [st |-> "none", q |-> <<>>, hints |-> <<>>]

-----------------------------------------------------------------------------
\* The rows

\* CLEANUP_SQL's predicate.
Expired(v, now) == v.exp > 0 /\ v.exp <= now

\* A row of type EXCLUSIVE by another owner: KEY_OWNED.
KeyOwned(rows, v) == \E o \in Owners \ {v.owner} : rows[o] # NoRow /\ rows[o].excl

\* nodus_storage_put stores the value: only a strictly lower seq is stale.
PutStores(rows, v) ==
  /\ ~KeyOwned(rows, v)
  /\ rows[v.owner] = NoRow \/ rows[v.owner].seq <= v.seq

\* NEWER_EXISTS_SQL: the row stored is as new as the value.
NewerExists(rows, v) ==
  /\ rows[v.owner] # NoRow
  /\ \/ rows[v.owner].seq > v.seq
     \/ rows[v.owner].seq = v.seq /\ rows[v.owner].hash >= v.hash

\* Faulty variant: any other value replaces the row, as if all were of one seq.
PutIfNewerAnySeq(rows, v, now) ==
  IF Expired(v, now) \/ KeyOwned(rows, v) \/ rows[v.owner] = v THEN rows
  ELSE [rows EXCEPT ![v.owner] = v]

\* Faulty variant: a value that has expired on its way is stored.
PutIfNewerExpired(rows, v, now) ==
  IF KeyOwned(rows, v) \/ NewerExists(rows, v) THEN rows
  ELSE [rows EXCEPT ![v.owner] = v]

\* Faulty variant: equal sequence numbers are not told apart by the data hash.
PutIfNewerNoTie(rows, v, now) ==
  IF \/ Expired(v, now) \/ KeyOwned(rows, v)
     \/ rows[v.owner] # NoRow /\ rows[v.owner].seq >= v.seq
  THEN rows ELSE [rows EXCEPT ![v.owner] = v]

\* nodus_storage_put_if_newer: the replica path.
PutIfNewer(rows, v, now) ==
  IF Expired(v, now) \/ KeyOwned(rows, v) \/ NewerExists(rows, v) THEN rows
  ELSE [rows EXCEPT ![v.owner] = v]

\* nodus_storage_cleanup.
Cleanup(rows, now) ==
  [o \in Owners |-> IF rows[o] # NoRow /\ Expired(rows[o], now) THEN NoRow ELSE rows[o]]

-----------------------------------------------------------------------------
\* The hint table and the connection of one peer

\* nodus_storage_hinted_insert: a duplicate adds nothing, a full table refuses.
Park(l, f) ==
  IF Len(l.hints) >= PeerRows \/ \E i \in 1..Len(l.hints) : l.hints[i].frame = f THEN l
  ELSE [l EXCEPT !.hints = Append(@, [frame |-> f, tries |-> 0])]

Disconnect(l) == [l EXCEPT !.st = "none", !.q = <<>>]

\* nodus_inter_pool_send_framed, find or dial and then send: [ok, lane].
\* `bad`: no connection can be made (no socket, no pool slot).  A queue that
\* is full before the connection is open fails the send and closes the
\* connection; one that is full after it calls on_pending_full, which parks
\* the frame of a cluster member, and reports success either way.
Send(l, f, member, bad) ==
  CASE l.st = "none" /\ bad -> [ok |-> FALSE, lane |-> l]
    [] l.st = "none" /\ ~bad -> [ok |-> TRUE, lane |-> [l EXCEPT !.st = "dial", !.q = <<f>>]]
    [] l.st # "none" /\ Len(l.q) < QueueMax ->
         [ok |-> TRUE, lane |-> [l EXCEPT !.q = Append(@, f)]]
    [] l.st = "dial" /\ Len(l.q) >= QueueMax -> [ok |-> FALSE, lane |-> Disconnect(l)]
    [] OTHER -> [ok |-> TRUE, lane |-> IF member THEN Park(l, f) ELSE l]

Without(hints, f) == SelectSeq(hints, LAMBDA h : h.frame # f)

\* A failed attempt: nodus_storage_hinted_bump_retry, deleted at the limit.
Failed(l, f) ==
  [l EXCEPT !.hints =
     IF \E i \in 1..Len(@) : @[i].frame = f /\ @[i].tries + 1 >= MaxRetries
     THEN Without(@, f)
     ELSE [i \in 1..Len(@) |-> IF @[i].frame = f THEN [@[i] EXCEPT !.tries = @ + 1] ELSE @[i]]]

\* The peer's part of dht_hinted_retry: the rows read at the start, oldest
\* first; a row whose send succeeds is deleted, the first failure ends it.
Retry(l, member, bad) ==
  LET rows == l.hints
      run[i \in 0..Len(rows)] ==
        IF i = 0 THEN [on |-> TRUE, lane |-> l]
        ELSE IF ~run[i - 1].on THEN run[i - 1]
        ELSE LET r == Send(run[i - 1].lane, rows[i].frame, member, bad) IN
             IF r.ok THEN [on |-> TRUE,
                           lane |-> [r.lane EXCEPT !.hints = Without(@, rows[i].frame)]]
             ELSE [on |-> FALSE, lane |-> Failed(r.lane, rows[i].frame)]
  IN run[Len(rows)].lane

\* dht_republish to one peer: every frame in turn, a failed one parked.
SendEach(l, fs, member, bad) ==
  LET run[i \in 0..Len(fs)] ==
        IF i = 0 THEN l
        ELSE LET r == Send(run[i - 1], fs[i], member, bad) IN
             IF ~r.ok /\ member THEN Park(r.lane, fs[i]) ELSE r.lane
  IN run[Len(fs)]
=============================================================================
