------------------------------- MODULE Outbox -------------------------------
(***************************************************************************)
(* The transactional outbox: OutboxStore and OutboxDispatcher               *)
(* (ha/outbox.py), the pruning pass of the maintenance runner, and           *)
(* CacheInvalidationFeed (ha/invalidation.py), which reads the same table     *)
(* through a durable cursor of its own on every API node.                    *)
(*                                                                         *)
(* An event is appended inside the transaction of its caller, so appending   *)
(* and committing are two actions: PostgreSQL runs such transactions side by  *)
(* side (Concurrent), SQLite one at a time.  Every other operation is one     *)
(* transaction and one action.  Deadlines are relative to now and clock       *)
(* readings may be up to Lag old, as in JobQueue.                             *)
(***************************************************************************)
EXTENDS Integers, FiniteSets

CONSTANTS
    Events,         \* event ids (uuid4, never drawn twice)
    Aggregates,     \* (tenant_id, topic, aggregate_type, aggregate_id)
    Keys,           \* idempotency keys
    Dispatchers,    \* OutboxDispatcher threads, in any process
    Nodes,          \* API nodes, each with a feed and a cursor
    None,           \* SQL NULL
    MaxAttempts,    \* max_attempts
    Lease,          \* lease_seconds
    MaxBackoff,     \* largest retry_delay_seconds
    Retention,      \* retention_seconds of the maintenance runner
    Lag,            \* bound on the age of a clock reading at commit
    PruneLimit,     \* LIMIT of prune_delivered
    BatchSize,      \* LIMIT of poll_once
    Concurrent      \* business transactions of different aggregates overlap

ASSUME BoundsAssumption ==
    /\ MaxAttempts \in Nat \ {0}
    /\ Lease \in Nat \ {0}
    /\ MaxBackoff \in Nat
    /\ Retention \in Nat
    /\ Lag \in Nat
    /\ PruneLimit \in Nat \ {0}
    /\ BatchSize \in Nat \ {0}
    /\ Concurrent \in BOOLEAN

ASSUME NamesAssumption == None \notin Events \union Aggregates \union Keys

VARIABLES
    events,     \* table ha_outbox, and the rows of open transactions
    keyRows,    \* table ha_outbox_keys
    revisions,  \* the last revision each aggregate's authority has given out
    stamps,     \* readings of the clock so far that became a created_at
    busy,       \* what each dispatcher is working on
    received,   \* history: events whose handler call reached the consumer
    offsets,    \* table ha_invalidation_offsets
    batch,      \* rows each feed has read and not yet gone through
    seen,       \* history: events that each node's caches account for
    late        \* history: events committed behind what each feed has read

vars == <<events, keyRows, revisions, stamps, busy, received, offsets, batch, seen, late>>

Delays    == 0..Lag
Clocks    == -Lag..(Lease + MaxBackoff + Retention)
InTable   == {"pending", "delivering", "delivered", "dead_letter"}
Undelivered == {"pending", "delivering", "dead_letter"}

(***************************************************************************)
(* A row of ha_outbox; "open" is a row that its transaction has not          *)
(* committed, "void" one whose transaction was rolled back.  lease, wait and  *)
(* keep are lease_expires_at, available_at and the end of the retention of    *)
(* delivered_at, relative to now.  created stands for (created_at, event_id): *)
(* the order in which the clock was read.  The number of the claim stands for *)
(* its random lease token.                                                    *)
(***************************************************************************)
Row == [status    : InTable \union {"unborn", "open", "void", "pruned"},
        aggregate : Aggregates \union {None},
        revision  : Nat,
        key       : Keys \union {None},
        created   : Nat,
        attempt   : 0..MaxAttempts,
        token     : 0..MaxAttempts,      \* 0 is NULL
        lease     : Clocks,
        wait      : Clocks,
        keep      : Clocks]

NoRow == [status |-> "unborn", aggregate |-> None, revision |-> 0, key |-> None,
          created |-> 0, attempt |-> 0, token |-> 0, lease |-> 0, wait |-> 0,
          keep |-> 0]

\* One iteration of run_once: the claimed event, how far its handler is, and
\* the lease_lost event of the heartbeat thread.
Delivery == [event : Events,
             token : 1..MaxAttempts,
             step  : {"call", "ok", "error"},
             lost  : BOOLEAN]

ASSUME NullAssumption == None \notin Delivery

TypeOK ==
    /\ events \in [Events -> Row]
    /\ keyRows \in [Keys -> Events \union {None}]
    /\ revisions \in [Aggregates -> Nat]
    /\ stamps \in Nat
    /\ busy \in [Dispatchers -> Delivery \union {None}]
    /\ received \in SUBSET Events
    /\ offsets \in [Nodes -> Nat]
    /\ batch \in [Nodes -> SUBSET Events]
    /\ seen \in [Nodes -> SUBSET Events]
    /\ late \in [Nodes -> SUBSET Events]

Init ==
    /\ events = [e \in Events |-> NoRow]
    /\ keyRows = [k \in Keys |-> None]
    /\ revisions = [a \in Aggregates |-> 0]
    /\ stamps = 0
    /\ busy = [w \in Dispatchers |-> None]
    /\ received = {}
    /\ offsets = [n \in Nodes |-> 0]
    /\ batch = [n \in Nodes |-> {}]
    /\ seen = [n \in Nodes |-> {}]
    /\ late = [n \in Nodes |-> {}]

table  == <<events, keyRows, revisions, stamps>>
feed   == <<offsets, batch, seen, late>>

Stored(e) == events[e].status \in InTable

\* The deadline has come for a clock reading that is d old.
Past(deadline, d) == deadline + d <= 0

-----------------------------------------------------------------------------
(* Producers *)

Open == {e \in Events : events[e].status = "open"}

\* append with a key, when neither table remembers it: another open transaction
\* with the same key is waited for, a key in use leaves everything unchanged.
Free(k) ==
    /\ keyRows[k] # None => ~Stored(keyRows[k])
    /\ \A e \in Events : Stored(e) \/ e \in Open => events[e].key # k

\* append: the caller holds the lock of its authority row (the head of the index,
\* of the sources, or the knowledge base), which gives the aggregate_revision.
Append(e, a, k) ==
    /\ events[e].status = "unborn"
    /\ Free(k)
    /\ \A i \in Open : Concurrent /\ events[i].aggregate # a
    /\ stamps' = stamps + 1
    /\ events' = [events EXCEPT ![e] =
                    [NoRow EXCEPT !.status = "open", !.aggregate = a,
                                  !.revision = revisions[a] + 1, !.key = k,
                                  !.created = stamps + 1]]
    /\ UNCHANGED <<keyRows, revisions, busy, received, feed>>

\* The feed of n has read a row that was stamped after e.
ReadPast(n, e) ==
    \/ offsets[n] >= events[e].created
    \/ \E i \in batch[n] : events[i].created > events[e].created

\* The caller's transaction commits: authority, event and key together.
Commit(e) ==
    /\ e \in Open
    /\ events' = [events EXCEPT ![e].status = "pending"]
    /\ keyRows' = [keyRows EXCEPT ![events[e].key] = e]
    /\ revisions' = [revisions EXCEPT ![events[e].aggregate] = events[e].revision]
    /\ late' = [n \in Nodes |-> IF ReadPast(n, e) THEN late[n] \union {e} ELSE late[n]]
    /\ UNCHANGED <<stamps, busy, received, offsets, batch, seen>>

\* A later statement of the transaction fails.
Rollback(e) ==
    /\ e \in Open
    /\ events' = [events EXCEPT ![e] = [NoRow EXCEPT !.status = "void"]]
    /\ UNCHANGED <<keyRows, revisions, stamps, busy, received, feed>>

-----------------------------------------------------------------------------
(* Dispatchers *)

\* Mutant: exhausted deliveries are left alone.
SweptNever(d) == events

\* The first statement of claim: a delivery whose last lease has expired is a
\* dead letter.
Swept(d) ==
    [e \in Events |->
       IF /\ events[e].status = "delivering"
          /\ Past(events[e].lease, d)
          /\ events[e].attempt >= MaxAttempts
         THEN [events[e] EXCEPT !.status = "dead_letter", !.token = 0, !.lease = 0]
         ELSE events[e]]

\* The order of one aggregate's events.
Before(i, e) ==
    \/ i.revision < e.revision
    \/ i.revision = e.revision /\ i.created < e.created

\* Mutant: a dead letter does not hold back its successors.
BlockedByLiving(rows, e) ==
    \E i \in Events : /\ rows[i].status \in {"pending", "delivering"}
                      /\ rows[i].aggregate = rows[e].aggregate
                      /\ Before(rows[i], rows[e])

\* NOT EXISTS ... prior: an earlier event of the aggregate is not delivered.
Blocked(rows, e) ==
    \E i \in Events : /\ rows[i].status \in Undelivered
                      /\ rows[i].aggregate = rows[e].aggregate
                      /\ Before(rows[i], rows[e])

Claimable(rows, e, d) ==
    /\ rows[e].attempt < MaxAttempts
    /\ ~Blocked(rows, e)
    /\ \/ rows[e].status = "pending" /\ Past(rows[e].wait, d)
       \/ rows[e].status = "delivering" /\ Past(rows[e].lease, d)

\* claim: SKIP LOCKED may hide any other row.
Claim(w, e, d) ==
    /\ busy[w] = None
    /\ Claimable(Swept(d), e, d)
    /\ LET token == events[e].attempt + 1
       IN  /\ events' = [Swept(d) EXCEPT ![e] =
                           [events[e] EXCEPT !.status = "delivering",
                                             !.token = token, !.attempt = token,
                                             !.lease = Lease - d]]
           /\ busy' = [busy EXCEPT ![w] =
                         [event |-> e, token |-> token, step |-> "call",
                          lost |-> FALSE]]
    /\ UNCHANGED <<keyRows, revisions, stamps, received, feed>>

\* claim that finds no row has still reaped.
ClaimNothing(w, d) ==
    /\ busy[w] = None
    /\ Swept(d) # events
    /\ events' = Swept(d)
    /\ UNCHANGED <<keyRows, revisions, stamps, busy, received, feed>>

\* The handler returns, or raises: after a timeout the consumer may have the
\* event all the same.
Handle(w) ==
    /\ busy[w] # None
    /\ busy[w].step = "call"
    /\ \/ /\ busy' = [busy EXCEPT ![w].step = "ok"]
          /\ received' = received \union {busy[w].event}
       \/ /\ busy' = [busy EXCEPT ![w].step = "error"]
          /\ received' \in {received, received \union {busy[w].event}}
    /\ UNCHANGED <<table, feed>>

\* The claim is the one in the table and its lease has not expired.
Owns(w, d) ==
    /\ busy[w] # None
    /\ LET row == events[busy[w].event]
       IN  /\ row.status = "delivering"
           /\ row.token = busy[w].token
           /\ ~Past(row.lease, d)

\* heartbeat: a live lease starts again.
Heartbeat(w, d) ==
    /\ Owns(w, d)
    /\ ~busy[w].lost
    /\ events' = [events EXCEPT ![busy[w].event].lease = Lease - d]
    /\ UNCHANGED <<keyRows, revisions, stamps, busy, received, feed>>

\* Any exception of a heartbeat ends the thread.
HeartbeatLost(w) ==
    /\ busy[w] # None
    /\ ~busy[w].lost
    /\ busy' = [busy EXCEPT ![w].lost = TRUE]
    /\ UNCHANGED <<table, received, feed>>

\* The row after its claim has ended.
Released(row, status, wait) ==
    [row EXCEPT !.status = status, !.token = 0, !.lease = 0, !.wait = wait,
                !.keep = IF status = "delivered" THEN Retention ELSE 0]

\* Mutant: the event counts as delivered whatever the handler did.
FinishRegardless(w, d, delay) ==
    /\ Owns(w, d)
    /\ ~busy[w].lost
    /\ busy[w].step # "call"
    /\ events' = [events EXCEPT ![busy[w].event] = Released(@, "delivered", 0)]
    /\ busy' = [busy EXCEPT ![w] = None]
    /\ UNCHANGED <<keyRows, revisions, stamps, received, feed>>

\* delivered or failed: _finish under a live lease.
Finish(w, d, delay) ==
    /\ Owns(w, d)
    /\ ~busy[w].lost
    /\ busy[w].step # "call"
    /\ LET e == busy[w].event
       IN  events' = [events EXCEPT ![e] =
             IF busy[w].step = "ok" THEN Released(@, "delivered", 0)
             ELSE IF events[e].attempt >= MaxAttempts
               THEN Released(@, "dead_letter", 0)
             ELSE Released(@, "pending", delay - d)]
    /\ busy' = [busy EXCEPT ![w] = None]
    /\ UNCHANGED <<keyRows, revisions, stamps, received, feed>>

\* The iteration ends without touching the row: the lease was lost, _finish
\* raised StaleOutboxLease, or the process crashed.
Drop(w) ==
    /\ busy[w] # None
    /\ busy' = [busy EXCEPT ![w] = None]
    /\ UNCHANGED <<table, received, feed>>

-----------------------------------------------------------------------------
(* Maintenance *)

\* Ordered by delivered_at: the less retention is left, the earlier.
Stale == {e \in Events : events[e].status = "delivered" /\ Past(events[e].keep, 0)}

\* prune_delivered: rows and key rows go together.  (What is kept of a pruned
\* row is what feeds have read of it, and history.)
PruneDelivered(S) ==
    /\ S # {}
    /\ S \subseteq Stale
    /\ Cardinality(S) <= PruneLimit
    /\ S # Stale => Cardinality(S) = PruneLimit
    /\ \A i \in S, j \in Stale \ S : events[i].keep <= events[j].keep
    /\ events' = [e \in Events |->
                    IF e \in S THEN [NoRow EXCEPT !.status = "pruned",
                                                  !.key = events[e].key,
                                                  !.created = events[e].created]
                               ELSE events[e]]
    /\ keyRows' = [k \in Keys |-> IF keyRows[k] \in S THEN None ELSE keyRows[k]]
    /\ UNCHANGED <<revisions, stamps, busy, received, feed>>

-----------------------------------------------------------------------------
(* Feeds *)

\* poll_once reads the cursor and the next rows after it, whatever their status.
Ahead(n) == {e \in Events : Stored(e) /\ events[e].created > offsets[n]}

Poll(n) ==
    /\ batch[n] = {}
    /\ Ahead(n) # {}
    /\ batch' = [batch EXCEPT ![n] =
                   {e \in Ahead(n) :
                      Cardinality({i \in Ahead(n) : events[i].created
                                                      < events[e].created}) < BatchSize}]
    /\ UNCHANGED <<table, busy, received, offsets, seen, late>>

\* The rows of a batch are gone through in order.
First(n, e) ==
    e \in batch[n] /\ \A i \in batch[n] : events[e].created <= events[i].created

\* The handler has run and _advance moves the cursor, which never goes back.
Apply(n, e) ==
    /\ First(n, e)
    /\ seen' = [seen EXCEPT ![n] = @ \union {e}]
    /\ offsets' = [offsets EXCEPT ![n] =
                     IF events[e].created > @ THEN events[e].created ELSE @]
    /\ batch' = [batch EXCEPT ![n] = @ \ {e}]
    /\ UNCHANGED <<table, busy, received, late>>

\* Mutant: the cursor moves before the handler runs.
ApplyFailsAdvanced(n, e) ==
    /\ First(n, e)
    /\ offsets' = [offsets EXCEPT ![n] = events[e].created]
    /\ batch' = [batch EXCEPT ![n] = {}]
    /\ UNCHANGED <<table, busy, received, seen, late>>

\* The handler raises, or _advance does after it: the rest of the batch is left
\* to the next poll.
ApplyFails(n, e) ==
    /\ First(n, e)
    /\ seen' \in {seen, [seen EXCEPT ![n] = @ \union {e}]}
    /\ batch' = [batch EXCEPT ![n] = {}]
    /\ UNCHANGED <<table, busy, received, offsets, late>>

\* The node restarts: reconcile clears every cache before polling begins.
Restart(n) ==
    /\ batch' = [batch EXCEPT ![n] = {}]
    /\ seen' = [seen EXCEPT ![n] =
                  {e \in Events : events[e].status \in InTable \union {"pruned"}}]
    /\ UNCHANGED <<table, busy, received, offsets, late>>

-----------------------------------------------------------------------------
Nearer(t) == IF t > -Lag THEN t - 1 ELSE t

Tick ==
    /\ events' = [e \in Events |->
                    [events[e] EXCEPT
                      !.lease = IF events[e].status = "delivering" THEN Nearer(@) ELSE @,
                      !.wait  = IF events[e].status = "pending" THEN Nearer(@) ELSE @,
                      !.keep  = IF events[e].status = "delivered" THEN Nearer(@) ELSE @]]
    /\ events' # events
    /\ UNCHANGED <<keyRows, revisions, stamps, busy, received, feed>>

Produce ==
    \E e \in Events :
        \/ \E a \in Aggregates, k \in Keys : Append(e, a, k)
        \/ Commit(e)
        \/ Rollback(e)

ClaimSome ==
    \E w \in Dispatchers, d \in Delays :
        \/ \E e \in Events : Claim(w, e, d)
        \/ ClaimNothing(w, d)

FinishSome(w) == \E d \in Delays, delay \in 0..MaxBackoff : Finish(w, d, delay)

RunOnce(w) == Handle(w) \/ FinishSome(w) \/ Drop(w)

Keep(w) == HeartbeatLost(w) \/ \E d \in Delays : Heartbeat(w, d)

PruneSome == \E S \in SUBSET Events : PruneDelivered(S)

ApplySome(n) == \E e \in Events : Apply(n, e)

Follow(n) ==
    \/ Poll(n)
    \/ ApplySome(n)
    \/ \E e \in Events : ApplyFails(n, e)
    \/ Restart(n)

Next ==
    \/ Produce
    \/ ClaimSome
    \/ \E w \in Dispatchers : RunOnce(w) \/ Keep(w)
    \/ PruneSome
    \/ \E n \in Nodes : Follow(n)
    \/ Tick

Spec == Init /\ [][Next]_vars

(***************************************************************************)
(* Fairness: the dispatchers and feeds loop forever, an iteration ends in    *)
(* one of its ways (the handler has a timeout), time passes, and the handler  *)
(* of a feed does not fail each time it is tried.  Nothing is promised of     *)
(* producers and of the pruning pass.                                         *)
(***************************************************************************)
Fairness ==
    /\ WF_vars(Tick)
    /\ WF_vars(ClaimSome)
    /\ \A w \in Dispatchers : WF_vars(RunOnce(w))
    /\ \A n \in Nodes : WF_vars(Poll(n)) /\ SF_vars(ApplySome(n))

FairSpec == Spec /\ Fairness

-----------------------------------------------------------------------------
(* Properties *)

\* Delivery is at least once: an event that counts as delivered, and may be
\* pruned, has reached the consumer, whichever dispatchers lost it meanwhile.
DeliveredReceived ==
    \A e \in Events : events[e].status \in {"delivered", "pruned"} => e \in received

\* The events of an aggregate reach the consumer for the first time in the
\* order of their revisions, across retries, expired leases and dead letters.
OrderedDelivery ==
    \A i, e \in Events :
        /\ Stored(i) /\ Stored(e)
        /\ events[i].aggregate = events[e].aggregate
        /\ Before(events[i], events[e])
        /\ e \in received
        => i \in received

\* Every committed event is delivered, ends as a dead letter, or waits behind
\* the dead letter of its aggregate: no crash leaves it in delivering.
Held(e) ==
    \E i \in Events : /\ events[i].status = "dead_letter"
                      /\ events[i].aggregate = events[e].aggregate
                      /\ Before(events[i], events[e])

Settles ==
    \A e \in Events :
        events[e].status = "pending" ~>
            (events[e].status \in {"delivered", "dead_letter", "pruned"} \/ Held(e))

\* The cursor of a node is past no event that its caches do not account for,
\* except those that became visible behind it: a failing handler, a crash before
\* _advance, a restart and a batch that is broken off lose none.  The exception is
\* that created_at is stamped before the commit, so that a transaction that
\* overlaps a later one may commit after a feed has read past its event.
CursorCovers ==
    \A n \in Nodes, e \in Events :
        Stored(e) /\ events[e].created <= offsets[n] => e \in seen[n] \union late[n]

\* Every node's feed handles every event, unless it is pruned before that or was
\* committed behind what the feed had read.
EveryNodeHears ==
    \A n \in Nodes, e \in Events :
        Stored(e) ~> (e \in seen[n] \/ events[e].status = "pruned" \/ e \in late[n])

\* The tombstone of an idempotency key keeps it from being sent again after the
\* delivered event was pruned, as the deployment guide has it.
KeySentOnce ==
    \A i, e \in received : events[i].key = events[e].key => i = e
=============================================================================
