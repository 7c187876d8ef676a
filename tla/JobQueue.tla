------------------------------ MODULE JobQueue ------------------------------
(***************************************************************************)
(* The durable work queue of the high-availability mode: LeaseJobStore      *)
(* (ha/tasks.py), the loop of DistributedIndexWorker that drains it         *)
(* (ha/runtime.py) and the two passes of HAMaintenanceRunner that reap and  *)
(* prune it (ha/maintenance.py).                                            *)
(*                                                                         *)
(* Every operation of the store is one database transaction, hence one      *)
(* action.  Time is relative: a deadline column is kept as the distance      *)
(* from the present, and Tick brings every deadline one unit nearer.  All    *)
(* operations read the clock before they open their transaction, so what     *)
(* they compare with is a reading that is d \in Delays units old when the    *)
(* transaction commits.                                                      *)
(***************************************************************************)
EXTENDS Integers, FiniteSets

CONSTANTS
    Jobs,           \* job identifiers (uuid4, never drawn twice)
    Workers,        \* worker threads, in any process
    Keys,           \* idempotency keys that callers of enqueue use
    ReplayKeys,     \* replay_key values of replay_dead_letter
    Payloads,       \* job payloads; a fingerprint is as good as its payload
    NoKey,          \* idempotency_key IS NULL
    None,           \* SQL NULL, and "no row"
    MaxAttempts,    \* max_attempts
    Lease,          \* lease_seconds
    MaxBackoff,     \* largest retry_delay_seconds, largest wait of a new job
    Retention,      \* job retention of the maintenance runner
    Lag,            \* bound on the age of a clock reading at commit
    ReapLimit,      \* LIMIT of reap_expired
    PruneLimit      \* LIMIT of prune_terminal

ASSUME BoundsAssumption ==
    /\ MaxAttempts \in Nat \ {0}
    /\ Lease \in Nat \ {0}
    /\ MaxBackoff \in Nat
    /\ Retention \in Nat
    /\ Lag \in Nat
    /\ ReapLimit \in Nat \ {0}
    /\ PruneLimit \in Nat \ {0}

ReplayIds == Jobs \X ReplayKeys
AllKeys   == Keys \union ReplayIds

ASSUME NamesAssumption ==
    /\ Keys \intersect ReplayIds = {}
    /\ NoKey \notin AllKeys
    /\ None \notin Jobs \union Payloads

VARIABLES
    jobs,       \* table ha_jobs
    keyRows,    \* table ha_job_keys
    held,       \* what each worker thread believes it is working on
    finishes,   \* logical clock behind finished_at
    born        \* history: the jobs ever created under each key

vars == <<jobs, keyRows, held, finishes, born>>

Terminal == {"succeeded", "failed", "dead_letter", "cancelled"}
Waiting  == {"queued", "retry_wait"}
InTable  == Waiting \union {"running"} \union Terminal
Delays   == 0..Lag
Clocks   == -Lag..(Lease + MaxBackoff + Retention)

(***************************************************************************)
(* A row of ha_jobs.  lease, wait and keep are lease_expires_at,            *)
(* available_at and the end of the retention of finished_at, all relative   *)
(* to now; finished orders rows by finished_at.  The lease token is a       *)
(* random string no other claim has; the number of the claim stands for it. *)
(***************************************************************************)
Row == [status    : InTable \union {"unborn", "pruned"},
        key       : AllKeys \union {NoKey},
        payload   : Payloads \union {None},
        replay_of : Jobs \union {None},
        attempt   : 0..MaxAttempts,
        token     : 0..MaxAttempts,      \* 0 is NULL
        lease     : Clocks,
        wait      : Clocks,
        cancel    : BOOLEAN,
        finished  : Nat,                 \* 0 is NULL
        keep      : Clocks]

\* What is left of an identifier with no row.
Absent(status) ==
    [status |-> status, key |-> NoKey, payload |-> None, replay_of |-> None,
     attempt |-> 0, token |-> 0, lease |-> 0, wait |-> 0, cancel |-> FALSE,
     finished |-> 0, keep |-> 0]

KeyRow == [job : Jobs, fingerprint : Payloads, terminal : Terminal \union {None}]

\* One iteration of run_once: the claimed job, its lease token and the
\* lease_lost event of the heartbeat thread.
Holding == [job : Jobs, token : 1..MaxAttempts, lost : BOOLEAN]

ASSUME NullAssumption == None \notin KeyRow \union Holding

TypeOK ==
    /\ jobs \in [Jobs -> Row]
    /\ keyRows \in [AllKeys -> KeyRow \union {None}]
    /\ held \in [Workers -> Holding \union {None}]
    /\ finishes \in Nat
    /\ born \in [AllKeys -> SUBSET Jobs]

Init ==
    /\ jobs = [j \in Jobs |-> Absent("unborn")]
    /\ keyRows = [k \in AllKeys |-> None]
    /\ held = [w \in Workers |-> None]
    /\ finishes = 0
    /\ born = [k \in AllKeys |-> {}]

Stored(j) == jobs[j].status \in InTable

\* The deadline has come (column <= now) for a clock reading that is d old.
Past(deadline, d) == deadline + d <= 0

-----------------------------------------------------------------------------
(* Producers *)

\* A freshly inserted row.
NewRow(k, p, src, ready) ==
    [Absent("queued") EXCEPT !.key = k, !.payload = p, !.replay_of = src,
                             !.wait = ready]

Insert(j, k, p, src, ready) ==
    /\ jobs[j].status = "unborn"
    /\ jobs' = [jobs EXCEPT ![j] = NewRow(k, p, src, ready)]
    /\ born' = IF k = NoKey THEN born ELSE [born EXCEPT ![k] = @ \union {j}]

\* enqueue without an idempotency key always inserts.
EnqueueUnkeyed(j, p, ready) ==
    /\ Insert(j, NoKey, p, None, ready)
    /\ UNCHANGED <<keyRows, held, finishes>>

\* enqueue with an idempotency key inserts only when neither a key row nor a
\* job row remembers the key; otherwise it returns what is there, or raises
\* JobConflict, and changes nothing.
Enqueue(j, k, p, ready) ==
    /\ keyRows[k] = None
    /\ \A i \in Jobs : Stored(i) => jobs[i].key # k
    /\ Insert(j, k, p, None, ready)
    /\ keyRows' = [keyRows EXCEPT
                     ![k] = [job |-> j, fingerprint |-> p, terminal |-> None]]
    /\ UNCHANGED <<held, finishes>>

\* replay_dead_letter: a copy of a dead-letter job, once per replay key as long
\* as the copy is in the table.  The key table is neither read nor written.
ReplayDeadLetter(j, source, rk) ==
    /\ jobs[source].status = "dead_letter"
    /\ \A i \in Jobs : Stored(i) => jobs[i].key # <<source, rk>>
    /\ Insert(j, <<source, rk>>, jobs[source].payload, source, 0)
    /\ UNCHANGED <<keyRows, held, finishes>>

\* Every terminal transition sets finished_at = now.
Finished(row, status) ==
    [row EXCEPT !.status = status, !.finished = finishes + 1, !.keep = Retention]

\* request_cancel: a waiting job is cancelled at once, a running one is
\* flagged, a terminal one is left alone.
RequestCancel(j) ==
    /\ \/ /\ jobs[j].status \in Waiting
          /\ jobs' = [jobs EXCEPT
                        ![j] = [Finished(@, "cancelled") EXCEPT !.cancel = TRUE]]
          /\ finishes' = finishes + 1
       \/ /\ jobs[j].status = "running"
          /\ jobs' = [jobs EXCEPT ![j].cancel = TRUE]
          /\ UNCHANGED finishes
    /\ UNCHANGED <<keyRows, held, born>>

-----------------------------------------------------------------------------
(* Workers *)

Claimable(j, d) ==
    /\ ~jobs[j].cancel
    /\ jobs[j].attempt < MaxAttempts
    /\ \/ jobs[j].status \in Waiting /\ Past(jobs[j].wait, d)
       \/ jobs[j].status = "running" /\ Past(jobs[j].lease, d)

\* Mutant: a token derived from the job instead of the claim.
TokenOfJob(j) == 1

NewToken(j) == jobs[j].attempt + 1

\* claim: SKIP LOCKED may hide any other row, so any claimable row can come
\* out first whatever its priority.
Claim(w, j, d) ==
    /\ held[w] = None
    /\ Claimable(j, d)
    /\ jobs' = [jobs EXCEPT ![j] =
                  [@ EXCEPT !.status = "running", !.token = NewToken(j),
                            !.lease = Lease - d,
                            !.attempt = jobs[j].attempt + 1]]
    /\ held' = [held EXCEPT ![w] =
                  [job |-> j, token |-> NewToken(j), lost |-> FALSE]]
    /\ UNCHANGED <<keyRows, finishes, born>>

\* Mutant: the lease test without the token comparison.
OwnsAnyToken(w, d) ==
    /\ held[w] # None
    /\ jobs[held[w].job].status = "running"
    /\ ~Past(jobs[held[w].job].lease, d)

\* The worker's claim is the one in the table and its lease has not expired.
Owns(w, d) ==
    /\ held[w] # None
    /\ LET row == jobs[held[w].job]
       IN  /\ row.status = "running"
           /\ row.token = held[w].token
           /\ ~Past(row.lease, d)

\* The heartbeat thread renews the lease.
Heartbeat(w, d) ==
    /\ Owns(w, d)
    /\ ~held[w].lost
    /\ ~jobs[held[w].job].cancel
    /\ jobs' = [jobs EXCEPT ![held[w].job].lease = Lease - d]
    /\ UNCHANGED <<keyRows, held, finishes, born>>

\* Any exception of a heartbeat (a stale, expired or cancelled lease, the
\* database, the generation lease) sets lease_lost and ends the thread.
HeartbeatLost(w) ==
    /\ held[w] # None
    /\ ~held[w].lost
    /\ held' = [held EXCEPT ![w].lost = TRUE]
    /\ UNCHANGED <<jobs, keyRows, finishes, born>>

\* _finish: the status a live claim ends in, then one UPDATE of the row.
FinishStatus(row, error, retryable) ==
    IF row.cancel THEN "cancelled"
    ELSE IF ~error THEN "succeeded"
    ELSE IF ~retryable THEN "failed"
    ELSE IF row.attempt < MaxAttempts THEN "retry_wait"
    ELSE "dead_letter"

\* The row after its claim has ended in the given status.
Released(row, status, backoff) ==
    LET free == [row EXCEPT !.token = 0, !.lease = 0, !.wait = backoff]
    IN  IF status \in Terminal THEN Finished(free, status)
                               ELSE [free EXCEPT !.status = status]

Finish(w, d, error, retryable, delay) ==
    /\ Owns(w, d)
    /\ ~held[w].lost
    /\ LET j       == held[w].job
           status  == FinishStatus(jobs[j], error, retryable)
           backoff == IF status = "retry_wait" THEN delay - d ELSE 0
       IN  /\ jobs' = [jobs EXCEPT ![j] = Released(@, status, backoff)]
           /\ finishes' = IF status \in Terminal THEN finishes + 1 ELSE finishes
    /\ held' = [held EXCEPT ![w] = None]
    /\ UNCHANGED <<keyRows, born>>

Complete(w, d) == Finish(w, d, FALSE, FALSE, 0)

Fail(w, d, retryable, delay) == Finish(w, d, TRUE, retryable, delay)

\* The iteration ends without touching the row: the lease was lost, complete or
\* fail raised StaleJobLease or a database error, or the process crashed.
Drop(w) ==
    /\ held[w] # None
    /\ held' = [held EXCEPT ![w] = None]
    /\ UNCHANGED <<jobs, keyRows, finishes, born>>

-----------------------------------------------------------------------------
(* Maintenance *)

\* A LIMITed batch of a set of rows, ordered by the given column.
IsBatch(S, T, limit, column(_)) ==
    /\ S \subseteq T
    /\ S # {}
    /\ Cardinality(S) <= limit
    /\ S # T => Cardinality(S) = limit
    /\ \A i \in S, j \in T \ S : column(i) <= column(j)

\* Mutant: the reaper leaves exhausted jobs to the claimers.
ExpiredWithBudget(d) ==
    {j \in Jobs : /\ jobs[j].status = "running"
                  /\ Past(jobs[j].lease, d)
                  /\ jobs[j].attempt < MaxAttempts}

Expired(d) == {j \in Jobs : jobs[j].status = "running" /\ Past(jobs[j].lease, d)}

\* Mutant: the reaper forgets the cancel flag.
ReapStatusUncancelled(row) ==
    IF row.attempt >= MaxAttempts THEN "dead_letter" ELSE "retry_wait"

ReapStatus(row) ==
    IF row.cancel THEN "cancelled"
    ELSE IF row.attempt >= MaxAttempts THEN "dead_letter"
    ELSE "retry_wait"

\* reap_expired: one transaction over the oldest expired leases.
ReapExpired(S, d) ==
    /\ LET deadline(j) == jobs[j].lease
       IN  IsBatch(S, Expired(d), ReapLimit, deadline)
    /\ jobs' = [j \in Jobs |->
                  IF j \in S THEN Released(jobs[j], ReapStatus(jobs[j]), -d)
                             ELSE jobs[j]]
    /\ finishes' = IF \E j \in S : ReapStatus(jobs[j]) \in Terminal
                     THEN finishes + 1 ELSE finishes
    /\ UNCHANGED <<keyRows, held, born>>

Stale == {j \in Jobs : jobs[j].status \in Terminal /\ Past(jobs[j].keep, 0)}

\* Mutant: only the INSERT, so a key row written by enqueue keeps NULL.
TombstoneInsertOnly(k, S) ==
    LET owners == {j \in S : jobs[j].key = k}
    IN  IF owners = {} \/ keyRows[k] # None THEN keyRows[k]
        ELSE LET j == CHOOSE i \in owners : TRUE
             IN  [job |-> j, fingerprint |-> jobs[j].payload,
                  terminal |-> jobs[j].status]

\* INSERT ... ON CONFLICT DO NOTHING followed by the UPDATE of terminal_status
\* where the key row belongs to the pruned job.
Tombstone(k, S) ==
    LET owners == {j \in S : jobs[j].key = k}
    IN  IF owners = {} THEN keyRows[k]
        ELSE LET j == CHOOSE i \in owners : TRUE
             IN  IF keyRows[k] = None
                   THEN [job |-> j, fingerprint |-> jobs[j].payload,
                         terminal |-> jobs[j].status]
                 ELSE IF keyRows[k].job = j
                   THEN [keyRows[k] EXCEPT !.terminal = jobs[j].status]
                 ELSE keyRows[k]

\* Mutant: the youngest finished rows first.
PruneNewestFirst(j) == -jobs[j].finished

\* The order in which prune_terminal reads finished rows.
PruneOrder(j) == jobs[j].finished

\* prune_terminal: the longest finished rows leave the table, their keys stay.
PruneTerminal(S) ==
    /\ IsBatch(S, Stale, PruneLimit, PruneOrder)
    /\ jobs' = [j \in Jobs |-> IF j \in S THEN Absent("pruned") ELSE jobs[j]]
    /\ keyRows' = [k \in AllKeys |-> Tombstone(k, S)]
    /\ UNCHANGED <<held, finishes, born>>

\* Time passes: every deadline comes one unit nearer, down to the value from
\* which no reading tells it apart.
Nearer(t) == IF t > -Lag THEN t - 1 ELSE t

Elapse ==
    /\ jobs' = [j \in Jobs |->
                 [jobs[j] EXCEPT
                   !.lease = IF jobs[j].status = "running" THEN Nearer(@) ELSE @,
                   !.wait  = IF jobs[j].status \in Waiting THEN Nearer(@) ELSE @,
                   !.keep  = IF jobs[j].status \in Terminal THEN Nearer(@) ELSE @]]
    /\ UNCHANGED <<keyRows, held, finishes, born>>

Tick == Elapse /\ jobs' # jobs

-----------------------------------------------------------------------------
Produce ==
    \E j \in Jobs :
        \/ \E p \in Payloads, ready \in 0..MaxBackoff :
              \/ EnqueueUnkeyed(j, p, ready)
              \/ \E k \in Keys : Enqueue(j, k, p, ready)
        \/ \E source \in Jobs, rk \in ReplayKeys : ReplayDeadLetter(j, source, rk)
        \/ RequestCancel(j)

ClaimSome == \E w \in Workers, j \in Jobs, d \in Delays : Claim(w, j, d)

Work(w) ==
    \E d \in Delays :
        \/ Complete(w, d)
        \/ \E retryable \in BOOLEAN, delay \in 0..MaxBackoff :
              Fail(w, d, retryable, delay)

ReapSome  == \E S \in SUBSET Jobs, d \in Delays : ReapExpired(S, d)
PruneSome == \E S \in SUBSET Jobs : PruneTerminal(S)

Next ==
    \/ Produce
    \/ ClaimSome
    \/ \E w \in Workers :
          \/ \E d \in Delays : Heartbeat(w, d)
          \/ HeartbeatLost(w)
          \/ Work(w)
          \/ Drop(w)
    \/ ReapSome
    \/ PruneSome
    \/ Tick

Spec == Init /\ [][Next]_vars

(***************************************************************************)
(* Fairness.  The worker loop and the maintenance loop run forever, a        *)
(* worker's iteration ends in one of its ways, and time passes.              *)
(***************************************************************************)
Fairness ==
    /\ WF_vars(Tick)
    /\ WF_vars(ClaimSome)
    /\ WF_vars(ReapSome)
    /\ \A w \in Workers : WF_vars(Drop(w) \/ Work(w))

FairSpec == Spec /\ Fairness
-----------------------------------------------------------------------------
(* Properties *)

\* An idempotency key never yields two jobs, not even when the first one has
\* been pruned and the producer retries: enqueue consults the key table that
\* prune_terminal leaves behind.
KeyNeverReused == \A k \in Keys : \A i, j \in born[k] : i = j

\* Replaying a dead-letter job twice under one replay key never yields two
\* jobs, and the copy stays in the table at least as long as its source.
\* replay_dead_letter does not look at the key table: that the first copy
\* cannot be pruned while its source is still there rests on the order in
\* which prune_terminal reads finished_at.
ReplayOnce ==
    \A source \in Jobs, rk \in ReplayKeys : \A j \in born[<<source, rk>>] :
        /\ \A i \in born[<<source, rk>>] : i = j
        /\ Stored(source) => Stored(j)

\* The key row that enqueue answers from belongs to the job of its key, hence to
\* the only one (KeyNeverReused), and carries a terminal status when that job has
\* been pruned.
OutcomeRemembered ==
    \A k \in Keys : \A j \in born[k] :
        /\ keyRows[k] # None /\ keyRows[k].job = j
        /\ jobs[j].status = "pruned" => keyRows[k].terminal \in Terminal

\* No two workers can both pass the fencing test of heartbeat, complete and
\* fail for one job, however old their clock readings are.
UniqueOwner ==
    \A v, w \in Workers :
        Owns(v, Lag) /\ Owns(w, Lag) /\ held[v].job = held[w].job => v = w

\* A job is parked as a dead letter only after all its attempts were used, by
\* fail or by the reaper.
DeadLetterExhausted ==
    \A j \in Jobs : jobs[j].status = "dead_letter" => jobs[j].attempt = MaxAttempts

\* A worker whose job was claimed again, cancelled away or reaped leaves the
\* row untouched when its iteration ends: only the latest claim can finish it.
\* A finished job is never moved again, by a late heartbeat, completion,
\* failure, cancel or reap; only the pruner removes it.
FencedFinish ==
    [][/\ \A w \in Workers :
            held[w] # None /\ held'[w] = None /\ jobs' # jobs =>
               LET j == held[w].job
               IN  /\ jobs[j].status = "running"
                   /\ jobs[j].attempt = held[w].token
                   /\ \A i \in Jobs \ {j} : jobs'[i] = jobs[i]
       /\ \A j \in Jobs : jobs[j].status \in Terminal =>
            jobs'[j].status \in {jobs[j].status, "pruned"}]_vars

\* A cancellation is never lost: from the moment it is requested the job is not
\* claimed again, and it ends in cancelled, whether the worker finishes it or
\* its lease is reaped.
CancelHonoured ==
    [][\A j \in Jobs : jobs[j].cancel =>
          \/ jobs'[j].status = "pruned"
          \/ /\ jobs'[j].cancel
             /\ jobs'[j].status \in {"running", "cancelled"}
             /\ jobs'[j].attempt = jobs[j].attempt]_vars

\* Every job that enters the table reaches a terminal status, whatever workers
\* do: the reaper returns or parks the jobs of workers that vanish.  As there
\* are finitely many, a moment comes in which none waits or runs.
EveryJobEnds ==
    LET Ended == \A j \in Jobs : Stored(j) => jobs[j].status \in Terminal
    IN  ~Ended ~> Ended
=============================================================================
