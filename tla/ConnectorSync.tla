--------------------------- MODULE ConnectorSync ---------------------------
(***************************************************************************)
(* Connector synchronisation in the multi-writer role, for one connection  *)
(* of one knowledge base: the job ledger (connectors/sync_store.py), the   *)
(* worker's attempt (connectors/sync_runtime.py), its sink                 *)
(* (connectors/materialized_sink.py), the shared hand-off of a committing  *)
(* job (ha/connector_commit.py), the index jobs the sink submits           *)
(* (ha/api_state.py, DistributedIndexJobStore) and the control plane       *)
(* (connectors/manager.py).                                                *)
(*                                                                         *)
(* The provider is a log of changes; a page carries one change and a       *)
(* cursor is the number of changes read.  A snapshot of the connection's   *)
(* files is the set of changes it incorporates.  A token or a lease held   *)
(* by a worker is a flag, "mine is still the current one", which whoever   *)
(* takes the lease next turns off; a lease that ran out is not live.       *)
(* Every node rebases its directory on the published head before it works, *)
(* so the node-local directories carry nothing between attempts.           *)
(***************************************************************************)
EXTENDS Naturals, FiniteSets

CONSTANTS
    Nodes,          \* nodes: one worker, API thread and index executor each
    MaxJobs,        \* bound: sync jobs the ledger ever holds
    MaxChanges,     \* bound: changes at the provider
    MaxAttempts,    \* limits.max_attempts
    MaxIndexJobs,   \* bound: index jobs submitted for one sync job
    MaxSwitches,    \* bound: times the connection is disabled or enabled
    MaxFaults,      \* bound: node crashes, leases that run out under a working
                    \* holder, errors of the provider, the sink or the index
    None

ASSUME BoundsAssumption ==
    /\ Nodes # {} /\ None \notin Nodes
    /\ MaxJobs \in Nat \ {0} /\ MaxChanges \in Nat
    /\ MaxAttempts \in Nat \ {0} /\ MaxIndexJobs \in Nat \ {0}
    /\ MaxSwitches \in Nat /\ MaxFaults \in Nat

Jobs == 1 .. MaxJobs
Cursors == 0 .. MaxChanges
Contents == SUBSET (1 .. MaxChanges)

VARIABLES
    job,        \* connector_sync_jobs
    hand,       \* ha_connector_commits and the objects below its prefix
    index,      \* ha_api_index_jobs, by sync job and position in its chain
    conn,       \* the connection: enabled and revision
    ckpt,       \* connector_sync_checkpoints.cursor
    head,       \* the published source generation: its changes
    published,  \* history: the jobs whose snapshot became the head
    kb,         \* the knowledge base's mutation lease
    wk,         \* each node's worker
    req,        \* the submission in flight, at most one at a time
    avail,      \* changes the provider has
    faults,     \* faults so far
    kept        \* history: so far every committing job had its own hand-off

vars == << job, hand, index, conn, ckpt, head, published, kb, wk, req, avail, faults >>

----------------------------------------------------------------------------
(* Records *)

ActiveStatus == {"pending", "running", "committing", "retry_wait"}
Status == ActiveStatus \union
    {"unborn", "succeeded", "failed", "dead_letter", "cancelled"}

Unborn == [status |-> "unborn", cancel |-> FALSE, live |-> FALSE, attempt |-> 0,
           cursor |-> 0, start |-> 0, rev |-> 0, cleanup |-> FALSE]

\* A manifest names the files and the fencing token it was made under: here
\* the changes and the attempt.
NoHand == [row |-> None, obj |-> None, ix |-> 0]

NoIndex == [status |-> "none", node |-> None, kb |-> FALSE, content |-> {}]

Idle == [pc |-> "idle", job |-> 0, tok |-> FALSE, kb |-> FALSE, cur |-> 0,
         stage |-> {}, att |-> 0, auth |-> FALSE, ix |-> 0, sub |-> FALSE,
         out |-> "none"]

Init ==
    /\ job = [j \in Jobs |-> Unborn]
    /\ hand = [j \in Jobs |-> NoHand]
    /\ index = [j \in Jobs |-> [i \in 1 .. MaxIndexJobs |-> NoIndex]]
    /\ conn = [enabled |-> TRUE, rev |-> 0, leaving |-> FALSE]
    /\ ckpt = 0 /\ head = {} /\ published = {}
    /\ kb = "free"
    /\ wk = [n \in Nodes |-> Idle]
    /\ req = None
    /\ avail = 0
    /\ faults = 0
    /\ kept = TRUE

Active(j) == job[j].status \in ActiveStatus
AnyActive == \E j \in Jobs : Active(j)

\* The connection still exists, is enabled and is the revision the job froze.
Admitted(j) == conn.enabled /\ conn.rev = job[j].rev

\* The worker's mutation lease is the current one and has not run out.
KbLive(n) == wk[n].kb /\ kb = "held"

\* The predicate of heartbeat, checkpoint, fail and mark_cancelled.
LeaseLive(n, S) ==
    LET j == wk[n].job
    IN  wk[n].tok /\ job[j].live /\ job[j].status \in S

Intact(j) == hand[j].row # None /\ hand[j].obj = hand[j].row

At(n, pc) == wk[n].pc = pc
Goto(n, pc) == wk' = [wk EXCEPT ![n].pc = pc]

\* An exception: the runtime aborts the sink and then settles the job.  What
\* the attempt had read is of no further use.
Raised(w, out) == [Idle EXCEPT !.pc = "abort", !.job = w.job, !.tok = w.tok, !.kb = w.kb,
                              !.auth = w.auth, !.out = out]
Raise(n, out) == wk' = [wk EXCEPT ![n] = Raised(@, out)]

----------------------------------------------------------------------------
(* The provider and the control plane *)

Change ==
    /\ avail < MaxChanges
    /\ avail' = avail + 1
    /\ UNCHANGED << job, hand, index, conn, ckpt, head, published, kb, wk, req, faults >>

\* submit reads the connection and the checkpoint...
ReadCheckpoint ==
    /\ req = None
    /\ conn.enabled
    /\ \E j \in Jobs : job[j].status = "unborn"
    /\ req' = [cursor |-> ckpt, rev |-> conn.rev]
    /\ UNCHANGED << job, hand, index, conn, ckpt, head, published, kb, wk, avail, faults >>

\* ...and create_if_idle returns the active job or inserts a new one.
FreshId == CHOOSE j \in Jobs :
    job[j].status = "unborn" /\ \A i \in 1 .. (j - 1) : job[i].status # "unborn"

Created(cursor, rev) ==
    [Unborn EXCEPT !.status = "pending", !.cursor = cursor, !.start = cursor, !.rev = rev]

CreateIfIdle ==
    /\ req # None
    /\ AnyActive \/ \E j \in Jobs : job[j].status = "unborn"
    /\ job' = IF AnyActive THEN job
              ELSE [job EXCEPT ![FreshId] = Created(req.cursor, req.rev)]
    /\ req' = None
    /\ UNCHANGED << hand, index, conn, ckpt, head, published, kb, wk, avail, faults >>

\* replay_dead_letter starts from the checkpoint of its own transaction.
Replay(j) ==
    /\ job[j].status = "dead_letter"
    /\ conn.enabled
    /\ ~AnyActive
    /\ \E i \in Jobs : job[i].status = "unborn"
    /\ job' = [job EXCEPT ![FreshId] = Created(ckpt, conn.rev)]
    /\ UNCHANGED << hand, index, conn, ckpt, head, published, kb, wk, req, avail, faults >>

\* Cancelled at once unless a live worker has to be told; a committing or a
\* finished job is left alone.
CancelledRow(r) ==
    IF r.status \in {"pending", "retry_wait"} \/ (r.status = "running" /\ ~r.live)
    THEN [r EXCEPT !.status = "cancelled", !.cancel = TRUE]
    ELSE IF r.status = "running" THEN [r EXCEPT !.cancel = TRUE] ELSE r

RequestCancel(j) ==
    /\ Active(j)
    /\ job' = [job EXCEPT ![j] = CancelledRow(@)]
    /\ UNCHANGED << hand, index, conn, ckpt, head, published, kb, wk, req, avail, faults >>

\* Disabling revokes every job before the commit boundary in one transaction,
\* is refused while one is past it, and then writes the connection.
CancelConnection ==
    /\ conn.enabled /\ ~conn.leaving
    /\ conn.rev < MaxSwitches
    /\ \A j \in Jobs : job[j].status # "committing"
    /\ job' = [j \in Jobs |-> CancelledRow(job[j])]
    /\ conn' = [conn EXCEPT !.leaving = TRUE]
    /\ UNCHANGED << hand, index, ckpt, head, published, kb, wk, req, avail, faults >>

SetEnabled(enabled) ==
    /\ IF enabled THEN ~conn.enabled /\ conn.rev < MaxSwitches ELSE conn.leaving
    /\ conn' = [enabled |-> enabled, rev |-> conn.rev + 1, leaving |-> FALSE]
    /\ UNCHANGED << job, hand, index, ckpt, head, published, kb, wk, req, avail, faults >>

----------------------------------------------------------------------------
(* Starting an attempt *)

\* A job whose connection was revoked is cancelled before anything is built.
Refuse(n, j) ==
    /\ At(n, "idle")
    /\ Active(j) /\ job[j].status # "committing" /\ ~Admitted(j)
    /\ CancelledRow(job[j]) # job[j]
    /\ job' = [job EXCEPT ![j] = CancelledRow(@)]
    /\ UNCHANGED << hand, index, conn, ckpt, head, published, kb, wk, req, avail, faults >>

\* Mutant: a job that stopped after its commit boundary is not offered again.
RunnableBeforeCommit(j) ==
    \/ job[j].status \in {"pending", "retry_wait"}
    \/ job[j].status = "running" /\ ~job[j].live

\* acquire accepts a committing job only to recover its commit.
Runnable(j) ==
    \/ job[j].status \in {"pending", "retry_wait"}
    \/ job[j].status \in {"running", "committing"} /\ ~job[j].live

\* The execution context takes the knowledge base's lease, which revokes the
\* previous holder's, and materialises the published head.
Enter(n, j) ==
    /\ At(n, "idle")
    /\ Active(j)
    /\ job[j].status = "committing" \/ Admitted(j)
    /\ kb # "held"
    /\ kb' = "held"
    /\ wk' = [m \in Nodes |->
                 IF m = n THEN [Idle EXCEPT !.pc = "entered", !.job = j, !.kb = TRUE,
                                            !.stage = head]
                 ELSE [wk[m] EXCEPT !.kb = FALSE]]
    /\ index' = [k \in Jobs |-> [i \in 1 .. MaxIndexJobs |->
                    [index[k][i] EXCEPT !.kb = FALSE]]]
    /\ UNCHANGED << job, hand, conn, ckpt, head, published, req, avail, faults >>

\* Mutant: the attempt resumes at the page the previous one had reached.
AcquiredResuming(r) ==
    IF r.status = "committing" THEN [r EXCEPT !.live = TRUE]
    ELSE [r EXCEPT !.status = "running", !.live = TRUE, !.attempt = @ + 1]

\* The row an acquisition leaves: an attempt that restarts reads the provider
\* from the cursor the job was created with.
Acquired(r) ==
    IF r.status = "committing" THEN [r EXCEPT !.live = TRUE]
    ELSE [r EXCEPT !.status = "running", !.live = TRUE, !.attempt = @ + 1,
                   !.cursor = r.start]

\* A new token voids the one another worker may still hold.
TakeToken(n, rec) ==
    wk' = [m \in Nodes |->
              IF m = n THEN rec
              ELSE IF wk[m].job = wk[n].job THEN [wk[m] EXCEPT !.tok = FALSE]
              ELSE wk[m]]

\* acquire and sink.begin: a recovery restores the staging directory from the
\* hand-off and keeps away from the provider.
Acquire(n) ==
    LET j == wk[n].job
        r == Acquired(job[j])
    IN  /\ At(n, "entered")
        /\ ~job[j].cancel
        /\ Runnable(j)
        /\ job[j].status = "committing" \/ Admitted(j)
        /\ job' = [job EXCEPT ![j] = r]
        /\ TakeToken(n,
             IF job[j].status # "committing"
             THEN [wk[n] EXCEPT !.pc = "paging", !.tok = TRUE, !.cur = r.cursor,
                                !.att = r.attempt]
             ELSE IF Intact(j) /\ KbLive(n)
             THEN [wk[n] EXCEPT !.pc = "commit", !.tok = TRUE, !.cur = r.cursor,
                                !.auth = TRUE, !.ix = hand[j].ix,
                                !.stage = hand[j].row.content]
             ELSE Raised([wk[n] EXCEPT !.tok = TRUE, !.auth = TRUE], "preserve"))
        /\ UNCHANGED << hand, index, conn, ckpt, head, published, kb, req, avail, faults >>

\* The context ends: the worker gives its mutation lease back if it has it.
Released(n) == kb' = IF KbLive(n) THEN "free" ELSE kb
Left(n) == wk' = [wk EXCEPT ![n] = Idle]

\* acquire turns the job away: a requested cancellation becomes final in the
\* same transaction, an admission that has gone requests one.
TurnAway(n) ==
    LET j == wk[n].job
    IN  /\ At(n, "entered")
        /\ \/ /\ job[j].cancel \/ ~Runnable(j)
              /\ job' = IF job[j].cancel THEN [job EXCEPT ![j].status = "cancelled"] ELSE job
           \/ /\ job[j].status # "committing" /\ ~Admitted(j)
              /\ job' = [job EXCEPT ![j] = CancelledRow(@)]
        /\ Released(n) /\ Left(n)
        /\ UNCHANGED << hand, index, conn, ckpt, head, published, req, avail, faults >>

----------------------------------------------------------------------------
(* Reading the provider *)

Revoked(n) == job[wk[n].job].cancel \/ ~Admitted(wk[n].job)

\* One turn of the loop: the guard, a page into the private staging directory
\* and the checkpoint; the last page is the one that reaches the log's end.
Page(n) ==
    LET j == wk[n].job
        next == IF wk[n].cur < avail THEN wk[n].cur + 1 ELSE wk[n].cur
    IN  /\ At(n, "paging")
        /\ LeaseLive(n, {"running"}) /\ ~Revoked(n)
        /\ job' = [job EXCEPT ![j].cursor = next]
        /\ wk' = [wk EXCEPT ![n].cur = next,
                            ![n].stage = IF next = wk[n].cur THEN @ ELSE @ \union {next},
                            ![n].pc = IF next = avail THEN "prepare" ELSE "paging"]
        /\ UNCHANGED << hand, index, conn, ckpt, head, published, kb, req, avail, faults >>

\* The guard finds the lease gone or the job revoked.
Guarded(n) ==
    /\ wk[n].pc \in {"paging", "prepare"}
    /\ IF LeaseLive(n, {"running"}) THEN Revoked(n) /\ Raise(n, "cancel")
       ELSE Raise(n, "fail")
    /\ UNCHANGED << job, hand, index, conn, ckpt, head, published, kb, req, avail, faults >>

\* An error of the provider or of the sink before the boundary; a retryable
\* one is retried until the attempts are used up.
Err(n) ==
    /\ wk[n].pc \in {"paging", "prepare", "upload", "insert", "cross"}
    /\ faults < MaxFaults
    /\ faults' = faults + 1
    /\ \E out \in {IF wk[n].att < MaxAttempts THEN "retry" ELSE "dead", "fail"} :
          Raise(n, out)
    /\ UNCHANGED << job, hand, index, conn, ckpt, head, published, kb, req, avail >>

----------------------------------------------------------------------------
(* The hand-off and the commit boundary *)

Manifest(n) == [content |-> wk[n].stage, attempt |-> wk[n].att]

\* prepare looks at the mutation lease once...
CheckLease(n) ==
    /\ At(n, "prepare")
    /\ LeaseLive(n, {"running"}) /\ ~Revoked(n)
    /\ IF KbLive(n) THEN Goto(n, "upload") ELSE Raise(n, "fail")
    /\ UNCHANGED << job, hand, index, conn, ckpt, head, published, kb, req, avail, faults >>

\* ...uploads the files and the manifest under the job's own keys...
Upload(n) ==
    /\ At(n, "upload")
    /\ hand' = [hand EXCEPT ![wk[n].job].obj = Manifest(n)]
    /\ Goto(n, "insert")
    /\ UNCHANGED << job, index, conn, ckpt, head, published, kb, req, avail, faults >>

\* ...and inserts the row unless there is one, which must be its own.
Insert(n) ==
    LET j == wk[n].job
        row == IF hand[j].row = None THEN Manifest(n) ELSE hand[j].row
    IN  /\ At(n, "insert")
        /\ hand' = [hand EXCEPT ![j].row = row]
        /\ IF row = Manifest(n) THEN Goto(n, "cross") ELSE Raise(n, "fail")
        /\ UNCHANGED << job, index, conn, ckpt, head, published, kb, req, avail, faults >>

\* Mutant: the boundary checks the lease and forgets the cancellation.
MayCrossAnyway(n) == LeaseLive(n, {"running"})

\* prepare_commit: past this point the job can no longer be cancelled.
MayCross(n) == LeaseLive(n, {"running"}) /\ ~job[wk[n].job].cancel

Cross(n) ==
    LET j == wk[n].job
    IN  /\ At(n, "cross")
        /\ IF MayCross(n)
           THEN /\ job' = [job EXCEPT ![j].status = "committing"]
                /\ wk' = [wk EXCEPT ![n].pc = "commit", ![n].auth = TRUE]
           ELSE /\ Raise(n, IF job[j].cancel THEN "cancel" ELSE "fail")
                /\ UNCHANGED job
        /\ UNCHANGED << hand, index, conn, ckpt, head, published, kb, req, avail, faults >>

----------------------------------------------------------------------------
(* The commit, by the worker that crossed or by the one that recovers it *)

\* Journal, heartbeat, swap of the directory and its side effects.  Writing a
\* phase needs the row and the mutation lease, the rest the job's lease.
CommitLive(n) ==
    /\ hand[wk[n].job].row # None
    /\ KbLive(n)
    /\ LeaseLive(n, {"committing"})

Materialize(n) ==
    /\ At(n, "commit")
    /\ IF CommitLive(n) THEN Goto(n, IF wk[n].ix = 0 THEN "submit" ELSE "poll")
       ELSE Raise(n, "preserve")
    /\ UNCHANGED << job, hand, index, conn, ckpt, head, published, kb, req, avail, faults >>

\* The key of an index job is the one before it in the chain, so asking again
\* after a crash returns the job that was accepted.
SubmitIndex(n) ==
    LET j == wk[n].job
        i == wk[n].ix + 1
    IN  /\ At(n, "submit")
        /\ i <= MaxIndexJobs
        /\ IF KbLive(n)
           THEN /\ index' = IF index[j][i] # NoIndex THEN index
                            ELSE [index EXCEPT ![j][i] =
                                     [status |-> "pending", node |-> n, kb |-> TRUE,
                                      content |-> wk[n].stage]]
                /\ Goto(n, "record")
           ELSE Raise(n, "preserve") /\ UNCHANGED index
        /\ UNCHANGED << job, hand, conn, ckpt, head, published, kb, req, avail, faults >>

RecordIndex(n) ==
    LET j == wk[n].job
    IN  /\ At(n, "record")
        /\ IF hand[j].row # None /\ KbLive(n)
           THEN /\ hand' = [hand EXCEPT ![j].ix = wk[n].ix + 1]
                /\ wk' = [wk EXCEPT ![n].pc = "poll", ![n].ix = @ + 1, ![n].sub = TRUE]
           ELSE Raise(n, "preserve") /\ UNCHANGED hand
        /\ UNCHANGED << job, index, conn, ckpt, head, published, kb, req, avail, faults >>

\* A failed job of an earlier attempt is replaced, one of this attempt is not;
\* success ends the commit if its last phase can still be written.
Poll(n) ==
    LET status == index[wk[n].job][wk[n].ix].status
    IN  /\ At(n, "poll")
        /\ IF ~LeaseLive(n, {"committing"}) \/ (status = "failed" /\ wk[n].sub)
           THEN Raise(n, "preserve")
           ELSE /\ status \in {"failed", "succeeded"}
                /\ IF status = "failed" THEN Goto(n, "submit")
                   ELSE IF CommitLive(n) THEN Goto(n, "complete")
                   ELSE Raise(n, "preserve")
        /\ UNCHANGED << job, hand, index, conn, ckpt, head, published, kb, req, avail, faults >>

Orphaned(x) == x.status = "pending" /\ x.node = None

\* The wait for an index job that nobody runs ends at its deadline.
Timeout(n) ==
    /\ At(n, "poll")
    /\ Orphaned(index[wk[n].job][wk[n].ix])
    /\ Raise(n, "preserve")
    /\ UNCHANGED << job, hand, index, conn, ckpt, head, published, kb, req, avail, faults >>

\* An error after the boundary: of the disk, a store or a slow index job.
Fail(n) ==
    /\ wk[n].pc \in {"commit", "submit", "poll"}
    /\ faults < MaxFaults
    /\ faults' = faults + 1
    /\ Raise(n, "preserve")
    /\ UNCHANGED << job, hand, index, conn, ckpt, head, published, kb, req, avail >>

\* complete asks for the token and not for the lease's time.
Complete(n) ==
    LET j == wk[n].job
    IN  /\ At(n, "complete")
        /\ IF wk[n].tok /\ job[j].status = "committing"
           THEN /\ job' = [job EXCEPT ![j].status = "succeeded", ![j].live = FALSE,
                                      ![j].cursor = wk[n].cur, ![j].cleanup = TRUE]
                /\ ckpt' = wk[n].cur
                /\ wk' = [wk EXCEPT ![n].pc = "finalize", ![n].tok = FALSE]
           ELSE Raise(n, "preserve") /\ UNCHANGED << job, ckpt >>
        /\ UNCHANGED << hand, index, conn, head, published, kb, req, avail, faults >>

\* Collecting a hand-off: nothing to do without a row, whoever asks.
Collected(h) == IF h.row = None THEN h ELSE NoHand

Finalize(n) ==
    /\ At(n, "finalize")
    /\ hand' = [hand EXCEPT ![wk[n].job] = Collected(@)]
    /\ job' = [job EXCEPT ![wk[n].job].cleanup = FALSE]
    /\ Released(n) /\ Left(n)
    /\ UNCHANGED << index, conn, ckpt, head, published, req, avail, faults >>

\* Maintenance finishes what a crash after complete left behind.
CleanTerminal(j) ==
    /\ job[j].status = "succeeded" /\ job[j].cleanup
    /\ hand' = [hand EXCEPT ![j] = Collected(@)]
    /\ job' = [job EXCEPT ![j].cleanup = FALSE]
    /\ UNCHANGED << index, conn, ckpt, head, published, kb, wk, req, avail, faults >>

----------------------------------------------------------------------------
(* The end of an attempt that raised *)

\* sink.abort: before the boundary the hand-off goes, by the job's name.
Abort(n) ==
    /\ At(n, "abort")
    /\ hand' = IF wk[n].auth THEN hand
               ELSE [hand EXCEPT ![wk[n].job] = Collected(@)]
    /\ Goto(n, "settle")
    /\ UNCHANGED << job, index, conn, ckpt, head, published, kb, req, avail, faults >>

\* Mutant: a failure after the boundary is retried from the provider.
OutcomeReplaying(out) ==
    CASE out = "cancel" -> "cancelled"
      [] out \in {"retry", "preserve"} -> "retry_wait"
      [] out = "dead" -> "dead_letter"
      [] out = "fail" -> "failed"

\* What fail and mark_cancelled write when the lease is still the worker's.
Outcome(out) ==
    CASE out = "cancel" -> "cancelled"
      [] out = "retry" -> "retry_wait"
      [] out = "dead" -> "dead_letter"
      [] out = "fail" -> "failed"
      [] out = "preserve" -> "committing"

Settle(n) ==
    LET j == wk[n].job
        out == wk[n].out
        from == CASE out = "cancel" -> {"running"}
                  [] out = "preserve" -> {"committing"}
                  [] OTHER -> {"running", "committing"}
    IN  /\ At(n, "settle")
        /\ job' = IF ~LeaseLive(n, from) THEN job
                  ELSE [job EXCEPT ![j].status = Outcome(out), ![j].live = FALSE,
                                   ![j].cancel = @ \/ out = "cancel"]
        /\ Released(n) /\ Left(n)
        /\ UNCHANGED << hand, index, conn, ckpt, head, published, req, avail, faults >>

----------------------------------------------------------------------------
(* Index jobs: a node's executor claims its own, publishes the directory under *)
(* the lease delegated to it, and reports                                      *)

\* A job that ended needs neither its node nor its lease any more.
IndexStep(j, i, status) ==
    index' = [index EXCEPT ![j][i] =
                 IF status \in {"succeeded", "failed"} THEN [NoIndex EXCEPT !.status = status]
                 ELSE [@ EXCEPT !.status = status]]

ClaimIndex(j, i) ==
    /\ index[j][i].status = "pending" /\ index[j][i].node # None
    /\ IndexStep(j, i, "running")
    /\ UNCHANGED << job, hand, conn, ckpt, head, published, kb, wk, req, avail, faults >>

PublishIndex(j, i) ==
    /\ index[j][i].status = "running" /\ index[j][i].node # None
    /\ IF index[j][i].kb /\ kb = "held"
       THEN /\ head' = index[j][i].content
            /\ published' = published \union {j}
            /\ IndexStep(j, i, "built")
       ELSE /\ IndexStep(j, i, "failed")
            /\ UNCHANGED << head, published >>
    /\ UNCHANGED << job, hand, conn, ckpt, kb, wk, req, avail, faults >>

ReportIndex(j, i) ==
    /\ index[j][i].status = "built" /\ index[j][i].node # None
    /\ IndexStep(j, i, "succeeded")
    /\ UNCHANGED << job, hand, conn, ckpt, head, published, kb, wk, req, avail, faults >>

\* reconcile_orphans fails a running job whose node is gone, and only those.
ReconcileIndex(j, i) ==
    /\ index[j][i].status \in {"running", "built"} /\ index[j][i].node = None
    /\ IndexStep(j, i, "failed")
    /\ UNCHANGED << job, hand, conn, ckpt, head, published, kb, wk, req, avail, faults >>

----------------------------------------------------------------------------
(* Faults *)

Crash(n) ==
    /\ faults < MaxFaults
    /\ ~At(n, "idle") \/ \E j \in Jobs, i \in 1 .. MaxIndexJobs : index[j][i].node = n
    /\ faults' = faults + 1
    /\ wk' = [wk EXCEPT ![n] = Idle]
    /\ index' = [j \in Jobs |-> [i \in 1 .. MaxIndexJobs |->
                    IF index[j][i].node = n THEN [index[j][i] EXCEPT !.node = None]
                    ELSE index[j][i]]]
    /\ UNCHANGED << job, hand, conn, ckpt, head, published, kb, req, avail >>

\* A worker held up for too long loses its job lease, its mutation lease or
\* both, and does not know it.
Stall(n) ==
    LET j == wk[n].job
    IN  /\ faults < MaxFaults
        /\ \E lost \in SUBSET {"job", "kb"} :
              /\ lost # {}
              /\ "job" \in lost => LeaseLive(n, {"running", "committing"})
              /\ "kb" \in lost => KbLive(n)
              /\ job' = IF "job" \in lost THEN [job EXCEPT ![j].live = FALSE] ELSE job
              /\ kb' = IF "kb" \in lost THEN "lapsed" ELSE kb
        /\ faults' = faults + 1
        /\ UNCHANGED << hand, index, conn, ckpt, head, published, wk, req, avail >>

\* The lease of a holder that is gone runs out.
ExpireJob(j) ==
    /\ job[j].live
    /\ \A n \in Nodes : ~(wk[n].tok /\ wk[n].job = j)
    /\ job' = [job EXCEPT ![j].live = FALSE]
    /\ UNCHANGED << hand, index, conn, ckpt, head, published, kb, wk, req, avail, faults >>

ExpireKb ==
    /\ kb = "held"
    /\ \A n \in Nodes : ~wk[n].kb
    /\ kb' = "lapsed"
    /\ UNCHANGED << job, hand, index, conn, ckpt, head, published, wk, req, avail, faults >>

----------------------------------------------------------------------------
Prepare(n) == Page(n) \/ Guarded(n) \/ CheckLease(n) \/ Upload(n) \/ Insert(n) \/ Cross(n)
Commit(n) ==
    \/ Materialize(n) \/ SubmitIndex(n) \/ RecordIndex(n) \/ Poll(n)
    \/ Timeout(n) \/ Complete(n) \/ Finalize(n)
Work(n) == Acquire(n) \/ TurnAway(n) \/ Prepare(n) \/ Commit(n) \/ Abort(n) \/ Settle(n)

Executor(j, i) ==
    ClaimIndex(j, i) \/ PublishIndex(j, i) \/ ReportIndex(j, i) \/ ReconcileIndex(j, i)

Step ==
    \/ Change \/ ReadCheckpoint \/ CreateIfIdle \/ CancelConnection
    \/ \E enabled \in BOOLEAN : SetEnabled(enabled)
    \/ ExpireKb
    \/ \E j \in Jobs : Replay(j) \/ RequestCancel(j) \/ CleanTerminal(j) \/ ExpireJob(j)
    \/ \E n \in Nodes : Work(n) \/ Err(n) \/ Fail(n) \/ Crash(n) \/ Stall(n)
    \/ \E n \in Nodes, j \in Jobs : Refuse(n, j) \/ Enter(n, j)
    \/ \E j \in Jobs, i \in 1 .. MaxIndexJobs : Executor(j, i)

\* What the hand-off is for: a job past the commit boundary can be recovered
\* from it, by any node, as the attempt that crossed left it
\* (ha/connector_commit.py, DistributedConnectorCommitStore).  The code does
\* not keep it in every order: the abort of a worker that lost its lease
\* deletes the hand-off by the job's name, which by then is that of the next
\* attempt, and a worker that was held up between its look at the lease and its
\* upload puts its own in that place.
HandoffKept ==
    \A j \in Jobs : job[j].status = "committing" =>
        Intact(j) /\ hand[j].row.attempt = job[j].attempt

Next == Step /\ kept' = (kept /\ HandoffKept')

Spec == Init /\ [][Next]_<<vars, kept>>

\* Threads run, the manager dispatches the connection's active job again
\* until it ends, and a lease nobody renews runs out.
Fairness ==
    /\ \A n \in Nodes : WF_vars(Work(n))
    /\ WF_vars(\E n \in Nodes, j \in Jobs : Refuse(n, j) \/ Enter(n, j))
    /\ WF_vars(ExpireKb \/ \E j \in Jobs : ExpireJob(j))
    /\ WF_vars(\E j \in Jobs, i \in 1 .. MaxIndexJobs : Executor(j, i))

FairSpec == Spec /\ Fairness

----------------------------------------------------------------------------
(* Properties *)

ManifestType == [content : Contents, attempt : Nat] \union {None}
JobRow == [status : Status, cancel : BOOLEAN, live : BOOLEAN, attempt : Nat,
           cursor : Cursors, start : Cursors, rev : 0 .. MaxSwitches,
           cleanup : BOOLEAN]
HandRow == [row : ManifestType, obj : ManifestType, ix : 0 .. MaxIndexJobs]
IndexRow == [status : {"none", "pending", "running", "built", "succeeded", "failed"},
             node : Nodes \union {None}, kb : BOOLEAN, content : Contents]
Worker == [pc : {"idle", "entered", "paging", "prepare", "upload", "insert", "cross",
                 "commit", "submit", "record", "poll", "complete", "finalize",
                 "abort", "settle"},
           job : 0 .. MaxJobs, tok : BOOLEAN, kb : BOOLEAN, cur : Cursors,
           stage : Contents, att : Nat, auth : BOOLEAN, ix : 0 .. MaxIndexJobs,
           sub : BOOLEAN,
           out : {"none", "cancel", "retry", "dead", "fail", "preserve"}]

\* Every variable holds what its table or object holds.
TypeOK ==
    /\ job \in [Jobs -> JobRow]
    /\ hand \in [Jobs -> HandRow]
    /\ index \in [Jobs -> [1 .. MaxIndexJobs -> IndexRow]]
    /\ conn \in [enabled : BOOLEAN, rev : 0 .. MaxSwitches, leaving : BOOLEAN]
    /\ ckpt \in Cursors /\ head \in Contents /\ published \subseteq Jobs
    /\ kb \in {"free", "held", "lapsed"}
    /\ wk \in [Nodes -> Worker]
    /\ req \in [cursor : Cursors, rev : 0 .. MaxSwitches] \union {None}
    /\ avail \in Cursors /\ faults \in 0 .. MaxFaults /\ kept \in BOOLEAN

\* The cursor a connection resumes from never runs ahead of what was
\* published: every change before the checkpoint is in the current source
\* generation, whatever attempts were cut short, restarted or recovered on
\* another node in between (acquire's reset of the cursor, prepare_commit,
\* recover_commit and complete).
CheckpointCovers == 1 .. ckpt \subseteq head

\* ...as long as every hand-off was what it is for.  Without that three workers
\* suffice to publish an older snapshot under a newer cursor.
CoveredWhileKept == kept => CheckpointCovers

\* A cancellation that was accepted holds: the job never crosses the commit
\* boundary afterwards (request_cancel against prepare_commit).
CancelHolds ==
    \A j \in Jobs : job[j].cancel => job[j].status \notin {"committing", "succeeded"}

\* A job that ends as cancelled, failed or dead letter published nothing: once
\* a snapshot may be visible the only way out is success (preserve_committing).
NoGhostPublication ==
    \A j \in Jobs :
        job[j].status \in {"cancelled", "failed", "dead_letter", "retry_wait"} => j \notin published

\* The two ways a commit loses the means of its recovery: its hand-off is
\* gone or overwritten, or the index job it waits for was created by a node
\* that stopped before claiming it.
Bereft(j) ==
    /\ job[j].status = "committing"
    /\ \/ ~Intact(j)
       \/ \E i \in 1 .. MaxIndexJobs : Orphaned(index[j][i])

\* Every job ends, however often its workers stop, its leases lapse or its
\* commit fails half-way, unless its commit lost the means of its recovery
\* (recover, acquire, recover_commit, _build_index).  As there are finitely
\* many jobs, a moment comes in which no other is active.
EveryJobEnds ==
    LET Settled == \A j \in Jobs : Active(j) => Bereft(j)
    IN  ~Settled ~> Settled
=============================================================================
