---------------------------- MODULE IndexPipeline ----------------------------
(***************************************************************************)
(* The hand-off of a prepared index generation through the work queue:      *)
(* `cogdoc-ha enqueue-index` builds, prepares and uploads a generation and   *)
(* enqueues a job that carries its id and lease token (ha/cli.py), and       *)
(* DistributedIndexWorker claims the job, takes the generation over and      *)
(* publishes it (ha/runtime.py).  It composes JobQueue and IndexGeneration:  *)
(* every step is a step of one or of both, or only moves a worker on.        *)
(***************************************************************************)
EXTENDS Integers

CONSTANTS
    Jobs, Workers,              \* as in JobQueue
    Gens, Builds,               \* as in IndexGeneration
    Producers,                  \* processes that run enqueue-index
    OwnerOf,                    \* the worker_id of each worker and producer
    Files, Contents,
    ReplayKeys, NoKey, None,
    MaxAttempts, MaxTokens,
    Lease, MaxBackoff, Retention, Lag, ReapLimit, PruneLimit,
    MaxFaults,                  \* bound on crashes and unrelated exceptions
    MaxReruns,                  \* bound on repetitions of enqueue-index
    Punctual                    \* the heartbeat thread is never late

VARIABLES
    jobs, keyRows, held, finishes, born,            \* JobQueue
    head, gens, files, marker, work, readers, gc,   \* IndexGeneration
    task,       \* where _execute is in each worker, and the payload it read
    faults,     \* crashes and unrelated exceptions so far
    reruns      \* repetitions of enqueue-index so far

\* The body of an index job: generation_id and generation_lease_token.
Handoff == [gen : Gens, token : 1..MaxTokens]

Builders == Workers \union Producers

Q == INSTANCE JobQueue WITH
        Keys <- Builds, Payloads <- Handoff

G == INSTANCE IndexGeneration WITH
        Readers <- {}, Collectors <- {}, ReaderLease <- 1

\* The constants are such as the queue and the generation store ask for, and a
\* worker is not also a producer.
ASSUME PipelineAssumption ==
    /\ MaxAttempts \in Nat \ {0}
    /\ MaxTokens \in Nat \ {0}
    /\ Lease \in Nat \ {0}
    /\ ReapLimit \in Nat \ {0}
    /\ PruneLimit \in Nat \ {0}
    /\ {MaxBackoff, Retention, Lag, MaxFaults, MaxReruns} \subseteq Nat
    /\ Workers \intersect Producers = {}
    /\ Builds \intersect (Jobs \X ReplayKeys) = {}
    /\ NoKey \notin Builds \union (Jobs \X ReplayKeys)
    /\ None \notin Jobs \union Handoff \union Q!KeyRow \union Q!Holding
    /\ None \notin Gens \union Contents \union Builds \union G!ReaderRow

qvars == <<jobs, keyRows, held, finishes, born>>
gvars == <<head, gens, files, marker, work, readers, gc>>
vars  == <<qvars, gvars, task, faults, reruns>>

Steps == {"none", "get", "renew", "resume", "run", "done",
          "replayed", "error"}
NoTask == [step |-> "none", gen |-> None, token |-> 0]

TypeOK ==
    /\ Q!TypeOK
    /\ G!TypeOK
    /\ task \in [Workers -> [step  : Steps,
                             gen   : Gens \union {None},
                             token : 0..MaxTokens]]
    /\ faults \in 0..MaxFaults
    /\ reruns \in 0..MaxReruns

Init ==
    /\ Q!Init
    /\ G!Init
    /\ task = [w \in Workers |-> NoTask]
    /\ faults = 0
    /\ reruns = 0

To(w, step) == task' = [task EXCEPT ![w].step = step]

-----------------------------------------------------------------------------
(* Producers *)

\* _prepare_generation: begin_build, prepare unless it is prepared, materialize.
PrepareGeneration(p) ==
    /\ \/ \E g \in Gens, build \in Builds, d \in 0..Lag : G!BeginNew(p, g, build, d)
       \/ \E c \in Contents :
             \/ \E d \in 0..Lag : G!Prepare(p, c, d)
             \/ G!Rebuild(p, c)
       \/ \E f \in Files : G!Upload(p, f)
       \/ G!PutMarker(p)
    /\ UNCHANGED <<qvars, task, faults, reruns>>

\* The command is run again for a build that has a generation.
Rerun(p) ==
    /\ reruns < MaxReruns
    /\ reruns' = reruns + 1
    /\ \E g \in Gens, d \in 0..Lag : G!BeginAgain(p, g, d) \/ G!BeginExpired(p, g, d)
    /\ UNCHANGED <<qvars, task, faults>>

\* enqueue: the job is keyed by the build and carries the capability; when the
\* key is known the call changes nothing.  The producer is done either way.
Enqueue(p, j) ==
    /\ work[p].pc = "check"
    /\ G!Verified(work[p].gen, work[p].manifest)
    /\ LET row  == gens[work[p].gen]
           body == [gen |-> work[p].gen, token |-> work[p].token]
       IN  \/ Q!Enqueue(j, row.build, body, 0)
           \/ keyRows[row.build] # None /\ UNCHANGED qvars
    /\ G!Quit(p)
    /\ UNCHANGED <<task, faults, reruns>>

\* The producer stops half-way.
GiveUp(p) ==
    /\ G!Quit(p)
    /\ UNCHANGED <<qvars, task, faults, reruns>>

-----------------------------------------------------------------------------
(* Workers *)

\* run_once claims a job and starts _execute with its payload.
Claim(w, j, d) ==
    /\ Q!Claim(w, j, d)
    /\ task' = [task EXCEPT ![w] = [step  |-> "get",
                                    gen   |-> jobs[j].payload.gen,
                                    token |-> jobs[j].payload.token]]
    /\ UNCHANGED <<gvars, faults, reruns>>

\* Mutant: a row under another token counts as already published.
GetTrusting(w) ==
    /\ task[w].step = "get"
    /\ LET row == gens[task[w].gen]
       IN  IF row.token # task[w].token \/ row.status = "published"
             THEN To(w, "replayed")
             ELSE To(w, "renew")
    /\ UNCHANGED <<qvars, gvars, faults, reruns>>

\* The row must exist and still have the token of the payload; a published row
\* ends the work.
Get(w) ==
    /\ task[w].step = "get"
    /\ LET row == gens[task[w].gen]
       IN  IF row.token # task[w].token THEN To(w, "error")
           ELSE IF row.status = "published" THEN To(w, "replayed")
           ELSE To(w, "renew")
    /\ UNCHANGED <<qvars, gvars, faults, reruns>>

\* Mutant: the token of the payload renews a lease that has expired.
RenewExpired(w, d) ==
    /\ task[w].step = "renew"
    /\ gens[task[w].gen].token = task[w].token
    /\ gens[task[w].gen].status \in G!Open
    /\ gens' = [gens EXCEPT ![task[w].gen].lease = Lease - d]
    /\ G!Carry(w, task[w].gen, gens[task[w].gen])
    /\ To(w, "run")
    /\ UNCHANGED <<qvars, head, files, marker, readers, gc, faults, reruns>>

\* heartbeat under the token of the payload, or else the fallback.
Renew(w, d) ==
    /\ task[w].step = "renew"
    /\ \/ /\ gens[task[w].gen].token = task[w].token
          /\ G!HandOver(w, task[w].gen, d)
          /\ To(w, "run")
       \/ /\ ~ /\ gens[task[w].gen].token = task[w].token
               /\ gens[task[w].gen].status \in G!Open
               /\ ~G!Past(gens[task[w].gen].lease, d)
          /\ To(w, "resume")
          /\ UNCHANGED gvars
    /\ UNCHANGED <<qvars, faults, reruns>>

\* resume_build rotates the capability of an expired lease, or raises.
Resume(w, d) ==
    /\ task[w].step = "resume"
    /\ LET g == task[w].gen
       IN  \/ /\ G!Resume(w, g, d)
              /\ To(w, "run")
           \/ /\ ~ /\ gens[g].status \in G!Open
                   /\ gens[g].fence = head.fence
                   /\ G!Past(gens[g].lease, d)
              /\ To(w, "error")
              /\ UNCHANGED gvars
    /\ UNCHANGED <<qvars, faults, reruns>>

\* A prepared generation is verified; lease_lost is looked at before publish.
Verify(w, d) ==
    /\ task[w].step = "run"
    /\ \/ G!Adopt(w)
       \/ ~held[w].lost /\ G!Check(w, d)
    /\ UNCHANGED <<qvars, task, faults, reruns>>

Publish(w, d) ==
    /\ task[w].step = "run"
    /\ G!Publish(w, d)
    /\ To(w, "done")
    /\ UNCHANGED <<qvars, faults, reruns>>

\* One of the conditions of verify or publish does not hold.
Refused(w, d) ==
    /\ task[w].step = "run"
    /\ \/ /\ work[w].pc = "begun"
          /\ work[w].manifest = None
       \/ /\ work[w].pc = "check"
          /\ \/ held[w].lost
             \/ ~G!Live(w, {"prepared"}, d)
             \/ ~G!Verified(work[w].gen, work[w].manifest)
       \/ /\ work[w].pc = "ready"
          /\ ~G!Publishable(w, d)
    /\ G!Quit(w)
    /\ To(w, "error")
    /\ UNCHANGED <<qvars, faults, reruns>>

\* Mutant: the result is written without the lease test.
FinishUnfenced(w, d) ==
    /\ task[w].step \in {"done", "replayed", "error"}
    /\ LET status == IF task[w].step = "error" THEN "dead_letter" ELSE "succeeded"
       IN  jobs' = [jobs EXCEPT ![held[w].job] = Q!Released(@, status, 0)]
    /\ finishes' = finishes + 1
    /\ held' = [held EXCEPT ![w] = None]
    /\ task' = [task EXCEPT ![w] = NoTask]
    /\ UNCHANGED <<keyRows, born, gvars, faults, reruns>>

\* The end of run_once: complete, or fail with a retry, or neither when the
\* lease was lost or the store refuses.
Finish(w, d) ==
    /\ \/ task[w].step \in {"done", "replayed"} /\ Q!Complete(w, d)
       \/ /\ task[w].step = "error"
          /\ \E delay \in 0..MaxBackoff : Q!Fail(w, d, TRUE, delay)
       \/ /\ task[w].step \in {"done", "replayed", "error"}
          /\ held[w].lost \/ ~Q!Owns(w, d)
          /\ Q!Drop(w)
    /\ task' = [task EXCEPT ![w] = NoTask]
    /\ UNCHANGED <<gvars, faults, reruns>>

\* keep_leases: the job's lease first, then the generation's once it is known.
KeepJob(w, d) ==
    /\ Q!Heartbeat(w, d)
    /\ UNCHANGED <<gvars, task, faults, reruns>>

KeepGeneration(w, d) ==
    /\ held[w] # None
    /\ ~held[w].lost
    /\ G!Heartbeat(w, d)
    /\ UNCHANGED <<qvars, task, faults, reruns>>

\* A heartbeat raises: the job's lease, or the generation's, is gone.  The
\* generation also stops being renewable the moment it is published.
KeepFails(w, d) ==
    /\ held[w] # None
    /\ \/ ~Q!Owns(w, d)
       \/ jobs[held[w].job].cancel
       \/ work[w].gen # None /\ ~G!Live(w, G!Open, d)
       \/ /\ task[w].step = "done"
          /\ gens[task[w].gen].status = "published"
    /\ Q!HeartbeatLost(w)
    /\ UNCHANGED <<gvars, task, faults, reruns>>

-----------------------------------------------------------------------------
(* Faults and time *)

\* The worker process dies, or an unrelated exception ends the attempt.
Fault(w) ==
    /\ faults < MaxFaults
    /\ faults' = faults + 1
    /\ UNCHANGED reruns
    /\ \/ /\ Q!Drop(w)
          /\ task' = [task EXCEPT ![w] = NoTask]
       \/ /\ task[w].step \in {"get", "renew", "resume", "run"}
          /\ To(w, "error")
          /\ UNCHANGED qvars
    /\ IF work[w].pc = "idle" THEN UNCHANGED gvars ELSE G!Quit(w)

\* With a punctual heartbeat thread no lease that a worker renews runs out.
InTime(w) ==
    held[w] # None /\ ~held[w].lost =>
        /\ Q!Owns(w, 0) => jobs[held[w].job].lease > 1
        /\ G!Live(w, G!Open, 0) => gens[work[w].gen].lease > 1

Tick ==
    /\ Q!Elapse
    /\ G!Elapse
    /\ <<jobs, gens>>' # <<jobs, gens>>
    /\ Punctual => \A w \in Workers : InTime(w)
    /\ UNCHANGED <<task, faults, reruns>>

Operate ==
    /\ \E j \in Jobs :
          \/ Q!RequestCancel(j)
          \/ \E source \in Jobs, rk \in ReplayKeys : Q!ReplayDeadLetter(j, source, rk)
    /\ UNCHANGED <<gvars, task, faults, reruns>>

Reap ==
    /\ Q!ReapSome
    /\ UNCHANGED <<gvars, task, faults, reruns>>

Prune ==
    /\ Q!PruneSome
    /\ UNCHANGED <<gvars, task, faults, reruns>>

Produce(p) ==
    \/ PrepareGeneration(p)
    \/ Rerun(p)
    \/ \E j \in Jobs : Enqueue(p, j)
    \/ GiveUp(p)

ClaimSome == \E w \in Workers, j \in Jobs, d \in 0..Lag : Claim(w, j, d)

Execute(w) ==
    \/ Get(w)
    \/ \E d \in 0..Lag :
          Renew(w, d) \/ Resume(w, d) \/ Verify(w, d) \/ Publish(w, d)
            \/ Refused(w, d) \/ Finish(w, d)

Keep(w) == \E d \in 0..Lag : KeepJob(w, d) \/ KeepGeneration(w, d)

Next ==
    \/ \E p \in Producers : Produce(p)
    \/ ClaimSome
    \/ \E w \in Workers :
          \/ Execute(w)
          \/ Keep(w)
          \/ \E d \in 0..Lag : KeepFails(w, d)
          \/ Fault(w)
    \/ Operate
    \/ Reap
    \/ Prune
    \/ Tick

Spec == Init /\ [][Next]_vars

(***************************************************************************)
(* Fairness: the worker and maintenance loops run forever, a worker's        *)
(* attempt goes on until it ends, its heartbeat thread keeps running, and    *)
(* time passes.  Nothing is promised of producers and operators.             *)
(***************************************************************************)
Fairness ==
    /\ WF_vars(Tick)
    /\ WF_vars(ClaimSome)
    /\ WF_vars(Reap)
    /\ \A w \in Workers :
          /\ WF_vars(Execute(w))
          /\ WF_vars(\E d \in 0..Lag : KeepJob(w, d))
          /\ WF_vars(\E d \in 0..Lag : KeepGeneration(w, d))

FairSpec == Spec /\ Fairness

-----------------------------------------------------------------------------
(* Properties *)

\* A job is reported as succeeded only when its generation has been published,
\* whichever of several workers, attempts and replays has done it.
SucceededPublished ==
    \A j \in Jobs : jobs[j].status = "succeeded" =>
        gens[jobs[j].payload.gen].status = "published"

\* Whatever the pipeline does to the queue is a step of the queue: no attempt
\* ends, replays or cancels a job in a way that LeaseJobStore does not offer.
ImplementsQueue == Q!Spec

\* Whatever the pipeline does to the generations is a step of the generation
\* store: taking a candidate over through a job payload opens no way around the
\* lease and the fence.
ImplementsGenerations == G!Spec

\* A generation that was handed to the queue is published in the end, unless
\* its job is cancelled or a newer build takes the fence: the commit marker is
\* written, and the failure table of the deployment guide promises that after a
\* crash the candidate is taken up again when its lease has expired.
Superseded(g) == gens[g].fence < head.fence

HandedOver(g) ==
    \E j \in Jobs : jobs[j].payload # None /\ jobs[j].payload.gen = g

Withdrawn(g) ==
    \E j \in Jobs : /\ jobs[j].payload # None /\ jobs[j].payload.gen = g
                    /\ jobs[j].cancel

Delivered ==
    \A g \in Gens :
        HandedOver(g) ~> (gens[g].status = "published" \/ Superseded(g) \/ Withdrawn(g))
=============================================================================
