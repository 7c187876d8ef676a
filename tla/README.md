# A TLA+ verification of CogDoc's coordination and recovery code

CogDoc answers questions over knowledge bases. In its high-availability mode
several API nodes, index workers and schedulers share one SQL database
(PostgreSQL, or SQLite for a single machine) and one object store, and nothing
else: all coordination is rows, leases, idempotency keys and object names. The
code that does this is `src/src/cogdoc/ha`, and it is what this project models
first. `docs/HA_DEPLOYMENT_zh-CN.md` states what it promises. On a single node
the same documents are kept by a write-ahead journal beside the source
directory, and connectors carry remote changes into either; research jobs read
what is indexed. All of these are modelled too.

All paths below are relative to `src/src/cogdoc` unless they start with `docs/` or `src/`.

## 1. Inventory

### The high-availability core

| Component | State | Operations | Interacts with |
|---|---|---|---|
| Job queue, `ha/tasks.py` | `ha_jobs` (status, attempt, lease, token, cancel flag), `ha_job_keys` | enqueue, claim, heartbeat, complete, fail, cancel, replay of a dead letter, reap, prune | index worker, scheduler, maintenance |
| Index generations, `ha/index_generation.py` | generation rows, head of a knowledge base, reader leases | begin, resume, heartbeat, prepare, publish, abort, pin, renew, release, collect | object store, worker, mirror, replica, maintenance |
| Index repository, `ha/object_store.py` | objects of a generation and its marker | upload, verify, delete | builders, collectors, readers |
| Index worker, `ha/runtime.py`, `ha/cli.py` | claim and generation lease in memory, lease-keeper thread | enqueue-index, run one job | queue and generations |
| Outbox, `ha/outbox.py` | `ha_outbox`, `ha_outbox_keys` | append in the caller's transaction, claim, heartbeat, finish, prune | publication, dispatchers, feeds |
| Invalidation feed, `ha/invalidation.py` | one cursor per node | poll, handle, advance, reconcile at start | outbox |
| Scheduler, `ha/scheduler.py` | schedules, fire ledger | upsert, enable, materialise due, dispatch pending, prune | queue |
| Maintenance, `ha/maintenance.py` | none of its own | reap, prune, collect | all of the above |
| Knowledge base state, `ha/api_state.py` | lifecycle, epoch, mutation lease with fencing token, index job rows | create, acquire, renew, assert, release | every job that changes documents, deletion |
| Source generations, `ha/source_generation.py` | source generations and heads | stage, publish jointly with the index, materialise | knowledge base state, mirror |
| Mirror and replica, `ha/index_mirror.py`, `ha/index_replica.py` | local copy | publish the local generation, reconcile, pin and materialise | generations, local ingest |
| Deletion saga, `ha/kb_deletion.py` | phase, epoch and frozen heads per knowledge base | fence, clean, finalise, resume | all stores |
| Source artifacts, `ha/source_artifact_store.py` | artifact rows, upload intents, scopes, objects | put, collect orphans, delete a scope | deletion saga |
| Connectors, `connectors/`, `ha/connector_commit.py` | sync jobs, checkpoint, hand-off, private staging directory | submit, acquire, page, prepare, commit, complete, abort, cancel, replay, recover | knowledge base lease, index jobs, source head |
| Quotas, `ha/tenant_quota.py` | reservations with leases | reserve, commit, release, expire | knowledge base state |
| Research jobs, `api/research_job_store.py`, `ha/research.py`, `service/research_execution.py` | job record with its sections, run controls and report; dispatch rows; runs in memory | start, resume, refresh, compile, pause, cancel, review, publish; claim, activate, heartbeat, reconcile; claim, complete and fail a section or report | index generations, API |
| Sessions, derived knowledge | rows with leases and revisions | claim, append, finish, review | API |

What is hard in all of them is the same: no component holds a lock while it
works, so any two of its transactions may be separated by another actor's; a
lease expires while its owner still works; a process stops between two
transactions; the clock is read before the transaction that uses it; an external
call (object store, consumer, cache) happens between transactions.

### One node

| Component | State | Operations | Interacts with |
|---|---|---|---|
| Index jobs, `api/ingest.py` | one command at a time per knowledge base | upload, delete a document, rebuild, roll back | journal, builder |
| Mutation journal, `service/mutation_journal.py` | one JSON entry for each file a job changes | begin, mark moved, committed or rolled back, clear, recover all | source directory, `state.json` |
| Generation pointer, `service/kb_state.py`, `service/ingest_service.py` | generations and the active one | build, record, switch, collect | index jobs, recovery |
| Deletion, `api/routes/documents.py` | lifecycle file, registry record | fence, tombstone, forget entries, erase, deregister | all of these |

Here what is hard is the crash: nothing spans two file operations.

### The rest

Authentication and access control (`api/`), the answer graph and agents,
retrieval tools, the Rust core, the front ends, configuration and telemetry.
`PROJECT.json` lists every component with its status.

### What makes each component correct

* Queue: a job is owned by one worker; a lost claim is powerless; a key yields
  one job for ever; a cancellation is not lost; every job ends.
* Generations: the current generation is complete and verified; the head only
  moves forward; a collector and a builder never disagree about a generation; a
  pinned generation keeps its objects while the pin's lease is kept; a take-over kills the former lease.
* Worker: success is reported for a published generation only, and a generation
  that was handed over is published.
* Outbox: delivered means received; one aggregate is delivered in order; nothing
  is stuck; a node's cursor never skips an event that was visible when it read.
* Scheduler: one job for each fire, whatever stops in between; missed runs are
  made up for by one fire; an enabled schedule fires, unless one that cannot fire breaks the polls.
* Knowledge base: one writer at a time counts, the one with the newest fencing
  token; a publication contains what it replaces; sources and index agree; a
  deletion ends, and nothing of the old incarnation moves a head or reappears.
* Local ingest: the source directory and the active generation agree whenever
  nothing is running, no document is ever beyond recovery, and a crashed process
  starts again.
* Connectors: the checkpoint never runs ahead of what was published; a
  commit is recovered from the snapshot of the attempt that crossed; a
  cancellation that was accepted holds; what was published is never reported as
  failed; every job ends.
* Research: evidence is added only by the attempt it belongs to and from the generation
  the record names, a report is of the
  evidence that stands, a user's pause or cancellation outlives every late
  answer, and no job stays running because a node or a dispatch was lost.

## 2. Modules

| Module | Models | Extends or instantiates |
|---|---|---|
| `JobQueue` | `LeaseJobStore`, the worker's claims, reaper and pruner | |
| `IndexGeneration` | `IndexGenerationStore`, `ObjectIndexRepository`, builders, readers, collectors | |
| `IndexPipeline` | enqueue-index and `DistributedIndexWorker` | instances of both above |
| `Outbox` | `OutboxStore`, `OutboxDispatcher`, `CacheInvalidationFeed` | |
| `Scheduler` | `ScheduleStore`, `DistributedScheduler` | instance of `JobQueue` |
| `KnowledgeBase` | registry, mutation lease, source generations, `HAIndexMirror`, deletion saga, artifact scope, on several nodes | |
| `ServedDocuments` | abstract: the documents that one knowledge base answers from, changed by whole jobs | |
| `LocalState` | the files, journal, generations and records of one node, and what must be true of them | instance of `ServedDocuments` |
| `LocalIngest` | index jobs, mutation journal, generation pointer, local deletion and recovery of one node | extends `LocalState` |
| `ConnectorSync` | `ConnectorSyncStore`, `ConnectorSyncRuntime`, `MaterializedSyncSink`, `DistributedConnectorCommitStore`, control plane and index jobs of one connection | |
| `ResearchJobs` | the record of one research job, `ResearchDispatchStore`, `ResearchExecutionManager` on several nodes, and the user's calls | |
| `MC...` | model values, symmetry and constraints for TLC | the module it names |
| `...Proofs` | the theorems and their proofs | the module it names, `TLAPS`; those of the pipeline and the scheduler also instantiate the proofs of the queue and the generations; `KnowledgeBaseProofs` also extends `LocalState`, instantiates `LocalIngest` as `L` and proves its theorems |

Some conventions are shared.

* **A transaction is one action.** Where the code uses several transactions, or
  calls the object store or a consumer between them, the model has as many
  actions, and what the code remembers in between is a variable (`held`,
  `work`, `gc`, `task`, `busy`, `polls`). Only the outbox separates the
  body of a transaction from its commit, because `created_at` is read inside
  and becomes visible at the commit.
* **Time is relative.** A deadline column holds the distance to the present;
  `Tick` brings every deadline nearer. The code reads its clock before it opens
  the transaction, so an operation sees a time that is `d` units old when it
  commits, with `d` in `0..Lag`.
  `KnowledgeBase` and `ConnectorSync` need no clock: there a lease is live or
  not, may expire whenever its holder's heartbeat could have stopped, and a
  token that someone replaced is no longer the current one.
* **Names are spent, not reused.** A uuid is a member of a finite set that is
  taken once; a row that was never inserted is `"unborn"`, one that was deleted
  is `"pruned"`, `"forgotten"` or `"void"`.
* **Mutants.** A definition marked *Mutant* is a plausible wrong version of the
  definition that follows it. It is not used by the specification; replacing the
  right one by it must break the property it was written for.

Correspondence of state: `jobs`, `keyRows` are `ha_jobs`, `ha_job_keys`, and `born`
is a history of the jobs that a key has produced; `gens`, `head`,
`readers` are the three tables of the generation store and `files`,
`marker` what the object store holds; `events`, `keyRows`, `offsets` are
`ha_outbox`, its keys and the cursor rows, with histories of what a consumer
(`received`) and a node (`seen`) have heard of, and of the events that became
visible behind what a node had read (`late`); a reader's `lapsed` is the history that its lease
has been over at some time, whoever renewed it later;
`schedules`, `fires` are the two tables of the scheduler.
In `KnowledgeBase`, `kb`, `deletion`, `lease`, `gens`, `head`, `builds`, `index`,
`scope` and `artifact` are rows of the shared database, `disk` is each
node's source directory with its `state.json`, and `work`, `saga`, `put` are what
threads remember between transactions; `granted` is a history of the epochs leases
were granted in. A lease is used for one job, so its fencing token also
names the document the job uploads and the generations it makes. In `LocalIngest`,
`file`, `backup`, `journal`, `generations`, `active` and `record` survive a crash, `job` and
`proc` do not; a file holds the number of the job that wrote it, or `Torn`. In
`ConnectorSync`, `job`, `hand`, `index`, `conn` and `ckpt` are tables and
`wk` the workers; the provider is a log of changes, a cursor a position in it, and
a snapshot the set of changes it contains, so that "nothing was skipped" can be said.
`published` is a history of the jobs whose snapshot became current, and `kept` says
whether every job past the commit boundary has had its own hand-off so far. In
`ResearchJobs`, `job` is the row, `disp` the dispatch rows by attempt, `run` what
the thread of a claim remembers, `call` the user calls between their
transactions, and `gen` the index generation that is served. Evidence is a pair,
the attempt that gathered it and the generation it was read from, and a report is
what it was written from. A runner is one claim, so that worker id and
dispatch token are one; the final states of a run control are one, and so are a
terminal, a pruned and an absent dispatch.

## 3. What TLC checks

Deadlock checking is off in every run: names and attempts are finite, so when
everything is used up and settled the system really rests.

| Run | Instance | States | Shows |
|---|---|---|---|
| `queue` | 2 jobs, 2 workers, 2 attempts, a key and a replay key, late clocks, batches of one, `FairSpec` | 264 thousand | `UniqueOwner`, `FencedFinish`, `CancelHonoured`, `ReplayOnce`, `OutcomeRemembered`, and every job ends |
| `generation` | 2 generations, 2 builders on 2 nodes, 2 builds, one of which is taken over or given up, a reader whose lease is twice a builder's, a collector, late clocks | 1.7 million | `CurrentServable`, `CollectedIsDead`, `ReaderProtected`, `HeadAdvances`, `TakeoverFences` |
| `pipeline_safety` | 1 producer, 2 workers with keeper threads, 2 jobs, one fault, one rerun | 212 thousand | `SucceededPublished`, and the pipeline implements `JobQueue` and `IndexGeneration` |
| `outbox` | 2 events of one or two aggregates, transactions that overlap, 2 dispatchers, 2 attempts, one node's feed, `FairSpec` | 152 thousand | `DeliveredReceived`, `OrderedDelivery`, `CursorCovers`, `Settles`, `EveryNodeHears` |
| `scheduler` | one schedule of any kind, a second one without a next run, 2 pollers, a crash, a switch, `FairSpec` | 71 thousand | `OneJobPerFire`, `CatchUp`, `EveryFireRuns`, `EveryScheduleFires`, and the scheduler implements `JobQueue` |
| `kb` | 2 nodes with a worker and a deleter each, 2 uploads of one artifact, 2 leases, 3 epochs, a deletion step that fails or a request that is repeated, `FairSpec` | 576 thousand | `FrozenHeads`, `CleanedIsEmpty`, `NoLostDocument`, `DeletionEnds` |
| `local_ingest` | 2 documents, 2 jobs, 2 incarnations, 2 crashes, 2 failing file operations, `FairSpec` | 500 thousand | `SourceMatchesActive`, `NothingLost`, `RestartsUnlessStuck`, and the node implements `ServedDocuments` |
| `connectors` | 2 nodes, 2 sync jobs, one change, 2 index jobs for each, one fault, two switches of the connection, `FairSpec` | 523 thousand | `CoveredWhileKept`, `CancelHolds`, `NoGhostPublication`, `EveryJobEnds` |
| `research` | one job of 2 sections, 2 claims in flight, 3 attempts, 2 index generations, 4 events (a call or an index switch counts one, a fault two), `FairSpec` | 360 thousand | `EvidenceOfItsAttempt`, `ReportMatches`, `UserWins`, `EveryRunEnds` |
| `pipeline_recovery` | one worker, one crash | | violated: `Delivered` |
| `kb_heads` | as `kb` | | violated: `HeadsAgree` |
| `local_crash` | one document, 2 jobs, one crash, nothing else fails | | violated: `CrashRecoverable` |

**Bounds.** Two actors of a kind are the smallest number that can conflict, and
two attempts the smallest with a lost claim followed by another. Two jobs are a
dead letter and its copy, or a job and the one that wrongly shares its key; two events
make an order. Two generations suffice for the head to move past a candidate, because
the store compares a candidate with the current generation only. A batch limit
of one makes every order of pruning possible that the code allows. A lease of
one unit lets every operation happen before and after its expiry.
`Lag` is 1 where a late reading matters and the instance stays small; where it
is 0 the theorems below cover the safety properties for every value. In `generation`
the reader's lease is longer than `Lag`, so that one can be renewed in time.
Two leases are a holder and the one who takes over; three epochs
are a knowledge base, its deletion and its next life. Two crashes let the process die in the recovery from
the first, and two failing operations let a rollback fail after the write that
caused it. One fault in `connectors` is a crash, a stall or an error at
any point of an attempt, which another node then takes up; one change suffices, as a cursor
is either before or behind it. One attempt there means that the only second
attempts are those that follow a lost lease, which are the interesting ones.
In `research` two sections are one that is kept and one that is still to come, two
claims a run and the one that takes over, and three attempts a gathering, its
refresh and a report. Four events are, for example, a start, a switch
of the index and a crash, or a start, a pause, a resume and a second pause; `Room` bounds
calls and faults together, so that they meet without all happening.

**Constraints.** `MCOutbox` and `MCScheduler` fix which of two interchangeable
identifiers is used first. The steps left out are renamings of those kept, and
appends and enqueues of a particular identifier are not subject to fairness, so every behaviour
has a renaming that is explored, also for liveness, where symmetry reduction would
not be sound. `MCKnowledgeBase` begins the deletion on the first of two
interchangeable nodes for the same reason, and explores index jobs and artifact uploads beside
the deletion one at a time (`OneKindOfWork`): no action of one reads or
writes what is the other's, and the actions that start either are not subject to
fairness. `kb_heads` uses neither constraint. `MCResearchJobs` admits one call
at a time beside pauses that have still to cancel the dispatches
(`OneCallBesidesPauses`): a second one would double the space, and a late pause is
the one whose second half undoes what a later call has queued.
The other three take from a second actor what the first has shown already. `Bounded` (`MCIndexGeneration`)
lets one build be taken over or given up, and not both. `OnceApart` (`MCOutbox`): the second aggregate is
there for transactions that overlap and for the feed that reads them, so while both are in
use one dispatcher claims each event once; two aggregates share nothing in the
delivery. `SecondBreaks` (`MCScheduler`): the second schedule is there to break the polls of the
first, so it is one without a next run, and while it exists the first repeats at an interval and one
poller dispatches; the other polls, raises and reads all the same, so that fairness stands for both.

**Symmetry** is used in safety runs only, over identifiers that no definition
tells apart.

**Fairness.** Weak fairness of time, of the loops of workers, dispatchers and
pollers, and of the reaper: each is a thread that runs until shutdown and whose
iteration has a bounded number of steps (handlers have timeouts). An iteration
of a worker or dispatcher may always end by being dropped, so no worker is assumed to
finish its work. Strong fairness stands in two places: a feed's handler does not
fail every time it is tried (the loop retries for ever), and a poller that
repeatedly finds a schedule due takes it (its poll is one transaction that takes
all due rows). Producers, operators and pruning are never assumed to act.
`KnowledgeBase` assumes that a deletion's thread goes on and that a broken-off deletion is
taken up again: the request is retried, and a node does not finish starting
before `recover` succeeds. `LocalIngest` assumes only that a process that stopped is
started again and runs through its recovery. `ConnectorSync` assumes that worker
and executor threads run, that the manager dispatches an active job again
(`recover` at start and in the maintenance loop), and that a lease nobody renews runs out.
`ResearchJobs` assumes that a run that is not dead goes on (its provider calls have
deadlines), that some dispatcher claims and reconciles, and that a dead node's dispatch lease
runs out; heartbeats and user calls are not assumed to happen.
Failures are bounded in number, so none of these has to succeed in spite of an
environment that fails for ever.

### Disagreements with the documentation

* `pipeline_recovery`. `Punctual` makes the keeper thread renew before a lease
  runs out while its worker lives, so the only harm is one crash. The job payload freezes the generation's lease token
  at enqueue. When the lease has lapsed, the worker calls `resume_build`, which
  rotates the token. If the worker stops after that, the next attempt compares
  the payload's token with the stored one and refuses
  (`ha/runtime.py:1029`), so the complete candidate becomes a dead letter.
  `docs/HA_DEPLOYMENT_zh-CN.md:23` says that it is reused and published.
* `kb_heads`. The last authority check of an index job stands before
  `switch_active` (`api/ingest.py:698`, "can never publish over the new lease
  owner's generation"). Publication comes later, in the mirror. A job that
  changed documents carries a source hook, which compares the fencing token in
  the publishing transaction; a rebuild stages no sources, has no hook, and publishes under the
  generation lease alone (`ha/index_mirror.py:80`). If its mutation lease runs
  out in between and the next owner has published sources and index together, the
  rebuild's older index replaces the newer one, and the served index no longer
  describes the current sources.
* `local_crash`. A rollback moves the backup over the file and then writes
  `rolled_back`. A crash in between leaves an entry that is marked as moved and has no backup.
  The directory is right, but `_recover_entry` cannot know and keeps the entry
  (`service/mutation_journal.py:376`), so `recover_all` raises at this and every
  later start. The comment at `api/ingest.py:1323` says that a crash at any
  point can be recovered. `RestartsUnlessStuck` shows that nothing else keeps
  the process from starting.

## 4. What TLAPS proves

For every value of the constants that satisfies the named assumptions of the
module that declares them.

* **`JobQueueProofs`**: type correctness, `KeyNeverReused`, `ReplayOnce`,
  `OutcomeRemembered`, `UniqueOwner`, `DeadLetterExhausted`, and the action properties
  `FencedFinish` and `CancelHonoured`. None is inductive.
  `IInv` adds: the columns of a row agree with its status (`RowInv`); the
  history of a key agrees with the table (`BornInv`); the key row names the
  only job of its key, and a terminal outcome once the job is pruned (`KeyInv`);
  a dead letter that has a copy finished before it, hence is pruned no later
  (`ReplayInv`, which is where the order of the pruner is needed); and tokens
  in workers' memories are of distinct claims (`HeldInv`).
* **`IndexGenerationProofs`**: type correctness, `CurrentServable`,
  `CollectedIsDead`, `ObjectsMatch`, `HeadAdvances`, `TakeoverFences`, and
  `ReaderProtected`, for every `Lag`. `IInv` says that fences are distinct
  and not above the head's (`FenceInv`), that a generation that is still being
  built has no manifest (`ManifestInv`), that objects match it (`ObjectInv`), that the current
  generation is servable (`HeadInv`), that what a collector holds is dead
  (`GcInv`), that the generation of a reader whose lease never lapsed is not among it (`ReadInv`), and
  what each builder remembers about its generation (`WorkInv`).
* **`OutboxProofs`**: type correctness, `DeliveredReceived`, `OrderedDelivery` and
  `CursorCovers`, all of them for overlapping transactions as well. `CursorCovers` excepts the
  events that commit behind what a node has read, and `SerialNeverLate` shows that there are none
  where the database serialises its writers (`~Concurrent`, which is SQLite). `IInv` says
  that the revisions of an aggregate
  are given out and committed in order (`RevInv`) and that an event is started only
  when all before it in its aggregate are delivered (`StartInv`). For the cursor, `StampInv`
  says that no two rows have the same place in the order of the table, and `FeedInv`
  that a batch leaves no earlier row behind it that is neither seen nor late.
* **`SchedulerProofs`**: the scheduler implements the queue (`ImplementsQueue`), so all that
  `JobQueueProofs` shows of the queue holds here too; type correctness, `OneJobPerFire`
  and `CatchUp`, also while polls raise and are rolled back. `FireInv` says that a fire about to be marked as delivered has become a job.
* **`IndexPipelineProofs`**: the pipeline implements the queue and the generation
  store, each step by step. Hence the invariants of `JobQueueProofs` and
  `IndexGenerationProofs`, which are instantiated, are those of the pipeline, and the
  proof of `SucceededPublished` needs only what lies between the two: a
  generation that was begun has a build and a token (`BuildInv`), and what a worker
  carries agrees with the row it claimed and the generation it works on (`TaskInv`).
* **`KnowledgeBaseProofs`**: type correctness, `FrozenHeads`, `CleanedIsEmpty` and
  `NoLostDocument`. `DeletionInv` ties the phase of a deletion to the lifecycle, to the
  scope of the artifacts and to the epochs of the deleters. `Owners` says which job
  holds which fencing token, and `JobsInv` what a job that still has authority copied of
  the head. `NoLostDocument` is about any number of workers on any nodes: `kb_write_lock`, which
  `IndexJobManager` holds around a whole job (`api/ingest.py:896`), is the guard
  `WriteLockFree`, and that at most one job of a node works on its directory
  (`WriteLocked`) is part of `JobsInv`. The runs have one worker for each node.
  The second half of the module is about `LocalIngest`: type correctness, `SourceMatchesActive`
  and `NothingLost`, from the inductive `LInv`, and the refinement of `ServedDocuments`
  (`ImplementsDocuments`), from `BInv`. `PathInv` is the core of `LInv`: a document without
  an open entry is as in the active generation, and while its entry is open, `EntryOK` says where
  the old and the new content are and that recovery will take the entry the right way,
  forward if the generation of its job is the active one and back otherwise.
  `NewestInv` says that only the newest job has open entries, `JobInv` in
  which order a job at each of its steps has written entry, backup, file and generation, `ProcInv`
  what `recover_all` has done with the entry it is at, and `LifeInv` that a deletion
  leaves nothing to the next incarnation. Between the fence of a DELETE and the start of its job
  the promise must still hold, because the fence may be taken back (`Usable`).
  `BInv == LInv /\ BatchInv` adds what a job has written or taken away by the time it comes to
  the switch. A job that is admitted is `Begin` of `ServedDocuments`; `switch_active` is `Upload`
  of the whole batch, `Remove` of one document, or `Keep` for a rebuild; a job that fails
  or dies before the switch is `Keep`; a DELETE that is decided on, whose job starts
  or whose request a crash cuts short, is `GiveUp`; the erased directory is `Erase` and a new
  incarnation `Create`. The other steps of a job, of its rollback and of a recovery are
  stutters. A version is named by its job and a job changes the documents once, so no version
  that was replaced or taken away comes back.
* **`ResearchJobsProofs`**: type correctness, `EvidenceOfItsAttempt`, `ReportMatches` and
  `UserWins`. `Consistent` says how
  the columns of the record go together, `AttemptInv` that no attempt is known before it
  is made, and `RunInv` what a run remembers of the record it was claimed on: as long as
  the record has the run's attempt, its snapshot is the run's. `Adds` carries `EvidenceOfItsAttempt`
  through the transitions. The fresh lease id that
  a claim draws exists because fewer are in use than there are (`InUseFinite`).
* **`ConnectorSyncProofs`**: type correctness, `CancelHolds`, `NoGhostPublication` and
  `CoveredWhileKept`. `SInv` is inductive by itself: one job is active, one worker
  holds its token, and a worker's place in the code tells whether its job has crossed the commit
  boundary (`WorkerOK`); nothing of a job is visible before (`Visible`). `CInv` is about
  contents and cursors and holds as long as every hand-off was kept:
  `CovInv == SInv /\ (kept => HandoffKept /\ CInv)` is inductive. Its parts say that
  every mutation lease that still counts is of the active job once a worker was admitted to
  it (`Delegated`), how cursors and the checkpoint are ordered (`CursorOK`), that a worker's snapshot
  contains what its cursor says (`SnapOK`), that no two workers before the boundary are
  of one attempt (`AttemptsOK`), that a hand-off has what the committing job's cursor promises
  (`RowOK`), and the same of index jobs and the head (`IndexOK`). Most steps
  move neither content nor cursor; one lemma (`CalmStep`) serves them all.

Each proof has one lemma for each action or group of actions with the same effect, and the
temporal step combines them.

**Only model-checked.** Liveness under fairness (`EveryJobEnds`, `Settles`,
`EveryNodeHears`, `EveryFireRuns`, `EveryScheduleFires`, `DeletionEnds`,
`RestartsUnlessStuck`, `EveryRunEnds`, `Delivered`), which is outside the prover. Every
safety property of a passing run is proved, from the assumptions on the constants alone.
`KeyNeverReused`, which `OutcomeRemembered` implies, `ObjectsMatch`, `DeadLetterExhausted` and
type correctness are proved and not in a run.

## 5. Abstractions and what is not modelled

* Payloads, digests and manifests are compared for equality only. An object put
  is atomic; the local store's temporary files, which can make a concurrent
  verification fail for a moment, are not modelled.
* `publish` is modelled without its authority guard and publication hook;
  they belong to the composition with the outbox and the mutation lease.
* The invalidation feed follows every topic of the model.
* The scheduler's limits are not modelled; the next time of a cron schedule is
  any later time, or none; the `available_at` of a fire's job, which is in the past, is
  the present.
* One knowledge base, one tenant, one connection: the stores never relate rows of two.
* `KnowledgeBase` has one row for a build, its objects being the subject of
  `IndexGeneration`; staged objects and the collection of source generations are
  left out, and of the stores that a deletion cleans only the artifact store is there.
* `KnowledgeBase` has no connector jobs. They copy the head into the same directory under the
  mutation lease and without `kb_write_lock` (`api/app.py:2003`), so they can change it under
  a job of the node that has lost its lease.
* `LocalIngest` replaces a JSON file as a whole or not at all; that
  `atomic_write_json` may raise after its rename is not modelled. Readers'
  leases on generations are left out. A job that is refused before its first write is not shown.
* `ConnectorSync` reads one change for each page; backoff, schedules and the
  health projection are left out. Documents are not told apart by permissions.
* `ResearchJobs` starts with a planned job. Editing the plan, the checks
  of a report's content (a report that fails them ends as `BuildFails`), the provider
  pools and budgets (`OverBudget` is a fault) and the single-node mode without a
  dispatch store are left out. A claim takes any claimable dispatch and not the oldest.
  `list_dispatchable` and `enqueue` are one step, with `ReconcileLate` as the
  node that stalls between them; the snapshot of the index and the transition that stores it
  are one step. `kb_read_lease` is local to a process and does not hold the
  index of a cluster still.

Observed while modelling. The first four happen in passing runs, whose properties name them as
exceptions or say what holds all the same; the others are stated in the modules where they can be
stated, and in no run:

* Evidence of two generations (`ResearchJobs`). `start` chooses between a restart
  and a refresh by the row it read (`service/research_execution.py:961`). If
  that row was running, the index switches, the next section fails on
  it and so does the job, then the call commits a restart: the job has
  the new generation's provenance and keeps the sections gathered under the old
  one. This happens in `research`: an invariant that all completed sections be of the generation
  in `prov` is violated there after 13 states. `src/PRODUCTION.md:157` says that any drift blocks
  generation and that only a refresh, which clears every section, repairs it. What the code keeps
  is `EvidenceOfItsAttempt`.
* A reader's lease with a gap (`IndexGeneration`). `heartbeat_reader`
  reads the clock before its transaction (`ha/index_generation.py:677`), so a
  renewal can commit after the lease expired, and a collector whose snapshot fell in
  between deletes the objects under a lease that is live again. This happens in `generation`:
  `ReaderProtected` without its exception `lapsed` is violated there after 18 states. The
  docstring of `acquire_reader` promises to "freeze the current published generation against
  retention GC" without that condition.
* Events behind the cursor (`Outbox`). `created_at` is read in `append`
  (`ha/outbox.py:253`) before the caller's transaction commits, so two overlapping
  transactions, which PostgreSQL allows for two aggregates, can become visible out of cursor order,
  and the node never handles the late one. This happens in `outbox`: `CursorCovers` and `EveryNodeHears`
  without their exception `late` are violated there. The consequence is limited, as engines are looked up by
  generation id. `docs/HA_DEPLOYMENT_zh-CN.md:263` says that every node clears its cache.
* A schedule without a next run (`Scheduler`). `create` with `first_run_at` never asks `next_after`
  (`ha/scheduler.py:287`), although the comment at line 188 says that an impossible expression
  "must fail configuration". When the schedule is due, `next_after` raises in the transaction that
  records the fires of all due schedules (line 458), so that none of the batch fires, and before
  `dispatch_pending`, so that no recorded fire is dispatched either; every later poll does the same.
  This happens in `scheduler`: `EveryFireRuns` and `EveryScheduleFires` without their
  exception `Broken` are violated there.
* Three orders in research end well only because `reconcile_orphans` queues
  the live attempt again: a dispatcher that stalled between claim and activate rotates
  the lease of the newer owner; a pause that is late with its `cancel_job` cancels the dispatch
  of the resumed job; a shutdown in the cluster releases the dispatch and leaves the run's
  lease valid until someone activates the attempt. A section that is completed on the draining
  lease of a paused job after the deadline turns the pause into a failure.
* `HandoffKept` (`ConnectorSync`). A worker whose leases ran out while it
  prepared its commit aborts and deletes the hand-off by the job's name
  (`connectors/materialized_sink.py:959`, `ha/connector_commit.py:362`). By then
  it may be that of the attempt that took over and is past the
  commit boundary, which then cannot be recovered. One stall is enough.
* `CheckpointCovers` (`ConnectorSync`), which is why the run checks it under
  `kept`. `prepare` looks at the mutation lease once, and uploads and inserts
  without another look. With three nodes, the first is held up between
  the look and the upload; the second, which had lost its lease too, aborts and
  deletes the hand-off of the third, which has crossed; the
  first then inserts its own, older snapshot in that place, under the name of the job. When
  the third stops, the recovery publishes the older snapshot
  (`connectors/sync_runtime.py:141`) and completes with the newer cursor: the
  changes in between are never read again. TLC finds it in 36 steps with
  `Nodes = {n1, n2, n3}`, `MaxFaults = 2` and all other bounds 1 (`MaxSwitches`
  0). The docstring of `DistributedConnectorCommitStore` calls the hand-off
  shared and immutable.
* An index job whose node stops before claiming it stays `pending` for ever:
  `reconcile_orphans` looks at running jobs only (`ha/api_state.py:890`), and the
  connector job that waits for it times out and tries again without end. `EveryJobEnds` excepts these two
  cases by name (`Bereft`).
* `StaysBuried` (`KnowledgeBase`). The deletion purges the cache of the node it
  ran on. Another node's reconciler finds no head for the next
  incarnation and adopts the directory it still has, with the old documents.
* `KeySentOnce` (`Outbox`). `prune_delivered` removes the key row with the event,
  so the key can be sent again; `docs/HA_DEPLOYMENT_zh-CN.md:276` speaks of a
  tombstone, the comment at `ha/outbox.py:289` of a new window.
* The last transaction of `delete_scope` carries no epoch
  (`ha/source_artifact_store.py:1402`), so a second deleter that was held up could empty the
  scope of the next incarnation; the catalogue has no scope fence at all.
* `collect_orphans` renews an expired upload intent whose object is missing, so
  an upload that had given up its authority may commit after all; the restart
  marks an index job as failed although its documents were committed
  (`api/persistence.py:565`); a batch of generations whose deletion keeps failing
  hides those behind it from the collector (`ha/maintenance.py:229`); `_finalize`
  and `_begin` of the deletion lock their two rows in opposite orders.
* Retention of a generation counts from its publication and not from when it
  was superseded; an upload that outlives its collection leaves orphan objects;
  the fence and the base check of `publish` are each implied by the other; the
  attempt guard of the outbox's claim is implied by its sweep; re-enabling a
  `once` schedule that has fired fires it again; events pruned while a feed fails
  are made up for only by the reconciliation at its next start.

### Not modelled

* Tenant quotas, chat sessions, derived knowledge, connector
  credentials: stores with leases of their own in the same style; candidates
  for modules of their own.
* Authentication, access control, feedback, migrations, backup: single
  transactions or I/O, without interaction that a model would explore.
* Retrieval, ranking, citation, agents, the answer graph, the Rust core: text,
  floating-point scores and model answers.
* HTTP, schemas, front ends, configuration, telemetry: no coordination state.

## 6. Plan

Done: the queue, generations, pipeline, outbox and scheduler; the knowledge base with its
lease, source generations, mirror, deletion and artifact scope; connectors; research jobs;
local ingest, all with their proofs.

1. Chat turns: leases, revisions, idempotent replays. Quotas beside the mutation lease.
2. Composition of publication with the outbox (`on_publish`), and of the
   connector's hand-off with `KnowledgeBase` in place of its abstract head.
