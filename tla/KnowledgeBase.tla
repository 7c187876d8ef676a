---------------------------- MODULE KnowledgeBase ----------------------------
(***************************************************************************)
(* The shared state of one knowledge base in multi-writer mode, over all   *)
(* the incarnations its storage id goes through: the registry row and the  *)
(* mutation lease (ha/api_state.py), source generations                    *)
(* (ha/source_generation.py), the mirroring of locally built indexes       *)
(* (ha/index_mirror.py, HARuntime.publish_generation), the deletion saga   *)
(* (ha/kb_deletion.py) and the raw artifact store whose scope it fences    *)
(* (ha/source_artifact_store.py).                                          *)
(*                                                                         *)
(* Every transaction is one action; object-store calls and work on a       *)
(* node's own disk lie between transactions.  A lease either is live or    *)
(* has expired: it may expire whenever the heartbeat thread of its holder  *)
(* stops, so no clock is needed.  The mutation lease is never deleted and  *)
(* its fencing token only grows; a lease is used for one job, so the token *)
(* also names the job's local generation, the source generation it stages  *)
(* and the document it uploads.                                            *)
(***************************************************************************)
EXTENDS Integers, FiniteSets

CONSTANTS
    Nodes,          \* API nodes, each with a disk of its own
    Workers,        \* index job threads, and the reconciler of HAIndexMirror
    Deleters,       \* DELETE requests, their retries, and recovery at startup
    NodeOf,         \* the node of each of these threads
    Uploaders,      \* threads inside put, of one artifact version of one node
    None,
    MaxFence,       \* bound on the mutation leases granted
    MaxEpoch,       \* bound on the epoch of the knowledge base
    MaxFaults       \* bound on the failures of a deletion step, and on requests
                    \* repeated while another one is being served

ASSUME BoundsAssumption ==
    /\ MaxFence \in Nat
    /\ MaxEpoch \in Nat
    /\ MaxFaults \in Nat

ASSUME NodesAssumption ==
    NodeOf \in [Workers \union Deleters -> Nodes]

VARIABLES
    kb,         \* row of ha_api_knowledge_bases
    deletion,   \* row of ha_api_kb_deletions
    lease,      \* row of ha_api_mutation_leases
    granted,    \* kb_epoch of every lease granted so far, 0 before
    gens,       \* table ha_source_generations
    head,       \* row of ha_source_heads, 0 when there is none
    builds,     \* local generations and their rows in ha_index_generations
    index,      \* row of ha_index_heads
    disk,       \* each node's source directory and state.json
    work,       \* the job each worker is running
    saga,       \* the deletion each deleter is running
    scope,      \* row of ha_source_artifact_scopes
    artifact,   \* the artifact's row, upload intent and object
    put,        \* the call each uploader is in
    faults

registry == <<kb, deletion, lease, granted>>
heads    == <<gens, head, builds, index>>
store    == <<scope, artifact, put>>
vars     == <<kb, deletion, lease, granted, gens, head, builds, index, disk,
              work, saga, scope, artifact, put, faults>>

Fences  == 1..MaxFence
Epochs  == 1..MaxEpoch

(***************************************************************************)
(* Documents are named by the lease they were uploaded under, 0 stands for *)
(* SQL NULL in the identifier columns.                                     *)
(***************************************************************************)
SourceGeneration == [status : {"unborn", "prepared", "active", "superseded"},
                     base   : 0..MaxFence,
                     docs   : SUBSET Fences]

\* "local": the generation was built and its node has switched to it, but no
\* build of it was begun in ha_index_generations.
Build == [status : {"unborn", "local", "building", "published"},
          fence  : Nat,
          base   : 0..MaxFence,
          docs   : SUBSET Fences]

Job == [fence  : Fences,
        kind   : {"write", "rebuild", "mirror"},
        step   : {"leased", "cached", "staging", "staged", "switched", "hooked",
                  "uploading"},
        target : 0..MaxFence,       \* local generation being mirrored
        base   : 0..MaxFence,       \* head read by stage_directory
        hook   : BOOLEAN]           \* source_publication is not None

\* A thread without a job holds None, which is no job.
ASSUME NoneAssumption == None \notin Job

Saga == [step  : {"clean", "objects", "rows", "mark", "finalize", "purge"},
         epoch : Epochs,
         row   : BOOLEAN]           \* delete_scope found an artifact row

TypeOK ==
    /\ kb \in [life : {"absent", "active", "deleting", "deleted"}, epoch : 0..MaxEpoch]
    /\ deletion \in [phase : {"none", "fenced", "cleaned", "complete"},
                     epoch : 0..MaxEpoch, index : 0..MaxFence, head : 0..MaxFence]
    /\ lease \in [fence : 0..MaxFence, live : BOOLEAN]
    /\ granted \in [Fences -> 0..MaxEpoch]
    /\ gens \in [Fences -> SourceGeneration]
    /\ head \in 0..MaxFence
    /\ builds \in [Fences -> Build]
    /\ index \in [build : 0..MaxFence, fence : Nat]
    /\ disk \in [Nodes -> [there : BOOLEAN, docs : SUBSET Fences, active : 0..MaxFence]]
    /\ work \in [Workers -> Job \union {None}]
    /\ saga \in [Deleters -> Saga \union {None}]
    /\ scope \in [state : {"none", "active", "deleting", "deleted"}, epoch : 0..MaxEpoch]
    /\ artifact \in [row : BOOLEAN, intent : {"none", "live", "expired"}, object : BOOLEAN]
    /\ put \in [Uploaders -> {"idle", "upload", "commit"}]
    /\ faults \in 0..MaxFaults

Init ==
    /\ kb = [life |-> "absent", epoch |-> 0]
    /\ deletion = [phase |-> "none", epoch |-> 0, index |-> 0, head |-> 0]
    /\ lease = [fence |-> 0, live |-> FALSE]
    /\ granted = [f \in Fences |-> 0]
    /\ gens = [f \in Fences |-> [status |-> "unborn", base |-> 0, docs |-> {}]]
    /\ head = 0
    /\ builds = [f \in Fences |-> [status |-> "unborn", fence |-> 0, base |-> 0, docs |-> {}]]
    /\ index = [build |-> 0, fence |-> 0]
    /\ disk = [n \in Nodes |-> [there |-> FALSE, docs |-> {}, active |-> 0]]
    /\ work = [w \in Workers |-> None]
    /\ saga = [d \in Deleters |-> None]
    /\ scope = [state |-> "none", epoch |-> 0]
    /\ artifact = [row |-> FALSE, intent |-> "none", object |-> FALSE]
    /\ put = [u \in Uploaders |-> "idle"]
    /\ faults = 0

-----------------------------------------------------------------------------
(***************************************************************************)
(* The registry and the mutation lease.                                    *)
(***************************************************************************)

\* create, with activate_created_kb as its hook: a tombstone may be reused only
\* once its deletion is complete, under a higher epoch.
Create ==
    /\ kb.life \in {"absent", "deleted"}
    /\ kb.epoch < MaxEpoch
    /\ \/ deletion.phase = "none"
       \/ deletion.phase = "complete" /\ deletion.epoch <= kb.epoch
    /\ scope.epoch <= kb.epoch
    /\ kb' = [life |-> "active", epoch |-> kb.epoch + 1]
    /\ deletion' = [phase |-> "none", epoch |-> 0, index |-> 0, head |-> 0]
    /\ scope' = [state |-> "active", epoch |-> kb.epoch + 1]
    /\ UNCHANGED <<lease, granted, heads, disk, work, saga, artifact, put, faults>>

\* Mutant: authority is judged by the incarnation alone.
LiveByEpoch(f) == kb.life = "active" /\ kb.epoch = granted[f]

\* assert_live, and the same test inside _publish_locked.
Live(f) ==
    /\ lease.fence = f
    /\ lease.live
    /\ kb.life = "active"
    /\ kb.epoch = granted[f]

\* The lease context: acquire, then the job runs.  A reconciler has seen that
\* the local generation is not the shared one.
Acquire(w, kind) ==
    /\ work[w] = None
    /\ kb.life = "active"
    /\ ~lease.live
    /\ lease.fence < MaxFence
    /\ lease' = [fence |-> lease.fence + 1, live |-> TRUE]
    /\ granted' = [granted EXCEPT ![lease.fence + 1] = kb.epoch]
    /\ work' = [work EXCEPT ![w] =
            [fence |-> lease.fence + 1, kind |-> kind, step |-> "leased",
             target |-> IF kind = "mirror" THEN disk[NodeOf[w]].active
                                           ELSE lease.fence + 1,
             base |-> 0, hook |-> FALSE]]
    /\ UNCHANGED <<kb, deletion, heads, disk, saga, store, faults>>

StartJob(w) == \E kind \in {"write", "rebuild"} : Acquire(w, kind)

\* reconcile_once
Reconcile(w) ==
    /\ disk[NodeOf[w]].active \notin {0, index.build}
    /\ Acquire(w, "mirror")

\* The keep_alive thread stops at its first failed heartbeat, and a process
\* that died sends none.
Expire ==
    /\ lease.live
    /\ lease' = [lease EXCEPT !.live = FALSE]
    /\ UNCHANGED <<kb, deletion, granted, heads, disk, work, saga, store, faults>>

Released(f) == IF lease.fence = f THEN [lease EXCEPT !.live = FALSE] ELSE lease

At(w, step) == work[w] # None /\ work[w].step = step

\* The local file of an upload that was not committed is taken back: by
\* _rollback_upload, or by recover_all when the process starts again.
RolledBack(w) ==
    IF work[w].step \in {"switched", "hooked", "uploading"}
    THEN disk
    ELSE [disk EXCEPT ![NodeOf[w]].docs = @ \ {work[w].fence}]

\* Any step may raise; the lease context releases the lease.
Abort(w) ==
    /\ work[w] # None
    /\ disk' = RolledBack(w)
    /\ lease' = Released(work[w].fence)
    /\ work' = [work EXCEPT ![w] = None]
    /\ UNCHANGED <<kb, deletion, granted, heads, saga, store, faults>>

\* The process dies: the lease stays as it is until it expires.
Crash(w) ==
    /\ work[w] # None
    /\ disk' = RolledBack(w)
    /\ work' = [work EXCEPT ![w] = None]
    /\ UNCHANGED <<registry, heads, saga, store, faults>>

-----------------------------------------------------------------------------
(***************************************************************************)
(* A job: the node's directory is replaced by the current source, edited,  *)
(* indexed, staged, made active locally, and mirrored.                     *)
(***************************************************************************)

DocsOf(g) == IF g = 0 THEN {} ELSE gens[g].docs

\* The job works on its node's directory, under kb_write_lock and on the one
\* executor thread of the knowledge base, until it ends.  The reconciler only reads it.
Writing(w) == work[w] # None /\ work[w].kind # "mirror" /\ work[w].step # "leased"

WriteLockFree(w) == \A v \in Workers \ {w} : Writing(v) => NodeOf[v] # NodeOf[w]

\* _prepare_source_cache and materialize_current, then the edit.
Materialize(w) ==
    /\ At(w, "leased")
    /\ work[w].kind # "mirror"
    /\ WriteLockFree(w)
    /\ disk' = [disk EXCEPT ![NodeOf[w]] =
            [there |-> TRUE, active |-> @.active,
             docs |-> DocsOf(head) \union
                        (IF work[w].kind = "write" THEN {work[w].fence} ELSE {})]]
    /\ work' = [work EXCEPT ![w].step = "cached"]
    /\ UNCHANGED <<registry, heads, saga, store, faults>>

\* _prepare_authorized_commit: assert_live, then stage_for_commit up to the
\* reading of the head the snapshot is to be based on.
StageBegin(w) ==
    /\ At(w, "cached")
    /\ work[w].kind = "write"
    /\ Live(work[w].fence)
    /\ disk[NodeOf[w]].there
    /\ work' = [work EXCEPT ![w].step = "staging", ![w].base = head]
    /\ UNCHANGED <<registry, heads, disk, saga, store, faults>>

Prepared(f, base, docs) ==
    [gens EXCEPT ![f] = [status |-> "prepared", base |-> base, docs |-> docs]]

\* stage_directory once the objects are stored.
StageEnd(w) ==
    /\ At(w, "staging")
    /\ disk[NodeOf[w]].there
    /\ gens' = Prepared(work[w].fence, work[w].base, disk[NodeOf[w]].docs)
    /\ work' = [work EXCEPT ![w].step = "staged"]
    /\ UNCHANGED <<registry, head, builds, index, disk, saga, store, faults>>

\* The last assert_live and switch_active; a rebuild checks the lease only here.
SwitchActive(w) ==
    /\ \/ At(w, "staged")
       \/ At(w, "cached") /\ work[w].kind = "rebuild"
    /\ Live(work[w].fence)
    /\ disk[NodeOf[w]].there
    /\ disk' = [disk EXCEPT ![NodeOf[w]].active = work[w].fence]
    /\ builds' = [builds EXCEPT ![work[w].fence].status = "local",
                                ![work[w].fence].docs = disk[NodeOf[w]].docs]
    /\ work' = [work EXCEPT ![w].step = "switched"]
    /\ UNCHANGED <<registry, gens, head, index, saga, store, faults>>

\* mirror_result and _stage_source_publication: the generation that this lease
\* staged for this build; else none if there is a source head; else the local
\* directory is staged as it is.
StageSource(w) ==
    /\ \/ At(w, "switched")
       \/ At(w, "leased") /\ work[w].kind = "mirror"
    /\ LET f == work[w].fence
           staged == gens[f].status = "prepared"
           adopt  == ~staged /\ head = 0
       IN /\ adopt => disk[NodeOf[w]].there
          /\ gens' = IF adopt THEN Prepared(f, 0, disk[NodeOf[w]].docs) ELSE gens
          /\ work' = [work EXCEPT ![w].step = "hooked", ![w].hook = staged \/ adopt]
    /\ UNCHANGED <<registry, head, builds, index, disk, saga, store, faults>>

\* Mutant: the index store does not ask for the knowledge base's lifecycle.
IndexUnguarded == TRUE

\* assert_index_active, the authority guard of begin_build and of publish.
IndexActive == kb.life = "active"

\* mirror up to begin_build: a build that was begun before is continued.
BeginBuild(w) ==
    LET t == work[w].target IN
    /\ At(w, "hooked")
    /\ disk[NodeOf[w]].active = t
    /\ index.build # t
    /\ IndexActive
    /\ builds[t].status \in {"local", "building"}
    /\ IF builds[t].status = "local"
       THEN /\ builds' = [builds EXCEPT ![t].status = "building",
                                        ![t].fence = index.fence + 1,
                                        ![t].base = index.build]
            /\ index' = [index EXCEPT !.fence = @ + 1]
       ELSE UNCHANGED <<builds, index>>
    /\ work' = [work EXCEPT ![w].step = "uploading"]
    /\ UNCHANGED <<registry, gens, head, disk, saga, store, faults>>

\* The build is current already, or was published and replaced: nothing to do.
NothingToMirror(w) ==
    LET t == work[w].target IN
    /\ At(w, "hooked")
    /\ disk[NodeOf[w]].active = t
    /\ \/ index.build = t
       \/ IndexActive /\ builds[t].status = "published"
    /\ work' = [work EXCEPT ![w] = None]
    /\ lease' = Released(work[w].fence)
    /\ UNCHANGED <<kb, deletion, granted, heads, disk, saga, store, faults>>

\* _publish_locked
SourcePublishable(f) ==
    /\ gens[f].status = "prepared"
    /\ gens[f].base = head
    /\ Live(f)

Superseded(g) == IF g = 0 THEN gens ELSE [gens EXCEPT ![g].status = "superseded"]

\* The objects are uploaded, the local generation is still the active one, and
\* publish_generation moves the index head, and in the same transaction the
\* source head when there is a hook.
PublishGeneration(w) ==
    LET t == work[w].target
        f == work[w].fence
    IN
    /\ At(w, "uploading")
    /\ disk[NodeOf[w]].active = t
    /\ IndexActive
    /\ builds[t].status = "building"
    /\ builds[t].fence = index.fence
    /\ builds[t].base = index.build
    /\ work[w].hook => SourcePublishable(f)
    /\ index' = [index EXCEPT !.build = t]
    /\ builds' = [builds EXCEPT ![t].status = "published"]
    /\ head' = IF work[w].hook THEN f ELSE head
    /\ gens' = IF work[w].hook THEN [Superseded(head) EXCEPT ![f].status = "active"]
                               ELSE gens
    /\ work' = [work EXCEPT ![w] = None]
    /\ lease' = Released(f)
    /\ UNCHANGED <<kb, deletion, granted, disk, saga, store, faults>>

-----------------------------------------------------------------------------
(***************************************************************************)
(* The deletion saga.                                                      *)
(***************************************************************************)

\* _begin on an active knowledge base.
Begin(d) ==
    /\ saga[d] = None
    /\ kb.life = "active"
    /\ kb.epoch < MaxEpoch
    /\ deletion.phase = "none"
    /\ kb' = [life |-> "deleting", epoch |-> kb.epoch + 1]
    /\ deletion' = [phase |-> "fenced", epoch |-> kb.epoch + 1,
                    index |-> index.build, head |-> head]
    /\ lease' = [lease EXCEPT !.live = FALSE]
    /\ scope' = [state |-> "deleting", epoch |-> kb.epoch + 1]
    /\ saga' = [saga EXCEPT ![d] = [step |-> "clean", epoch |-> kb.epoch + 1, row |-> FALSE]]
    /\ UNCHANGED <<granted, heads, disk, work, artifact, put, faults>>

\* A second request beside a running one is counted.
Repeats ==
    LET busy == \E d \in Deleters : saga[d] # None
    IN  /\ busy => faults < MaxFaults
        /\ faults' = IF busy THEN faults + 1 ELSE faults

\* Mutant: only a deletion whose cleaning is unfinished can be taken up again.
ResumeCleaningOnly(d) ==
    /\ saga[d] = None
    /\ kb.life = "deleting"
    /\ deletion.epoch = kb.epoch
    /\ deletion.phase = "fenced"
    /\ Repeats
    /\ saga' = [saga EXCEPT ![d] = [step |-> "clean", epoch |-> kb.epoch, row |-> FALSE]]
    /\ UNCHANGED <<registry, heads, disk, work, store>>

\* _begin finds the row of an unfinished deletion: a retried request, or
\* recover.  _clean and _finalize skip what its phase says is done.
Resume(d) ==
    /\ saga[d] = None
    /\ kb.life = "deleting"
    /\ deletion.epoch = kb.epoch
    /\ deletion.phase \in {"fenced", "cleaned"}
    /\ Repeats
    /\ saga' = [saga EXCEPT ![d] =
            [step |-> IF deletion.phase = "fenced" THEN "clean" ELSE "finalize",
             epoch |-> kb.epoch, row |-> FALSE]]
    /\ UNCHANGED <<registry, heads, disk, work, store>>

Deleting(d, step) == saga[d] # None /\ saga[d].step = step

\* First transaction of delete_scope.
FenceScope(d) ==
    /\ Deleting(d, "clean")
    /\ scope.epoch <= saga[d].epoch
    /\ scope' = [state |-> "deleting", epoch |-> saga[d].epoch]
    /\ saga' = [saga EXCEPT ![d].step = "objects", ![d].row = artifact.row]
    /\ UNCHANGED <<registry, heads, disk, work, artifact, put, faults>>

\* The objects of the rows it found, by their key.
DeleteObjects(d) ==
    /\ Deleting(d, "objects")
    /\ artifact' = [artifact EXCEPT !.object = @ /\ ~saga[d].row]
    /\ saga' = [saga EXCEPT ![d].step = "rows"]
    /\ UNCHANGED <<registry, heads, disk, work, scope, put, faults>>

\* Second transaction of delete_scope.
DeleteRows(d) ==
    /\ Deleting(d, "rows")
    /\ artifact' = [artifact EXCEPT !.row = FALSE,
                        !.intent = IF @ = "none" THEN "none" ELSE "expired"]
    /\ scope' = [scope EXCEPT !.state = "deleted"]
    /\ saga' = [saga EXCEPT ![d].step = "mark"]
    /\ UNCHANGED <<registry, heads, disk, work, put, faults>>

\* Last transaction of _clean.
MarkCleaned(d) ==
    /\ Deleting(d, "mark")
    /\ deletion.phase # "none"
    /\ deletion.epoch = saga[d].epoch
    /\ deletion' = IF deletion.phase = "fenced" THEN [deletion EXCEPT !.phase = "cleaned"]
                                                ELSE deletion
    /\ saga' = [saga EXCEPT ![d].step = "finalize"]
    /\ UNCHANGED <<kb, lease, granted, heads, disk, work, store, faults>>

\* _finalize
Finalize(d) ==
    /\ Deleting(d, "finalize")
    /\ deletion.phase = "cleaned"
    /\ deletion.epoch = saga[d].epoch
    /\ kb = [life |-> "deleting", epoch |-> saga[d].epoch]
    /\ index.build = deletion.index
    /\ head = deletion.head
    /\ index' = [build |-> 0, fence |-> 0]
    /\ head' = 0
    /\ gens' = Superseded(head)
    /\ kb' = [kb EXCEPT !.life = "deleted"]
    /\ deletion' = [deletion EXCEPT !.phase = "complete"]
    /\ saga' = [saga EXCEPT ![d].step = "purge"]
    /\ UNCHANGED <<lease, granted, builds, disk, work, store, faults>>

\* _finalize or _begin finds that another deleter was faster.
FinishLate(d) ==
    /\ Deleting(d, "finalize")
    /\ deletion.phase = "complete"
    /\ saga' = [saga EXCEPT ![d] = None]
    /\ UNCHANGED <<registry, heads, disk, work, store, faults>>

\* _purge_local_cache, on this node only and after the transaction.
PurgeCache(d) ==
    /\ Deleting(d, "purge")
    /\ disk' = [disk EXCEPT ![NodeOf[d]] = [there |-> FALSE, docs |-> {}, active |-> 0]]
    /\ saga' = [saga EXCEPT ![d] = None]
    /\ UNCHANGED <<registry, heads, work, store, faults>>

\* What a deleter's next transaction refuses: its incarnation has gone.
Refused(d) ==
    \/ Deleting(d, "clean") /\ scope.epoch > saga[d].epoch
    \/ Deleting(d, "mark") /\ (deletion.phase = "none" \/ deletion.epoch # saga[d].epoch)
    \/ /\ Deleting(d, "finalize")
       /\ deletion.phase # "complete"
       /\ \/ deletion.phase # "cleaned"
          \/ deletion.epoch # saga[d].epoch
          \/ kb # [life |-> "deleting", epoch |-> saga[d].epoch]
          \/ index.build # deletion.index
          \/ head # deletion.head

GiveUp(d) ==
    /\ Refused(d)
    /\ saga' = [saga EXCEPT ![d] = None]
    /\ UNCHANGED <<registry, heads, disk, work, store, faults>>

\* A store is unreachable, two deleters deadlock on their row locks, or the
\* process dies.
Break(d) ==
    /\ saga[d] # None
    /\ faults < MaxFaults
    /\ faults' = faults + 1
    /\ saga' = [saga EXCEPT ![d] = None]
    /\ UNCHANGED <<registry, heads, disk, work, store>>

-----------------------------------------------------------------------------
(***************************************************************************)
(* put of one artifact version, and the collector of orphaned uploads.     *)
(***************************************************************************)

\* Mutant: the scope is looked up only when the upload starts.
ScopeAnyway == TRUE

\* _scope_writable_locked
ScopeWritable == scope.state \in {"none", "active"}

\* First transaction: the intent.
PutIntent(u) ==
    /\ put[u] = "idle"
    /\ kb.life = "active"
    /\ ScopeWritable
    /\ ~artifact.row
    /\ artifact' = [artifact EXCEPT !.intent = "live"]
    /\ put' = [put EXCEPT ![u] = "upload"]
    /\ UNCHANGED <<registry, heads, disk, work, saga, scope, faults>>

PutObject(u) ==
    /\ put[u] = "upload"
    /\ artifact' = [artifact EXCEPT !.object = TRUE]
    /\ put' = [put EXCEPT ![u] = "commit"]
    /\ UNCHANGED <<registry, heads, disk, work, saga, scope, faults>>

\* Last transaction: the row, unless another call has stored it.
PutCommit(u) ==
    /\ put[u] = "commit"
    /\ ScopeWritable
    /\ artifact.row \/ artifact.intent = "live"
    /\ artifact' = [artifact EXCEPT !.row = TRUE,
                                    !.intent = "none"]
    /\ put' = [put EXCEPT ![u] = "idle"]
    /\ UNCHANGED <<registry, heads, disk, work, saga, scope, faults>>

PutFails(u) ==
    /\ put[u] # "idle"
    /\ put' = [put EXCEPT ![u] = "idle"]
    /\ UNCHANGED <<registry, heads, disk, work, saga, scope, artifact, faults>>

IntentExpires ==
    /\ artifact.intent = "live"
    /\ artifact' = [artifact EXCEPT !.intent = "expired"]
    /\ UNCHANGED <<registry, heads, disk, work, saga, scope, put, faults>>

\* collect_orphans: an intent without an object is kept for a day, and renewed.
CollectOrphans ==
    /\ artifact.intent = "expired"
    /\ LET orphan == ~artifact.row
           intents == IF orphan /\ ~artifact.object THEN {"live", "none"} ELSE {"none"}
       IN \E i \in intents :
            artifact' = [artifact EXCEPT !.object = @ /\ ~orphan, !.intent = i]
    /\ UNCHANGED <<registry, heads, disk, work, saga, scope, put, faults>>

-----------------------------------------------------------------------------
JobStep(w) ==
    \/ Materialize(w) \/ StageBegin(w) \/ StageEnd(w) \/ SwitchActive(w)
    \/ StageSource(w) \/ BeginBuild(w) \/ NothingToMirror(w)
    \/ PublishGeneration(w) \/ Abort(w) \/ Crash(w)

SagaStep(d) ==
    \/ FenceScope(d) \/ DeleteObjects(d) \/ DeleteRows(d) \/ MarkCleaned(d)
    \/ Finalize(d) \/ FinishLate(d) \/ PurgeCache(d) \/ GiveUp(d)

PutStep(u) == PutIntent(u) \/ PutObject(u) \/ PutCommit(u) \/ PutFails(u)

Next ==
    \/ Create
    \/ Expire
    \/ \E w \in Workers : StartJob(w) \/ Reconcile(w) \/ JobStep(w)
    \/ \E d \in Deleters : Begin(d) \/ Resume(d) \/ Break(d) \/ SagaStep(d)
    \/ \E u \in Uploaders : PutStep(u)
    \/ IntentExpires
    \/ CollectOrphans

Spec == Init /\ [][Next]_vars

(***************************************************************************)
(* A started deletion is driven on by its thread, and one that broke off   *)
(* is taken up again: the client retries the failed request, and a node    *)
(* does not finish starting before recover has succeeded.                  *)
(***************************************************************************)
FairSpec ==
    /\ Spec
    /\ \A d \in Deleters : WF_vars(SagaStep(d))
    /\ WF_vars(\E d \in Deleters : Resume(d))

-----------------------------------------------------------------------------
(***************************************************************************)
(* From the fence of a deletion to its last transaction neither head       *)
(* moves, although jobs of the old incarnation are still running: so       *)
(* _finalize never meets "KB generation head changed after deletion        *)
(* fence", which no retry could repair.                                    *)
(***************************************************************************)
FrozenHeads ==
    deletion.phase \in {"fenced", "cleaned"} =>
        index.build = deletion.index /\ head = deletion.head

(***************************************************************************)
(* Once _clean has reported success, no upload that was under way puts an  *)
(* artifact row back before the knowledge base is created again.           *)
(***************************************************************************)
CleanedIsEmpty ==
    deletion.phase \in {"cleaned", "complete"} => ~artifact.row

(***************************************************************************)
(* Publishing an upload never loses another one: what the new source       *)
(* generation holds is the replaced head plus the uploaded document,       *)
(* although the directory was copied from the head long before the head is *)
(* compared.                                                               *)
(***************************************************************************)
NoLostDocument ==
    [][\A w \in Workers :
        work[w] # None /\ work[w].kind = "write" /\ head' # head /\ head' = work[w].fence
            => gens[head'].docs = DocsOf(head) \union {head'}]_vars

(***************************************************************************)
(* A knowledge base that is being deleted gets deleted, whatever step the  *)
(* deletion broke off at and whichever thread took it up.                  *)
(***************************************************************************)
DeletionEnds == kb.life = "deleting" ~> kb.life = "deleted"

(***************************************************************************)
(* The index that is served and the sources that are current describe the  *)
(* same documents: a job that lost its mutation lease never publishes over *)
(* the joint publication of the new owner, as _prepare_authorized_commit   *)
(* and the mirror have it.  The code does not keep it for a rebuild, which *)
(* publishes without a source hook and so without asking for the lease.    *)
(***************************************************************************)
HeadsAgree ==
    kb.life = "active" /\ index.build # 0 => builds[index.build].docs = DocsOf(head)

(***************************************************************************)
(* Nothing of a deleted incarnation is current in the next one.  The code  *)
(* does not keep this either: _finalize purges one node, and the           *)
(* reconciler of another adopts the directory it still has when there is   *)
(* no head.                                                                *)
(***************************************************************************)
StaysBuried ==
    kb.life = "active" => \A f \in DocsOf(head) : granted[f] = kb.epoch
=============================================================================
