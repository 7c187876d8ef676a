------------------------- MODULE KnowledgeBaseProofs -------------------------
(***************************************************************************)
(* Proofs about KnowledgeBase, for any numbers of nodes, jobs, deleters and  *)
(* uploads and any bounds.  KInv is the inductive invariant:                 *)
(*   TypeOK       the types;                                                 *)
(*   DeletionInv  how the phase of a deletion, the lifecycle, the scope of   *)
(*                the artifacts and the epochs of the deleters go together;  *)
(*   Owners       which job holds which fencing token.                       *)
(* JobsInv adds to it what a job with authority has copied of the head.      *)
(* The second half is about the knowledge base of a single node, LocalIngest. *)
(***************************************************************************)
EXTENDS KnowledgeBase, LocalState, WellFoundedInduction, TLAPS

(***************************************************************************)
(* A deletion that is not complete holds the knowledge base in "deleting", *)
(* and from its fence to the next creation the artifact scope refuses      *)
(* uploads: so what a deleter found empty stays empty while its epoch is   *)
(* that of the deletion row.                                               *)
(***************************************************************************)
DeletionInv ==
    /\ kb.life # "absent" => kb.epoch # 0
    /\ deletion.phase \in {"fenced", "cleaned"} => kb.life = "deleting"
    /\ deletion.phase = "complete" => kb.life = "deleted"
    /\ kb.life \in {"deleting", "deleted"} => ~ScopeWritable
    /\ \A d \in Deleters : saga[d] # None =>
          /\ saga[d].epoch <= kb.epoch
          /\ saga[d].step = "mark" /\ deletion.phase # "none" /\ saga[d].epoch = deletion.epoch
                => ~artifact.row
    /\ FrozenHeads
    /\ CleanedIsEmpty

KInv == TypeOK /\ DeletionInv

USE BoundsAssumption, NodesAssumption

-----------------------------------------------------------------------------
(* Types. *)

LEMMA TypeInit == Init => TypeOK
  BY DEF Init, TypeOK, Fences, SourceGeneration, Build

LEMMA RegistryType ==
    ASSUME TypeOK, Create \/ Expire PROVE TypeOK'
<1>1. CASE Create
  <2>1. kb.epoch + 1 \in 0..MaxEpoch
    BY <1>1 DEF TypeOK, Create
  <2>2. QED
    BY <1>1, <2>1 DEF TypeOK, Create, heads
<1>2. CASE Expire
  BY <1>2, ZenonT(30) DEF TypeOK, Expire, heads, store
<1>3. QED
  BY <1>1, <1>2

LEMMA AcquireType ==
    ASSUME TypeOK, NEW w \in Workers, NEW kind \in {"write", "rebuild", "mirror"},
           Acquire(w, kind)
    PROVE  TypeOK'
<1> DEFINE f == lease.fence + 1
           fresh == [fence |-> f, kind |-> kind, step |-> "leased",
                     target |-> IF kind = "mirror" THEN disk[NodeOf[w]].active ELSE f,
                     base |-> 0, hook |-> FALSE]
<1>1. f \in Fences /\ f \in 0..MaxFence
  <2>1. lease.fence \in 0..MaxFence
    BY DEF TypeOK
  <2>2. lease.fence < MaxFence
    BY DEF Acquire
  <2>3. QED
    BY <2>1, <2>2, BoundsAssumption DEF Fences
<1>2. disk[NodeOf[w]].active \in 0..MaxFence
  BY DEF TypeOK
<1>3. fresh \in Job
  BY <1>1, <1>2 DEF Job
<1> HIDE DEF fresh
<1>4. work' \in [Workers -> Job \union {None}]
  BY <1>3 DEF TypeOK, Acquire, fresh
<1>5. QED
  BY <1>1, <1>4 DEF TypeOK, Acquire, heads, store, Fences

\* What a job writes of its own row.
LEMMA WorkType ==
    ASSUME TypeOK, NEW w \in Workers, work[w] # None, JobStep(w)
    PROVE  /\ work' \in [Workers -> Job \union {None}]
           /\ work[w] \in Job
<1>1. work[w] \in Job
  BY DEF TypeOK
<1>2. ASSUME NEW st \in {"leased", "cached", "staging", "staged", "switched", "hooked",
                         "uploading"},
             NEW b \in 0..MaxFence, NEW h \in BOOLEAN
      PROVE  /\ [work[w] EXCEPT !.step = st] \in Job
             /\ [work[w] EXCEPT !.step = st, !.base = b] \in Job
             /\ [work[w] EXCEPT !.step = st, !.hook = h] \in Job
  <2>1. [work[w] EXCEPT !.step = st] \in Job
    BY <1>1, Zenon DEF Job
  <2>2. [work[w] EXCEPT !.step = st, !.base = b] \in Job
    BY <1>1, Zenon DEF Job
  <2>3. [work[w] EXCEPT !.step = st, !.hook = h] \in Job
    BY <1>1, Zenon DEF Job
  <2> QED
    BY <2>1, <2>2, <2>3
<1>3. CASE Materialize(w) \/ StageEnd(w) \/ SwitchActive(w) \/ BeginBuild(w)
  <2>1. PICK st \in {"cached", "staged", "switched", "uploading"} :
               work' = [work EXCEPT ![w].step = st]
    BY <1>3, Zenon DEF Materialize, StageEnd, SwitchActive, BeginBuild
  <2>2. QED
    BY <1>2, <2>1 DEF TypeOK
<1>4. CASE StageBegin(w)
  <2>1. head \in 0..MaxFence /\ work \in [Workers -> Job \union {None}]
    BY DEF TypeOK
  <2>2. work' = [work EXCEPT ![w] = [work[w] EXCEPT !.step = "staging", !.base = head]]
    BY <1>4, Zenon DEF StageBegin
  <2>3. [work[w] EXCEPT !.step = "staging", !.base = head] \in Job
    BY <1>2, <2>1
  <2> QED
    BY <2>1, <2>2, <2>3
<1>5. CASE StageSource(w)
  <2>1. PICK h \in BOOLEAN : work' = [work EXCEPT ![w].step = "hooked", ![w].hook = h]
    BY <1>5, Zenon DEF StageSource
  <2>2. QED
    BY <1>2, <2>1 DEF TypeOK
<1>6. CASE NothingToMirror(w) \/ PublishGeneration(w) \/ Abort(w) \/ Crash(w)
  BY <1>6 DEF TypeOK, NothingToMirror, PublishGeneration, Abort, Crash
<1>7. QED
  BY <1>1, <1>3, <1>4, <1>5, <1>6 DEF JobStep

\* What a job writes of the source generations and of its node's disk.
LEMMA SourceType ==
    ASSUME TypeOK, NEW w \in Workers, work[w] # None, JobStep(w)
    PROVE  /\ gens' \in [Fences -> SourceGeneration]
           /\ head' \in 0..MaxFence
           /\ disk' \in [Nodes -> [there : BOOLEAN, docs : SUBSET Fences, active : 0..MaxFence]]
<1> DEFINE Disk == [there : BOOLEAN, docs : SUBSET Fences, active : 0..MaxFence]
<1>1. work[w] \in Job /\ work[w].fence \in Fences /\ work[w].base \in 0..MaxFence
  BY DEF TypeOK, Job
<1>2. work[w].fence \in 0..MaxFence
  BY <1>1 DEF Fences
<1>3. NodeOf[w] \in Nodes /\ disk[NodeOf[w]] \in Disk
  BY DEF TypeOK
<1>4. disk \in [Nodes -> Disk] /\ gens \in [Fences -> SourceGeneration] /\ head \in 0..MaxFence
  BY DEF TypeOK
<1>5. DocsOf(head) \in SUBSET Fences
  BY <1>4 DEF DocsOf, Fences, SourceGeneration
<1>6. ASSUME NEW f \in Fences, NEW b \in 0..MaxFence, NEW docs \in SUBSET Fences
      PROVE  Prepared(f, b, docs) \in [Fences -> SourceGeneration]
  <2>1. [status |-> "prepared", base |-> b, docs |-> docs] \in SourceGeneration
    BY DEF SourceGeneration
  <2>2. QED
    BY <1>4, <2>1 DEF Prepared
<1>7. RolledBack(w) \in [Nodes -> Disk]
  <2>1. [disk[NodeOf[w]] EXCEPT !.docs = @ \ {work[w].fence}] \in Disk
    BY <1>3
  <2>2. QED
    BY <1>3, <1>4, <2>1 DEF RolledBack
<1>8. ASSUME NEW g \in 0..MaxFence PROVE Superseded(g) \in [Fences -> SourceGeneration]
  BY <1>4 DEF Superseded, SourceGeneration, Fences
<1>9. CASE Materialize(w)
  <2> DEFINE new == [there |-> TRUE, active |-> disk[NodeOf[w]].active,
                     docs |-> DocsOf(head) \union
                                (IF work[w].kind = "write" THEN {work[w].fence} ELSE {})]
  <2>1. new \in Disk
    BY <1>1, <1>3, <1>5
  <2> HIDE DEF new
  <2>2. disk' = [disk EXCEPT ![NodeOf[w]] = new]
    BY <1>9, Zenon DEF Materialize, new
  <2>3. QED
    BY <1>4, <1>9, <2>1, <2>2 DEF Materialize, heads
<1>10. CASE StageBegin(w) \/ BeginBuild(w) \/ NothingToMirror(w)
  BY <1>4, <1>10 DEF StageBegin, BeginBuild, NothingToMirror, heads
<1>11. CASE StageEnd(w)
  BY <1>1, <1>3, <1>4, <1>6, <1>11 DEF StageEnd
<1>12. CASE SwitchActive(w)
  <2>1. [disk[NodeOf[w]] EXCEPT !.active = work[w].fence] \in Disk
    BY <1>2, <1>3
  <2>2. QED
    BY <1>4, <1>12, <2>1 DEF SwitchActive
<1>13. CASE StageSource(w)
  BY <1>1, <1>3, <1>4, <1>6, <1>13 DEF StageSource
<1>14. CASE PublishGeneration(w)
  <2> DEFINE old == Superseded(head)
  <2>1. old \in [Fences -> SourceGeneration]
    BY <1>4, <1>8
  <2> HIDE DEF old
  <2>2. [old[work[w].fence] EXCEPT !.status = "active"] \in SourceGeneration
    BY <1>1, <2>1 DEF SourceGeneration
  <2>3. [old EXCEPT ![work[w].fence].status = "active"] \in [Fences -> SourceGeneration]
    BY <2>1, <2>2
  <2>4. QED
    BY <1>2, <1>4, <1>14, <2>3 DEF PublishGeneration, old
<1>15. CASE Abort(w) \/ Crash(w)
  BY <1>4, <1>7, <1>15 DEF Abort, Crash, heads
<1>16. QED
  BY <1>9, <1>10, <1>11, <1>12, <1>13, <1>14, <1>15 DEF JobStep

\* What a job writes of the index generations and of the lease.
LEMMA IndexType ==
    ASSUME TypeOK, NEW w \in Workers, work[w] # None, JobStep(w)
    PROVE  /\ builds' \in [Fences -> Build]
           /\ index' \in [build : 0..MaxFence, fence : Nat]
           /\ lease' \in [fence : 0..MaxFence, live : BOOLEAN]
<1>1. work[w].fence \in Fences /\ work[w].target \in 0..MaxFence
  BY DEF TypeOK, Job
<1>2. /\ builds \in [Fences -> Build]
      /\ index \in [build : 0..MaxFence, fence : Nat]
      /\ lease \in [fence : 0..MaxFence, live : BOOLEAN]
      /\ disk[NodeOf[w]].docs \in SUBSET Fences
  BY DEF TypeOK
<1>3. Released(work[w].fence) \in [fence : 0..MaxFence, live : BOOLEAN]
  BY <1>2 DEF Released
<1>4. CASE Materialize(w) \/ StageBegin(w) \/ StageEnd(w) \/ StageSource(w) \/ Crash(w)
  BY <1>2, <1>4 DEF Materialize, StageBegin, StageEnd, StageSource, Crash, registry, heads
<1>5. CASE NothingToMirror(w) \/ Abort(w)
  BY <1>2, <1>3, <1>5 DEF NothingToMirror, Abort, heads
<1>6. CASE SwitchActive(w)
  <2>1. builds[work[w].fence] \in Build
    BY <1>1, <1>2
  <2>2. [builds[work[w].fence] EXCEPT !.status = "local", !.docs = disk[NodeOf[w]].docs] \in Build
    BY <1>2, <2>1, Zenon DEF Build
  <2>3. QED
    BY <1>2, <1>6, <2>2 DEF SwitchActive, registry
<1>7. CASE BeginBuild(w)
  <2> DEFINE t == work[w].target
  <2>1. index.fence + 1 \in Nat /\ index.build \in 0..MaxFence
    BY <1>2
  <2>2. ASSUME t \in Fences
        PROVE  [builds[t] EXCEPT !.status = "building", !.fence = index.fence + 1,
                                 !.base = index.build] \in Build
    <3>1. builds[t] \in Build
      BY <1>2, <2>2
    <3>2. QED
      BY <2>1, <3>1, Zenon DEF Build
  <2>3. [builds EXCEPT ![t].status = "building", ![t].fence = index.fence + 1,
                       ![t].base = index.build] \in [Fences -> Build]
    BY <1>2, <2>2
  <2>4. [index EXCEPT !.fence = @ + 1] \in [build : 0..MaxFence, fence : Nat]
    BY <1>2, <2>1
  <2>5. QED
    BY <1>2, <1>7, <2>3, <2>4 DEF BeginBuild, registry
<1>8. CASE PublishGeneration(w)
  <2> DEFINE t == work[w].target
  <2>1. ASSUME t \in Fences PROVE [builds[t] EXCEPT !.status = "published"] \in Build
    BY <1>2, <2>1 DEF Build
  <2>2. [builds EXCEPT ![t].status = "published"] \in [Fences -> Build]
    BY <1>2, <2>1
  <2>3. [index EXCEPT !.build = t] \in [build : 0..MaxFence, fence : Nat]
    BY <1>1, <1>2
  <2>4. QED
    BY <1>3, <1>8, <2>2, <2>3 DEF PublishGeneration
<1>9. QED
  BY <1>4, <1>5, <1>6, <1>7, <1>8 DEF JobStep

\* What no step of a job writes.
LEMMA JobFrame ==
    ASSUME NEW w \in Workers, JobStep(w)
    PROVE  /\ UNCHANGED <<kb, deletion, granted, saga, store, faults>>
           /\ work[w] # None
  BY DEF JobStep, Materialize, StageBegin, StageEnd, SwitchActive, StageSource, BeginBuild,
         NothingToMirror, PublishGeneration, Abort, Crash, At, registry

LEMMA JobType ==
    ASSUME TypeOK, NEW w \in Workers, JobStep(w)
    PROVE  TypeOK'
  BY JobFrame, WorkType, SourceType, IndexType DEF TypeOK, store

\* What no step of a deletion writes.
LEMMA SagaFrame ==
    ASSUME NEW d \in Deleters, Begin(d) \/ Resume(d) \/ Break(d) \/ SagaStep(d)
    PROVE  UNCHANGED <<granted, builds, work, put>>
  BY DEF SagaStep, Begin, Resume, Break, FenceScope, DeleteObjects, DeleteRows, MarkCleaned,
         Finalize, FinishLate, PurgeCache, GiveUp, registry, heads, store

LEMMA BeginType ==
    ASSUME TypeOK, NEW d \in Deleters, Begin(d)
    PROVE  TypeOK'
<1> DEFINE e == kb.epoch + 1
<1>1. e \in Epochs /\ e \in 0..MaxEpoch
  BY DEF TypeOK, Begin, Epochs
<1>2. index.build \in 0..MaxFence /\ head \in 0..MaxFence
  BY DEF TypeOK
<1>3. [step |-> "clean", epoch |-> e, row |-> FALSE] \in Saga
  BY <1>1 DEF Saga
<1>4. saga' \in [Deleters -> Saga \union {None}]
  BY <1>3 DEF TypeOK, Begin
<1>5. /\ deletion' \in [phase : {"none", "fenced", "cleaned", "complete"},
                        epoch : 0..MaxEpoch, index : 0..MaxFence, head : 0..MaxFence]
      /\ kb' \in [life : {"absent", "active", "deleting", "deleted"}, epoch : 0..MaxEpoch]
      /\ scope' \in [state : {"none", "active", "deleting", "deleted"}, epoch : 0..MaxEpoch]
      /\ lease' \in [fence : 0..MaxFence, live : BOOLEAN]
  BY <1>1, <1>2 DEF TypeOK, Begin
<1>6. QED
  BY <1>4, <1>5 DEF TypeOK, Begin, heads

LEMMA SagaRowType ==
    ASSUME TypeOK, DeletionInv, NEW d \in Deleters, Resume(d) \/ Break(d) \/ SagaStep(d)
    PROVE  saga' \in [Deleters -> Saga \union {None}] /\ faults' \in 0..MaxFaults
<1>1. CASE Break(d) \/ FinishLate(d) \/ PurgeCache(d) \/ GiveUp(d)
  BY <1>1 DEF TypeOK, Break, FinishLate, PurgeCache, GiveUp
<1>2. CASE Resume(d)
  <2>1. kb.epoch \in Epochs
    BY <1>2 DEF TypeOK, DeletionInv, Resume, Epochs
  <2>2. [step |-> IF deletion.phase = "fenced" THEN "clean" ELSE "finalize",
         epoch |-> kb.epoch, row |-> FALSE] \in Saga
    BY <2>1 DEF Saga
  <2>3. QED
    BY <1>2, <2>2 DEF TypeOK, Resume, Repeats
<1>3. ASSUME saga[d] # None,
             NEW st \in {"clean", "objects", "rows", "mark", "finalize", "purge"},
             NEW r \in BOOLEAN
      PROVE  /\ [saga[d] EXCEPT !.step = st] \in Saga
             /\ [saga[d] EXCEPT !.step = st, !.row = r] \in Saga
  <2>1. saga[d] \in Saga
    BY <1>3 DEF TypeOK
  <2>2. QED
    BY <2>1, Zenon DEF Saga
<1>4. CASE FenceScope(d)
  <2>1. artifact.row \in BOOLEAN
    BY DEF TypeOK
  <2>2. QED
    BY <1>3, <1>4, <2>1 DEF TypeOK, FenceScope, Deleting
<1>5. CASE DeleteObjects(d) \/ DeleteRows(d) \/ MarkCleaned(d) \/ Finalize(d)
  <2>1. PICK st \in {"rows", "mark", "finalize", "purge"} :
               saga' = [saga EXCEPT ![d].step = st]
    BY <1>5, Zenon DEF DeleteObjects, DeleteRows, MarkCleaned, Finalize
  <2>2. saga[d] # None /\ faults' = faults
    BY <1>5 DEF DeleteObjects, DeleteRows, MarkCleaned, Finalize, Deleting
  <2>3. QED
    BY <1>3, <2>1, <2>2 DEF TypeOK
<1>6. QED
  BY <1>1, <1>2, <1>4, <1>5 DEF SagaStep

LEMMA SagaType ==
    ASSUME TypeOK, DeletionInv, NEW d \in Deleters, Resume(d) \/ Break(d) \/ SagaStep(d)
    PROVE  TypeOK'
<1>1. saga' \in [Deleters -> Saga \union {None}] /\ faults' \in 0..MaxFaults
  BY SagaRowType
<1>2. CASE Resume(d) \/ Break(d) \/ FinishLate(d) \/ GiveUp(d)
  BY <1>1, <1>2 DEF TypeOK, Resume, Break, FinishLate, GiveUp, registry, heads, store
<1>3. CASE FenceScope(d)
  <2>1. saga[d].epoch \in 0..MaxEpoch
    BY <1>3 DEF TypeOK, FenceScope, Deleting, Saga, Epochs
  <2>2. QED
    BY <1>1, <1>3, <2>1 DEF TypeOK, FenceScope, registry, heads
<1>4. CASE DeleteObjects(d)
  <2>1. artifact' \in [row : BOOLEAN, intent : {"none", "live", "expired"}, object : BOOLEAN]
    BY <1>4, Zenon DEF TypeOK, DeleteObjects
  <2>2. QED
    BY <1>1, <1>4, <2>1 DEF TypeOK, DeleteObjects, registry, heads
<1>5. CASE DeleteRows(d)
  <2>1. artifact' \in [row : BOOLEAN, intent : {"none", "live", "expired"}, object : BOOLEAN]
    BY <1>5 DEF TypeOK, DeleteRows
  <2>2. QED
    BY <1>1, <1>5, <2>1 DEF TypeOK, DeleteRows, registry, heads
<1>6. CASE MarkCleaned(d)
  BY <1>1, <1>6 DEF TypeOK, MarkCleaned, heads, store
<1>7. CASE Finalize(d)
  <2>1. Superseded(head) \in [Fences -> SourceGeneration]
    <3>1. head \in 0..MaxFence /\ gens \in [Fences -> SourceGeneration]
      BY DEF TypeOK
    <3>2. QED
      BY <3>1 DEF Superseded, SourceGeneration, Fences
  <2>2. /\ kb' \in [life : {"absent", "active", "deleting", "deleted"}, epoch : 0..MaxEpoch]
        /\ deletion' \in [phase : {"none", "fenced", "cleaned", "complete"},
                          epoch : 0..MaxEpoch, index : 0..MaxFence, head : 0..MaxFence]
        /\ index' \in [build : 0..MaxFence, fence : Nat]
        /\ head' \in 0..MaxFence
    BY <1>7 DEF TypeOK, Finalize
  <2>3. QED
    BY <1>1, <1>7, <2>1, <2>2 DEF TypeOK, Finalize, store
<1>8. CASE PurgeCache(d)
  BY <1>1, <1>8 DEF TypeOK, PurgeCache, registry, heads, store
<1>9. QED
  BY <1>2, <1>3, <1>4, <1>5, <1>6, <1>7, <1>8 DEF SagaStep

LEMMA StoreType ==
    ASSUME TypeOK, (\E u \in Uploaders : PutStep(u)) \/ IntentExpires \/ CollectOrphans
    PROVE  TypeOK'
<1> DEFINE Artifact == [row : BOOLEAN, intent : {"none", "live", "expired"}, object : BOOLEAN]
<1>1. UNCHANGED <<registry, heads, disk, work, saga, scope, faults>>
  BY DEF PutStep, PutIntent, PutObject, PutCommit, PutFails, IntentExpires, CollectOrphans
<1>2. put' \in [Uploaders -> {"idle", "upload", "commit"}]
  BY DEF TypeOK, PutStep, PutIntent, PutObject, PutCommit, PutFails, IntentExpires, CollectOrphans
<1>3. artifact \in Artifact
  BY DEF TypeOK
<1>4. artifact' \in Artifact
  <2>1. CASE \E u \in Uploaders : PutStep(u)
    BY <1>3, <2>1, Zenon DEF PutStep, PutIntent, PutObject, PutCommit, PutFails
  <2>2. CASE IntentExpires
    BY <1>3, <2>2 DEF IntentExpires
  <2>3. CASE CollectOrphans
    <3>1. PICK i \in {"live", "none"}, o \in BOOLEAN :
                 artifact' = [artifact EXCEPT !.object = o, !.intent = i]
      BY <1>3, <2>3, Zenon DEF CollectOrphans
    <3>2. QED
      BY <1>3, <3>1
  <2>4. QED
    BY <2>1, <2>2, <2>3
<1>5. QED
  BY <1>1, <1>2, <1>4 DEF TypeOK, registry, heads

LEMMA TypeStep == TypeOK /\ DeletionInv /\ [Next]_vars => TypeOK'
<1> SUFFICES ASSUME TypeOK, DeletionInv, [Next]_vars PROVE TypeOK'
  OBVIOUS
<1>1. CASE UNCHANGED vars
  BY <1>1 DEF TypeOK, vars
<1>2. ASSUME NEW w \in Workers, StartJob(w) \/ Reconcile(w) \/ JobStep(w) PROVE TypeOK'
  BY <1>2, AcquireType, JobType DEF StartJob, Reconcile
<1>3. QED
  BY <1>1, <1>2, RegistryType, BeginType, SagaType, StoreType DEF Next

-----------------------------------------------------------------------------
(* The deletion. *)

LEMMA DeletionInit == Init => DeletionInv
  BY DEF Init, DeletionInv, FrozenHeads, CleanedIsEmpty, ScopeWritable

\* Steps that touch neither the lifecycle nor the deletion, the scope or the row.
LEMMA DeletionFrame ==
    ASSUME DeletionInv, UNCHANGED <<kb, deletion, saga, scope, artifact>>,
           UNCHANGED <<index.build, head>> \/ kb.life = "active"
    PROVE  DeletionInv'
  BY DEF DeletionInv, FrozenHeads, CleanedIsEmpty, ScopeWritable

LEMMA JobDeletion ==
    ASSUME KInv, NEW w \in Workers, StartJob(w) \/ Reconcile(w) \/ JobStep(w)
    PROVE  DeletionInv'
<1>1. CASE StartJob(w) \/ Reconcile(w)
  BY <1>1, DeletionFrame DEF KInv, StartJob, Reconcile, Acquire, heads, store
<1>2. CASE JobStep(w)
  <2>1. UNCHANGED <<index.build, head>> \/ kb.life = "active"
    <3>1. CASE BeginBuild(w) \/ PublishGeneration(w)
      BY <3>1 DEF BeginBuild, PublishGeneration, IndexActive
    <3>2. CASE ~(BeginBuild(w) \/ PublishGeneration(w))
      BY <1>2, <3>2 DEF JobStep, Materialize, StageBegin, StageEnd, SwitchActive, StageSource,
                        NothingToMirror, Abort, Crash, heads
    <3>3. QED
      BY <3>1, <3>2
  <2>2. QED
    BY <1>2, <2>1, JobFrame, DeletionFrame DEF KInv, store
<1>3. QED
  BY <1>1, <1>2

LEMMA CreateDeletion == ASSUME KInv, Create PROVE DeletionInv'
  BY DEF KInv, TypeOK, DeletionInv, Create, FrozenHeads, CleanedIsEmpty, ScopeWritable, Saga, Epochs

LEMMA BeginDeletion ==
    ASSUME KInv, NEW d \in Deleters, Begin(d)
    PROVE  DeletionInv'
<1> DEFINE e == kb.epoch + 1
<1>1. kb.epoch \in Nat
  BY DEF KInv, TypeOK
<1>2. /\ kb' = [life |-> "deleting", epoch |-> e]
      /\ deletion' = [phase |-> "fenced", epoch |-> e, index |-> index.build, head |-> head]
      /\ scope' = [state |-> "deleting", epoch |-> e]
      /\ saga' = [saga EXCEPT ![d] = [step |-> "clean", epoch |-> e, row |-> FALSE]]
      /\ UNCHANGED <<index, head>>
  BY DEF Begin, heads
<1>3. ASSUME NEW c \in Deleters, saga'[c] # None
      PROVE  saga'[c].epoch <= kb'.epoch
             /\ (saga'[c].step = "mark" => saga'[c].epoch # deletion'.epoch)
  <2>1. CASE c = d
    BY <1>1, <1>2, <2>1 DEF KInv, TypeOK
  <2>2. CASE c # d
    <3>1. saga'[c] = saga[c] /\ saga[c].epoch \in Nat /\ saga[c].epoch <= kb.epoch
      BY <1>2, <1>3, <2>2 DEF KInv, TypeOK, DeletionInv, Saga, Epochs
    <3>2. QED
      BY <1>1, <1>2, <3>1
  <2>3. QED
    BY <2>1, <2>2
<1>4. kb'.epoch # 0
  BY <1>1, <1>2
<1>5. QED
  BY <1>2, <1>3, <1>4 DEF DeletionInv, FrozenHeads, CleanedIsEmpty, ScopeWritable

\* The deleter's own row, in a step that moves it on within its deletion.
LEMMA SagaDeletion ==
    ASSUME KInv, NEW d \in Deleters, Resume(d) \/ Break(d) \/ SagaStep(d)
    PROVE  DeletionInv'
<1> USE DEF KInv
<1>1. CASE Resume(d)
  <2>1. kb.epoch \in Nat
    BY DEF TypeOK
  <2>2. QED
    BY <1>1, <2>1 DEF TypeOK, DeletionInv, FrozenHeads, CleanedIsEmpty, ScopeWritable, Resume,
                      registry, heads, store
<1>2. CASE Break(d) \/ FinishLate(d) \/ GiveUp(d) \/ PurgeCache(d)
  <2>1. /\ saga' = [saga EXCEPT ![d] = None]
        /\ UNCHANGED <<kb, deletion, index, head, scope, artifact>>
    BY <1>2 DEF Break, FinishLate, GiveUp, PurgeCache, registry, heads, store
  <2>2. QED
    BY <2>1 DEF TypeOK, DeletionInv, FrozenHeads, CleanedIsEmpty, ScopeWritable
<1>3. CASE FenceScope(d)
  BY <1>3 DEF TypeOK, Saga, DeletionInv, FrozenHeads, CleanedIsEmpty, ScopeWritable, FenceScope,
              Deleting, registry, heads
<1>4. CASE DeleteObjects(d)
  BY <1>4 DEF TypeOK, Saga, DeletionInv, FrozenHeads, CleanedIsEmpty, ScopeWritable,
              DeleteObjects, Deleting, registry, heads
<1>5. CASE DeleteRows(d)
  BY <1>5 DEF TypeOK, Saga, DeletionInv, FrozenHeads, CleanedIsEmpty, ScopeWritable,
              DeleteRows, Deleting, registry, heads
<1>6. CASE MarkCleaned(d)
  BY <1>6 DEF TypeOK, Saga, DeletionInv, FrozenHeads, CleanedIsEmpty, ScopeWritable,
              MarkCleaned, Deleting, heads, store
<1>7. CASE Finalize(d)
  BY <1>7 DEF TypeOK, Saga, DeletionInv, FrozenHeads, CleanedIsEmpty, ScopeWritable,
              Finalize, Deleting, store
<1>8. QED
  BY <1>1, <1>2, <1>3, <1>4, <1>5, <1>6, <1>7 DEF SagaStep

LEMMA StoreDeletion ==
    ASSUME KInv, (\E u \in Uploaders : PutStep(u)) \/ IntentExpires \/ CollectOrphans
    PROVE  DeletionInv'
<1>1. UNCHANGED <<registry, heads, disk, work, saga, scope, faults>>
  BY DEF PutStep, PutIntent, PutObject, PutCommit, PutFails, IntentExpires, CollectOrphans
<1>2. artifact'.row = artifact.row \/ ScopeWritable
  BY ZenonT(30) DEF KInv, TypeOK, PutStep, PutIntent, PutObject, PutCommit, PutFails, IntentExpires, CollectOrphans
<1>3. deletion.phase # "none" => ~ScopeWritable
  BY DEF KInv, TypeOK, DeletionInv
<1>4. QED
  BY <1>1, <1>2, <1>3 DEF KInv, DeletionInv, FrozenHeads, CleanedIsEmpty, ScopeWritable, registry, heads

LEMMA KStep == KInv /\ [Next]_vars => KInv'
<1> SUFFICES ASSUME KInv, [Next]_vars PROVE KInv'
  OBVIOUS
<1>1. TypeOK'
  BY TypeStep DEF KInv
<1>2. CASE UNCHANGED vars
  BY <1>2, <1>1, DeletionFrame DEF KInv, vars
<1>3. CASE Expire
  BY <1>3, <1>1, DeletionFrame DEF KInv, Expire, heads, store
<1>4. QED
  BY <1>1, <1>2, <1>3, CreateDeletion, JobDeletion, BeginDeletion, SagaDeletion, StoreDeletion
  DEF KInv, Next

(***************************************************************************)
(* KInv is an invariant of every knowledge base.                           *)
(***************************************************************************)
THEOREM Inductive == Spec => []KInv
<1>1. Init => KInv
  BY TypeInit, DeletionInit DEF KInv
<1>2. QED
  BY <1>1, KStep, PTL DEF Spec

(***************************************************************************)
(* The registry row, the deletion, the lease, the generations and the      *)
(* state of every thread keep their types.                                 *)
(***************************************************************************)
THEOREM TypeCorrect == Spec => []TypeOK
  BY Inductive, PTL DEF KInv

(***************************************************************************)
(* From the fence of a deletion to its last transaction neither head       *)
(* moves: _finalize of ha/kb_deletion.py finds the heads it recorded,      *)
(* whatever jobs of the old incarnation are still running.                 *)
(***************************************************************************)
THEOREM HeadsFrozen == Spec => []FrozenHeads
<1>1. KInv => FrozenHeads
  BY DEF KInv, DeletionInv
<1>2. QED
  BY <1>1, Inductive, PTL

(***************************************************************************)
(* Once _clean has been reported, no put that was under way brings a row   *)
(* of the artifact table back before the knowledge base is created again,  *)
(* however many deleters have run and broken off.                          *)
(***************************************************************************)
THEOREM CleanedStaysEmpty == Spec => []CleanedIsEmpty
<1>1. KInv => CleanedIsEmpty
  BY DEF KInv, DeletionInv
<1>2. QED
  BY <1>1, Inductive, PTL

-----------------------------------------------------------------------------
(***************************************************************************)
(* The jobs.  The fencing token of a running job is its own, was granted   *)
(* under an epoch that has passed once the knowledge base is not active,   *)
(* and is not the current source generation.                               *)
(***************************************************************************)
Owners ==
    /\ head <= lease.fence
    /\ \A w \in Workers : work[w] # None =>
          /\ work[w].fence <= lease.fence
          /\ work[w].fence # head
          /\ granted[work[w].fence] <= kb.epoch
          /\ kb.life # "active" => granted[work[w].fence] < kb.epoch
          /\ \A v \in Workers : work[v] # None /\ work[v].fence = work[w].fence => v = w

\* A document is on a disk or in a generation only after its upload was copied in.
Uploads(f) ==
    /\ f <= lease.fence
    /\ \A w \in Workers : work[w] # None /\ work[w].fence = f =>
          work[w].kind = "write" /\ work[w].step # "leased"

Uploaded ==
    /\ \A g \in Fences : \A f \in gens[g].docs : Uploads(f)
    /\ \A n \in Nodes : \A f \in disk[n].docs : Uploads(f)

\* No later lease, and no deletion, has taken the authority of f away.
Authorized(f) == lease.fence = f /\ kb.life = "active" /\ kb.epoch = granted[f]

(***************************************************************************)
(* While an upload has authority its node's directory is the head plus the *)
(* document, unless a deletion purged it, and so is what it stages.        *)
(***************************************************************************)
Snapshot(w) ==
    work[w] # None /\ work[w].kind = "write" /\ Authorized(work[w].fence) =>
      /\ work[w].step \in {"cached", "staging"} /\ disk[NodeOf[w]].there =>
            disk[NodeOf[w]].docs = DocsOf(head) \union {work[w].fence}
      /\ work[w].step \in {"staged", "switched", "hooked", "uploading"} =>
            /\ gens[work[w].fence].status = "prepared"
            /\ gens[work[w].fence].docs = DocsOf(head) \union {work[w].fence}

\* kb_write_lock: at most one job of a node is at work on its directory.
WriteLocked ==
    \A v, w \in Workers : Writing(v) /\ Writing(w) /\ NodeOf[v] = NodeOf[w] => v = w

JobsInv == KInv /\ Owners /\ Uploaded /\ WriteLocked /\ \A w \in Workers : Snapshot(w)

\* What the step of one job does to the rows of all of them and to the head.
LEMMA JobEffect ==
    ASSUME TypeOK, NEW v \in Workers, JobStep(v)
    PROVE  /\ lease'.fence = lease.fence
           /\ \A w \in Workers \ {v} : work'[w] = work[w]
           /\ \/ work'[v] = None
              \/ /\ work'[v].fence = work[v].fence
                 /\ work'[v].kind = work[v].kind
                 /\ work'[v].step # "leased"
           /\ \/ head' = head
              \/ /\ head' = work[v].fence
                 /\ work'[v] = None
                 /\ Live(work[v].fence)
<1>1. work[v] \in Job
  BY JobFrame DEF TypeOK
<1>2. CASE Materialize(v) \/ StageEnd(v) \/ SwitchActive(v) \/ BeginBuild(v)
  <2>1. PICK st \in {"cached", "staged", "switched", "uploading"} :
               work' = [work EXCEPT ![v].step = st]
    BY <1>2, Zenon DEF Materialize, StageEnd, SwitchActive, BeginBuild
  <2>2. UNCHANGED <<lease, head>>
    BY <1>2 DEF Materialize, StageEnd, SwitchActive, BeginBuild, registry, heads
  <2>3. QED
    BY <1>1, <2>1, <2>2 DEF TypeOK, Job
<1>3. CASE StageBegin(v)
  BY <1>1, <1>3 DEF TypeOK, Job, StageBegin, registry, heads
<1>4. CASE StageSource(v)
  <2>1. PICK h \in BOOLEAN : work' = [work EXCEPT ![v].step = "hooked", ![v].hook = h]
    BY <1>4, Zenon DEF StageSource
  <2>2. UNCHANGED <<lease, head>>
    BY <1>4 DEF StageSource, registry
  <2>3. QED
    BY <1>1, <2>1, <2>2 DEF TypeOK, Job
<1>5. CASE NothingToMirror(v) \/ Abort(v) \/ Crash(v)
  BY <1>5 DEF TypeOK, NothingToMirror, Abort, Crash, Released, registry, heads
<1>6. CASE PublishGeneration(v)
  BY <1>6 DEF TypeOK, PublishGeneration, SourcePublishable, Released
<1>7. QED
  BY <1>2, <1>3, <1>4, <1>5, <1>6 DEF JobStep

LEMMA JobOwners ==
    ASSUME TypeOK, Owners, NEW v \in Workers, JobStep(v)
    PROVE  Owners'
<1>1. UNCHANGED <<kb, granted>> /\ work[v] # None
  BY JobFrame
<1>2. \A w \in Workers : work'[w] # None => work[w] # None /\ work'[w].fence = work[w].fence
  BY <1>1, JobEffect
<1>3. lease'.fence = lease.fence
  BY JobEffect
<1>4. head' <= lease'.fence
  BY <1>1, <1>3, JobEffect DEF Owners
<1>5. ASSUME NEW w \in Workers, work'[w] # None PROVE work'[w].fence # head'
  BY <1>1, <1>2, <1>5, JobEffect DEF Owners
<1>6. QED
  BY <1>1, <1>2, <1>3, <1>4, <1>5 DEF Owners

LEMMA AcquireOwners ==
    ASSUME TypeOK, Owners, NEW v \in Workers, NEW kind \in {"write", "rebuild", "mirror"},
           Acquire(v, kind)
    PROVE  Owners'
<1> DEFINE f == lease.fence + 1
<1>1. f \in Fences /\ lease'.fence = f /\ lease.fence \in Nat /\ head \in Nat
  <2>1. lease.fence \in 0..MaxFence /\ head \in Nat
    BY DEF TypeOK
  <2>2. lease.fence < MaxFence /\ lease'.fence = f
    BY DEF Acquire
  <2>3. QED
    BY <2>1, <2>2, BoundsAssumption DEF Fences
<1>2. work'[v].fence = f /\ granted'[f] = kb.epoch /\ kb.epoch \in Nat
  BY <1>1 DEF TypeOK, Acquire
<1>3. \A w \in Workers \ {v} : work'[w] = work[w]
  BY DEF TypeOK, Acquire
<1>4. ASSUME NEW w \in Workers, w # v, work'[w] # None
      PROVE  /\ work'[w].fence \in Nat
             /\ work'[w].fence < f
             /\ work'[w].fence # head
             /\ granted'[work'[w].fence] <= kb.epoch
  <2>1. work'[w] = work[w] /\ work[w].fence \in Fences /\ work[w].fence <= lease.fence
    BY <1>3, <1>4 DEF TypeOK, Job, Owners
  <2>2. work[w].fence \in Nat /\ work[w].fence # f
    BY <1>1, <2>1 DEF Fences
  <2>3. granted'[work[w].fence] = granted[work[w].fence]
    BY <2>1, <2>2 DEF TypeOK, Acquire
  <2>4. QED
    BY <1>1, <1>4, <2>1, <2>2, <2>3 DEF Owners
<1>5. UNCHANGED <<kb, head>> /\ kb.life = "active"
  BY DEF Acquire, heads
<1>6. head < f
  BY <1>1 DEF Owners
<1>7. ASSUME NEW w \in Workers, work'[w] # None
      PROVE  /\ work'[w].fence <= f
             /\ work'[w].fence # head
             /\ granted'[work'[w].fence] <= kb.epoch
  <2>1. CASE w = v
    BY <1>1, <1>2, <1>6, <2>1
  <2>2. CASE w # v
    BY <1>1, <1>4, <1>7, <2>2
  <2>3. QED
    BY <2>1, <2>2
<1>8. ASSUME NEW w \in Workers, NEW u \in Workers, work'[w] # None, work'[u] # None,
             work'[u].fence = work'[w].fence
      PROVE  u = w
  <2>1. CASE u = v \/ w = v
    BY <1>1, <1>2, <1>4, <1>8, <2>1
  <2>2. CASE u # v /\ w # v
    BY <1>3, <1>8, <2>2 DEF Owners
  <2>3. QED
    BY <2>1, <2>2
<1>9. QED
  BY <1>1, <1>5, <1>6, <1>7, <1>8 DEF Owners

\* A step that is not one of a job, nor its start.
Aside ==
    \/ UNCHANGED vars \/ Create \/ Expire \/ IntentExpires \/ CollectOrphans
    \/ \E d \in Deleters : Begin(d) \/ Resume(d) \/ Break(d) \/ SagaStep(d)
    \/ \E u \in Uploaders : PutStep(u)

LEMMA AsideEffect ==
    ASSUME KInv, Aside
    PROVE  /\ UNCHANGED <<granted, work>> /\ lease'.fence = lease.fence
           /\ head' = head \/ (head' = 0 /\ kb'.life # "active")
           /\ \/ kb' = kb
              \/ kb'.epoch = kb.epoch + 1
              \/ kb.life # "active" /\ kb'.epoch = kb.epoch
           /\ \A g \in Fences : gens'[g].docs = gens[g].docs
           /\ \A g \in Fences : g # head => gens'[g] = gens[g]
           /\ \A n \in Nodes : disk'[n] = disk[n] \/ (disk'[n].docs = {} /\ ~disk'[n].there)
<1> USE DEF Aside
<1>1. UNCHANGED <<granted, work>> /\ lease'.fence = lease.fence
  <2>1. CASE UNCHANGED vars \/ Create \/ Expire \/ IntentExpires \/ CollectOrphans
    BY <2>1 DEF KInv, TypeOK, vars, Create, Expire, IntentExpires, CollectOrphans, registry
  <2>2. CASE \E d \in Deleters : Begin(d) \/ Resume(d) \/ Break(d) \/ SagaStep(d)
    BY <2>2, SagaFrame DEF KInv, TypeOK, SagaStep, Begin, Resume, Break, FenceScope, DeleteObjects,
           DeleteRows, MarkCleaned, Finalize, FinishLate, PurgeCache, GiveUp, registry
  <2>3. CASE \E u \in Uploaders : PutStep(u)
    BY <2>3 DEF PutStep, PutIntent, PutObject, PutCommit, PutFails, registry
  <2>4. QED
    BY <2>1, <2>2, <2>3
<1>2. head' = head \/ (head' = 0 /\ kb'.life # "active")
  BY ZenonT(30) DEF KInv, TypeOK, vars, Create, Expire, IntentExpires, CollectOrphans, PutStep, PutIntent, PutObject,
         PutCommit, PutFails, SagaStep, Begin, Resume, Break, FenceScope, DeleteObjects,
         DeleteRows, MarkCleaned, Finalize, FinishLate, PurgeCache, GiveUp, registry, heads, store
<1>3. \/ kb' = kb
      \/ kb'.epoch = kb.epoch + 1
      \/ kb.life # "active" /\ kb'.epoch = kb.epoch
  <2>1. CASE Create \/ \E d \in Deleters : Begin(d)
    BY <2>1 DEF Create, Begin
  <2>2. CASE \E d \in Deleters : Finalize(d)
    <3>1. kb' = [kb EXCEPT !.life = "deleted"] /\ kb.life = "deleting"
      BY <2>2 DEF Finalize
    <3>2. QED
      BY <3>1 DEF KInv, TypeOK
  <2>3. CASE ~(Create \/ \E d \in Deleters : Begin(d) \/ Finalize(d))
    BY <2>3 DEF vars, Expire, IntentExpires, CollectOrphans, PutStep, PutIntent, PutObject,
           PutCommit, PutFails, SagaStep, Resume, Break, FenceScope, DeleteObjects, DeleteRows,
           MarkCleaned, FinishLate, PurgeCache, GiveUp, registry
  <2>4. QED
    BY <2>1, <2>2, <2>3
<1>4. \A g \in Fences : gens'[g].docs = gens[g].docs /\ (g # head => gens'[g] = gens[g])
  <2>1. CASE \E d \in Deleters : Finalize(d)
    <3>1. gens' = Superseded(head) /\ gens \in [Fences -> SourceGeneration]
      BY <2>1 DEF KInv, TypeOK, Finalize
    <3>2. QED
      BY <3>1 DEF Superseded, SourceGeneration
  <2>2. CASE ~\E d \in Deleters : Finalize(d)
    BY <2>2 DEF vars, Create, Expire, IntentExpires, CollectOrphans, PutStep, PutIntent, PutObject,
           PutCommit, PutFails, SagaStep, Begin, Resume, Break, FenceScope, DeleteObjects,
           DeleteRows, MarkCleaned, FinishLate, PurgeCache, GiveUp, heads
  <2>3. QED
    BY <2>1, <2>2
<1>5. \A n \in Nodes : disk'[n] = disk[n] \/ (disk'[n].docs = {} /\ ~disk'[n].there)
  <2>1. CASE \E d \in Deleters : PurgeCache(d)
    BY <2>1 DEF KInv, TypeOK, PurgeCache
  <2>2. CASE ~\E d \in Deleters : PurgeCache(d)
    BY <2>2 DEF vars, Create, Expire, IntentExpires, CollectOrphans, PutStep, PutIntent, PutObject,
           PutCommit, PutFails, SagaStep, Begin, Resume, Break, FenceScope, DeleteObjects,
           DeleteRows, MarkCleaned, Finalize, FinishLate, GiveUp
  <2>3. QED
    BY <2>1, <2>2
<1>6. QED
  BY <1>1, <1>2, <1>3, <1>4, <1>5

LEMMA AsideOwners == ASSUME KInv, Owners, Aside PROVE Owners'
<1>1. lease.fence \in Nat /\ kb.epoch \in Nat
  BY DEF KInv, TypeOK
<1>2. ASSUME NEW w \in Workers, work[w] # None
      PROVE  /\ work[w].fence \in Nat
             /\ work[w].fence # 0
             /\ granted[work[w].fence] \in Nat
  BY <1>2, SMTT(30) DEF KInv, TypeOK, Job, Fences
<1>3. QED
  BY <1>1, <1>2, AsideEffect DEF Owners

\* What the step of one job does to the documents of the generations.
LEMMA JobGens ==
    ASSUME TypeOK, NEW v \in Workers, JobStep(v), NEW g \in Fences
    PROVE  /\ \/ gens'[g].docs = gens[g].docs
              \/ g = work[v].fence /\ gens'[g].docs = disk[NodeOf[v]].docs
           /\ g \notin {head, work[v].fence} => gens'[g] = gens[g]
<1>1. /\ gens \in [Fences -> SourceGeneration] /\ head \in 0..MaxFence
      /\ work[v] # None /\ work[v].fence \in Fences
  BY JobFrame DEF TypeOK, Job
<1>2. ASSUME NEW b, gens' = Prepared(work[v].fence, b, disk[NodeOf[v]].docs)
      PROVE  \/ g # work[v].fence /\ gens'[g] = gens[g]
             \/ g = work[v].fence /\ gens'[g].docs = disk[NodeOf[v]].docs
  BY <1>1, <1>2 DEF Prepared
<1>3. CASE StageEnd(v)
  <2>1. gens' = Prepared(work[v].fence, work[v].base, disk[NodeOf[v]].docs)
    BY <1>3 DEF StageEnd
  <2>2. QED
    BY <1>2, <2>1
<1>4. CASE StageSource(v)
  <2>1. gens' = gens \/ gens' = Prepared(work[v].fence, 0, disk[NodeOf[v]].docs)
    BY <1>4 DEF StageSource
  <2>2. QED
    BY <1>2, <2>1
<1>5. CASE PublishGeneration(v)
  <2> DEFINE old == Superseded(head)
  <2>1. /\ old \in [Fences -> SourceGeneration]
        /\ old[g].docs = gens[g].docs
        /\ g # head => old[g] = gens[g]
    <3>1. CASE head = 0
      BY <1>1, <3>1 DEF Superseded
    <3>2. CASE head # 0
      BY <1>1, <3>2 DEF Superseded, SourceGeneration, Fences
    <3>3. QED
      BY <3>1, <3>2
  <2>2. gens' = gens \/ gens' = [old EXCEPT ![work[v].fence].status = "active"]
    BY <1>5 DEF PublishGeneration
  <2> HIDE DEF old
  <2>3. gens' = gens \/ (gens'[g].docs = old[g].docs /\ (g # work[v].fence => gens'[g] = old[g]))
    BY <1>1, <2>1, <2>2 DEF SourceGeneration
  <2>4. QED
    BY <2>1, <2>3
<1>6. CASE ~(StageEnd(v) \/ StageSource(v) \/ PublishGeneration(v))
  BY <1>6 DEF JobStep, Materialize, StageBegin, SwitchActive, BeginBuild, NothingToMirror,
              Abort, Crash, heads
<1>7. QED
  BY <1>3, <1>4, <1>5, <1>6

\* What the step of one job does to the directories of the nodes.
LEMMA JobDisk ==
    ASSUME TypeOK, NEW v \in Workers, JobStep(v), NEW n \in Nodes
    PROVE  \/ disk'[n].docs = disk[n].docs /\ disk'[n].there = disk[n].there
           \/ /\ n = NodeOf[v]
              /\ \/ Materialize(v)
                 \/ /\ Abort(v) \/ Crash(v)
                    /\ work[v].step \notin {"switched", "hooked", "uploading"}
                    /\ disk'[n].docs = disk[n].docs \ {work[v].fence}
                    /\ disk'[n].there = disk[n].there
<1>1. /\ disk \in [Nodes -> [there : BOOLEAN, docs : SUBSET Fences, active : 0..MaxFence]]
      /\ NodeOf[v] \in Nodes
  BY DEF TypeOK
<1>2. CASE Materialize(v)
  BY <1>1, <1>2 DEF Materialize
<1>3. CASE SwitchActive(v)
  BY <1>1, <1>3 DEF SwitchActive
<1>4. CASE Abort(v) \/ Crash(v)
  BY <1>1, <1>4 DEF Abort, Crash, RolledBack
<1>5. CASE ~(Materialize(v) \/ SwitchActive(v) \/ Abort(v) \/ Crash(v))
  BY <1>5 DEF JobStep, StageBegin, StageEnd, StageSource, BeginBuild, NothingToMirror,
              PublishGeneration
<1>6. QED
  BY <1>2, <1>3, <1>4, <1>5

LEMMA JobUploaded ==
    ASSUME TypeOK, Owners, Uploaded, NEW v \in Workers, JobStep(v)
    PROVE  Uploaded'
<1>1. work[v] # None /\ work[v].fence \in Fences
  BY JobFrame DEF TypeOK, Job
<1>2. ASSUME NEW f, Uploads(f) PROVE Uploads(f)'
  BY <1>1, <1>2, JobEffect DEF Uploads
<1>3. ASSUME NEW g \in Fences, NEW f \in gens'[g].docs PROVE Uploads(f)'
  <2>1. NodeOf[v] \in Nodes
    OBVIOUS
  <2>2. Uploads(f)
    BY <1>3, <2>1, JobGens DEF Uploaded
  <2>3. QED
    BY <1>2, <2>2
<1>4. CASE Materialize(v)
  <2>1. ASSUME NEW n \in Nodes, NEW f \in disk'[n].docs PROVE Uploads(f)'
    <3>1. disk'[n].docs = disk[n].docs
          \/ disk'[n].docs = DocsOf(head) \union
                        (IF work[v].kind = "write" THEN {work[v].fence} ELSE {})
      BY <1>4 DEF TypeOK, Materialize
    <3>2. CASE f = work[v].fence /\ work[v].kind = "write"
      BY <1>1, <3>2, JobEffect DEF Uploads, Owners
    <3>3. CASE f \in disk[n].docs \/ f \in DocsOf(head)
      <4>1. head = 0 \/ head \in Fences
        BY DEF TypeOK, Fences
      <4>2. QED
        BY <1>2, <3>3, <4>1 DEF Uploaded, DocsOf
    <3>4. QED
      BY <2>1, <3>1, <3>2, <3>3
  <2>2. QED
    BY <1>3, <2>1 DEF Uploaded
<1>5. CASE ~Materialize(v)
  <2>1. ASSUME NEW n \in Nodes, NEW f \in disk'[n].docs PROVE Uploads(f)'
    BY <1>2, <1>5, <2>1, JobDisk DEF Uploaded
  <2>2. QED
    BY <1>3, <2>1 DEF Uploaded
<1>6. QED
  BY <1>4, <1>5

LEMMA AsideUploaded == ASSUME KInv, Uploaded, Aside PROVE Uploaded'
  BY AsideEffect DEF Uploaded, Uploads

LEMMA AcquireUploaded ==
    ASSUME TypeOK, Uploaded, NEW v \in Workers, NEW kind \in {"write", "rebuild", "mirror"},
           Acquire(v, kind)
    PROVE  Uploaded'
<1> DEFINE f == lease.fence + 1
<1>1. lease'.fence = f /\ lease.fence \in Nat /\ UNCHANGED <<gens, disk>>
  BY DEF TypeOK, Acquire, heads
<1>2. work'[v].fence = f
  BY DEF TypeOK, Acquire
<1>3. \A w \in Workers \ {v} : work'[w] = work[w]
  BY DEF TypeOK, Acquire
<1>4. ASSUME NEW g \in Nat, Uploads(g) PROVE Uploads(g)'
  <2>1. g <= lease.fence /\ g # f
    BY <1>1, <1>4 DEF Uploads
  <2>2. QED
    BY <1>1, <1>2, <1>3, <1>4, <2>1 DEF Uploads
<1>5. \A g \in Fences : gens[g].docs \in SUBSET Nat
  <2>1. \A g \in Fences : gens[g] \in SourceGeneration
    BY DEF TypeOK
  <2>2. QED
    BY <2>1 DEF SourceGeneration, Fences
<1>6. \A n \in Nodes : disk[n].docs \in SUBSET Nat
  BY DEF TypeOK, Fences
<1>7. QED
  BY <1>1, <1>4, <1>5, <1>6 DEF Uploaded

LEMMA AsideSnapshot ==
    ASSUME KInv, Owners, Aside, NEW w \in Workers, Snapshot(w)
    PROVE  Snapshot(w)'
<1> SUFFICES ASSUME work[w] # None, work[w].kind = "write", Authorized(work[w].fence)'
             PROVE  Snapshot(w)'
  BY AsideEffect DEF Snapshot
<1> DEFINE f == work[w].fence
<1>1. /\ f \in Fences /\ granted[f] \in Nat /\ kb.epoch \in Nat
      /\ head = 0 \/ head \in Fences
      /\ NodeOf[w] \in Nodes
  BY SMTT(30) DEF KInv, TypeOK, Job, Fences
<1>2. kb' = kb
  BY <1>1, AsideEffect DEF Owners, Authorized
<1>3. Authorized(f) /\ head' = head
  BY <1>2, AsideEffect DEF Authorized
<1>4. DocsOf(head)' = DocsOf(head) /\ gens'[f] = gens[f]
  BY <1>1, <1>3, AsideEffect DEF DocsOf, Owners
<1>5. QED
  BY <1>1, <1>3, <1>4, AsideEffect DEF Snapshot

LEMMA AcquireSnapshot ==
    ASSUME TypeOK, Owners, NEW v \in Workers, NEW kind \in {"write", "rebuild", "mirror"},
           Acquire(v, kind), NEW w \in Workers
    PROVE  Snapshot(w)'
<1>1. CASE w = v
  BY <1>1 DEF TypeOK, Acquire, Snapshot
<1>2. CASE w # v
  <2>1. work'[w] = work[w] /\ lease'.fence = lease.fence + 1 /\ lease.fence \in Nat
    BY <1>2 DEF TypeOK, Acquire
  <2>2. work[w] # None => work[w].fence \in Nat /\ work[w].fence <= lease.fence
    BY DEF TypeOK, Job, Fences, Owners
  <2>3. QED
    BY <2>1, <2>2 DEF Snapshot, Authorized
<1>3. QED
  BY <1>1, <1>2

\* The step of another job, on the same node or elsewhere.
LEMMA OtherSnapshot ==
    ASSUME TypeOK, Owners, Uploaded, WriteLocked, WriteLocked',
           NEW v \in Workers, JobStep(v), NEW w \in Workers, w # v, Snapshot(w)
    PROVE  Snapshot(w)'
<1>1. /\ work'[w] = work[w] /\ lease'.fence = lease.fence
      /\ UNCHANGED <<kb, granted>> /\ work[v] # None
  BY JobEffect, JobFrame
<1> SUFFICES ASSUME work[w] # None, work[w].kind = "write", Authorized(work[w].fence)
             PROVE  Snapshot(w)'
  BY <1>1 DEF Snapshot, Authorized
<1> DEFINE f == work[w].fence
           n == NodeOf[w]
<1>2. f # work[v].fence /\ f # head /\ head # work[v].fence
  BY <1>1 DEF Owners
<1>3. f \in Fences /\ (head = 0 \/ head \in Fences) /\ n \in Nodes
  BY DEF TypeOK, Job, Fences
<1>4. head' = head
  BY <1>2, JobEffect DEF Authorized, Live
<1>5. DocsOf(head)' = DocsOf(head) /\ gens'[f] = gens[f]
  BY <1>2, <1>3, <1>4, JobGens DEF DocsOf
<1>6. ASSUME work[w].step \in {"cached", "staging"}
      PROVE  disk'[n].docs = disk[n].docs /\ disk'[n].there = disk[n].there
  <2>1. Writing(w) /\ Writing(w)'
    BY <1>1, <1>6 DEF Writing
  <2>2. ASSUME n = NodeOf[v], Materialize(v) PROVE FALSE
    <3>1. work'[v] = [work[v] EXCEPT !.step = "cached"] /\ work[v] \in Job
      BY <1>1, <2>2 DEF TypeOK, Materialize
    <3>2. work'[v] \in Job
      BY <3>1, Zenon DEF Job
    <3>3. work'[v] # None /\ work'[v].kind # "mirror" /\ work'[v].step # "leased"
      BY <2>2, <3>1, <3>2, NoneAssumption DEF Materialize, Job
    <3>4. QED
      BY <2>1, <2>2, <3>3 DEF Writing, WriteLocked
  <2>3. ASSUME n = NodeOf[v], work[v].kind # "mirror" /\ work[v].step # "leased" PROVE FALSE
    BY <1>1, <2>1, <2>3 DEF Writing, WriteLocked
  <2>4. ASSUME work[v].kind = "mirror" \/ work[v].step = "leased"
        PROVE  work[v].fence \notin disk[n].docs
    BY <1>1, <1>3, <2>4 DEF Uploaded, Uploads
  <2>5. CASE n = NodeOf[v] /\ work[v].fence \notin disk[n].docs
    <3>1. disk[n].docs \ {work[v].fence} = disk[n].docs
      BY <2>5
    <3>2. ~Materialize(v)
      BY <2>2, <2>5
    <3>3. \/ disk'[n].docs = disk[n].docs /\ disk'[n].there = disk[n].there
          \/ /\ disk'[n].docs = disk[n].docs \ {work[v].fence}
             /\ disk'[n].there = disk[n].there
      BY <1>3, <3>2, JobDisk
    <3>4. QED
      BY <3>1, <3>3
  <2>6. CASE n # NodeOf[v]
    BY <1>3, <2>6, JobDisk
  <2>7. QED
    BY <2>3, <2>4, <2>5, <2>6
<1>7. QED
  BY <1>1, <1>4, <1>5, <1>6 DEF Snapshot, Authorized

\* The step of the job itself.
LEMMA OwnSnapshot ==
    ASSUME TypeOK, Owners, NEW w \in Workers, JobStep(w), Snapshot(w)
    PROVE  Snapshot(w)'
<1>1. /\ lease'.fence = lease.fence /\ UNCHANGED <<kb, granted>>
      /\ work[w] # None /\ work[w] \in Job
  BY JobEffect, JobFrame DEF TypeOK
<1>2. CASE work'[w] = None
  BY <1>2 DEF Snapshot
<1> DEFINE f == work[w].fence
           n == NodeOf[w]
<1>3. work'[w] # None => head' = head /\ work'[w].fence = f /\ work'[w].kind = work[w].kind
  BY JobEffect
<1> SUFFICES ASSUME work'[w] # None, work[w].kind = "write", Authorized(f)
             PROVE  Snapshot(w)'
  BY <1>1, <1>2, <1>3 DEF Snapshot, Authorized
<1>4. f # head /\ f \in Fences /\ (head = 0 \/ head \in Fences) /\ n \in Nodes
  BY <1>1 DEF Owners, TypeOK, Job, Fences
<1>5. ASSUME gens' = gens
      PROVE  DocsOf(head)' = DocsOf(head)
  BY <1>3, <1>5 DEF DocsOf
<1>6. CASE Materialize(w)
  <2>1. work'[w].step = "cached" /\ gens' = gens
    BY <1>1, <1>6 DEF TypeOK, Job, Materialize, heads
  <2>2. disk'[n].docs = DocsOf(head) \union {f}
    BY <1>4, <1>6 DEF TypeOK, Materialize
  <2>3. QED
    BY <1>3, <1>5, <2>1, <2>2 DEF Snapshot
<1>7. CASE StageBegin(w)
  <2>1. /\ work'[w].step = "staging" /\ work[w].step = "cached"
        /\ UNCHANGED <<gens, disk>>
    BY <1>1, <1>7 DEF TypeOK, Job, StageBegin, At, heads
  <2>2. QED
    BY <1>1, <1>3, <1>5, <2>1 DEF Snapshot
<1>8. CASE StageEnd(w)
  <2>1. /\ work'[w].step = "staged" /\ work[w].step = "staging"
        /\ disk[n].there
        /\ gens' = Prepared(f, work[w].base, disk[n].docs)
    BY <1>1, <1>8 DEF TypeOK, Job, StageEnd, At
  <2>2. disk[n].docs = DocsOf(head) \union {f}
    BY <1>1, <2>1 DEF Snapshot
  <2>3. /\ gens'[f].status = "prepared" /\ gens'[f].docs = disk[n].docs
        /\ \A g \in Fences : g # f => gens'[g] = gens[g]
    BY <1>4, <2>1 DEF TypeOK, Prepared
  <2>4. DocsOf(head)' = DocsOf(head)
    BY <1>3, <1>4, <2>3 DEF DocsOf
  <2>5. QED
    BY <1>3, <2>1, <2>2, <2>3, <2>4 DEF Snapshot
<1>9. CASE SwitchActive(w)
  <2>1. work'[w].step = "switched" /\ work[w].step = "staged" /\ gens' = gens
    BY <1>1, <1>9 DEF TypeOK, Job, SwitchActive, At
  <2>2. QED
    BY <1>1, <1>3, <1>5, <2>1 DEF Snapshot
<1>10. CASE StageSource(w)
  <2>1. work[w].step = "switched"
    BY <1>10 DEF StageSource, At
  <2>2. gens[f].status = "prepared" /\ gens[f].docs = DocsOf(head) \union {f}
    BY <1>1, <2>1 DEF Snapshot
  <2>3. gens' = gens
    BY <1>10, <2>2 DEF StageSource
  <2>4. PICK h \in BOOLEAN : work' = [work EXCEPT ![w].step = "hooked", ![w].hook = h]
    BY <1>10, Zenon DEF StageSource
  <2>5. work'[w].step = "hooked"
    BY <1>1, <2>4 DEF TypeOK, Job
  <2>6. QED
    BY <1>3, <1>5, <2>2, <2>3, <2>5 DEF Snapshot
<1>11. CASE BeginBuild(w)
  <2>1. work'[w].step = "uploading" /\ work[w].step = "hooked" /\ gens' = gens
    BY <1>1, <1>11 DEF TypeOK, Job, BeginBuild, At
  <2>2. QED
    BY <1>1, <1>3, <1>5, <2>1 DEF Snapshot
<1>12. CASE NothingToMirror(w) \/ PublishGeneration(w) \/ Abort(w) \/ Crash(w)
  BY <1>12 DEF TypeOK, NothingToMirror, PublishGeneration, Abort, Crash
<1>13. QED
  BY <1>6, <1>7, <1>8, <1>9, <1>10, <1>11, <1>12 DEF JobStep

\* A job takes the lock with its first step at the directory, and keeps it.
LEMMA JobLocked ==
    ASSUME TypeOK, WriteLocked, NEW v \in Workers, JobStep(v)
    PROVE  WriteLocked'
<1>1. \A w \in Workers \ {v} : work'[w] = work[w]
  BY JobEffect
<1>2. \A w \in Workers \ {v} : Writing(w)' <=> Writing(w)
  BY <1>1 DEF Writing
<1>3. CASE Writing(v)' => Writing(v)
  BY <1>2, <1>3 DEF WriteLocked
<1>4. CASE Materialize(v)
  BY <1>2, <1>4 DEF WriteLocked, Materialize, WriteLockFree
<1>5. ASSUME ~Materialize(v), Writing(v)' PROVE Writing(v)
  <2>1. work'[v] # None /\ work[v] # None /\ work'[v].kind = work[v].kind
    BY <1>5, JobEffect, JobFrame DEF Writing
  <2>2. work[v].step # "leased"
    <3>1. CASE NothingToMirror(v) \/ PublishGeneration(v) \/ Abort(v) \/ Crash(v)
      BY <2>1, <3>1 DEF TypeOK, NothingToMirror, PublishGeneration, Abort, Crash
    <3>2. CASE StageSource(v)
      BY <1>5, <2>1, <3>2 DEF StageSource, At, Writing
    <3>3. CASE StageBegin(v) \/ StageEnd(v) \/ SwitchActive(v) \/ BeginBuild(v)
      BY <3>3 DEF StageBegin, StageEnd, SwitchActive, BeginBuild, At
    <3>4. QED
      BY <1>5, <3>1, <3>2, <3>3 DEF JobStep
  <2>3. QED
    BY <1>5, <2>1, <2>2 DEF Writing
<1>6. QED
  BY <1>3, <1>4, <1>5

LEMMA AcquireLocked ==
    ASSUME TypeOK, WriteLocked, NEW v \in Workers,
           NEW kind \in {"write", "rebuild", "mirror"}, Acquire(v, kind)
    PROVE  WriteLocked'
<1>1. \A w \in Workers \ {v} : work'[w] = work[w]
  BY DEF TypeOK, Acquire
<1>2. work'[v].step = "leased"
  BY DEF TypeOK, Acquire
<1>3. QED
  BY <1>1, <1>2 DEF WriteLocked, Writing

LEMMA JobsStep == JobsInv /\ [Next]_vars => JobsInv'
<1> SUFFICES ASSUME JobsInv, [Next]_vars PROVE JobsInv'
  OBVIOUS
<1>1. KInv'
  BY KStep DEF JobsInv
<1>2. CASE Aside
  <2>1. WriteLocked'
    BY <1>2, AsideEffect DEF JobsInv, KInv, WriteLocked, Writing
  <2>2. QED
    BY <1>1, <1>2, <2>1, AsideOwners, AsideUploaded, AsideSnapshot DEF JobsInv
<1>3. ASSUME NEW v \in Workers, StartJob(v) \/ Reconcile(v) PROVE JobsInv'
  <2>1. PICK kind \in {"write", "rebuild", "mirror"} : Acquire(v, kind)
    BY <1>3 DEF StartJob, Reconcile
  <2>2. QED
    BY <1>1, <2>1, AcquireOwners, AcquireUploaded, AcquireSnapshot, AcquireLocked
       DEF JobsInv, KInv
<1>4. ASSUME NEW v \in Workers, JobStep(v) PROVE JobsInv'
  <2>1. TypeOK /\ Owners /\ Uploaded
    BY DEF JobsInv, KInv
  <2>2. Owners' /\ Uploaded' /\ WriteLocked'
    BY <1>4, <2>1, JobOwners, JobUploaded, JobLocked DEF JobsInv
  <2>3. ASSUME NEW w \in Workers PROVE Snapshot(w)'
    BY <1>4, <2>1, <2>2, OwnSnapshot, OtherSnapshot DEF JobsInv
  <2>4. QED
    BY <1>1, <2>2, <2>3 DEF JobsInv
<1>5. QED
  BY <1>2, <1>3, <1>4 DEF Next, Aside

LEMMA JobsInit == Init => JobsInv
<1> SUFFICES ASSUME Init PROVE JobsInv
  OBVIOUS
<1>1. KInv
  BY TypeInit, DeletionInit DEF KInv
<1>2. QED
  BY <1>1 DEF Init, JobsInv, Owners, Uploaded, Uploads, WriteLocked, Writing, Snapshot

(***************************************************************************)
(* Publishing an upload never loses another one, on whichever nodes the    *)
(* jobs run and however many share a directory: the generation that        *)
(* becomes current is the replaced head plus the uploaded document,        *)
(* however many leases were lost, jobs aborted, nodes crashed and          *)
(* knowledge bases deleted and created between the copy and the publish.   *)
(***************************************************************************)
THEOREM UploadsKept == Spec => NoLostDocument
<1> DEFINE Kept == \A w \in Workers :
        work[w] # None /\ work[w].kind = "write" /\ head' # head /\ head' = work[w].fence
            => gens[head'].docs = DocsOf(head) \union {head'}
<1>1. JobsInv /\ [Next]_vars => [Kept]_vars
  <2> SUFFICES ASSUME JobsInv, Next,
                      NEW w \in Workers, work[w] # None, work[w].kind = "write",
                      head' # head, head' = work[w].fence
               PROVE  gens[head'].docs = DocsOf(head) \union {head'}
    OBVIOUS
  <2>1. TypeOK /\ KInv /\ Owners /\ Snapshot(w)
    BY DEF JobsInv, KInv
  <2>2. head' # 0
    BY <2>1 DEF TypeOK, Job, Fences
  <2>3. PICK v \in Workers : JobStep(v)
    <3>1. ~Aside
      BY <2>1, <2>2, AsideEffect
    <3>2. QED
      BY <3>1 DEF Next, Aside, StartJob, Reconcile, Acquire, heads
  <2>4. head' = work[v].fence /\ Live(work[v].fence) /\ work[v] # None
    BY <2>1, <2>3, JobEffect, JobFrame
  <2>5. v = w
    BY <2>1, <2>4 DEF Owners
  <2>6. PublishGeneration(w)
    BY <2>3, <2>5 DEF JobStep, Materialize, StageBegin, StageEnd, SwitchActive, StageSource,
                      BeginBuild, NothingToMirror, Abort, Crash, heads
  <2>7. QED
    BY <2>1, <2>4, <2>5, <2>6 DEF PublishGeneration, At, Snapshot, Authorized, Live
<1>2. Spec => []JobsInv
  BY JobsInit, JobsStep, PTL DEF Spec
<1>3. QED
  BY <1>1, <1>2, PTL DEF Spec, NoLostDocument
-----------------------------------------------------------------------------
(***************************************************************************)
(* The knowledge base on a single node, for any numbers of documents and   *)
(* jobs and any bounds.  L has the steps of LocalIngest; its state is that *)
(* of LocalState and shares no variable with the knowledge base above.     *)
(* LInv is the inductive invariant:                                        *)
(*   LifeInv    how the lifecycle, the record and the executor go together;  *)
(*   NewestInv  only the newest job has open entries, and one generation is  *)
(*              active;                                                      *)
(*   PathInv    where each document of the active generation is;             *)
(*   JobInv     what a job has done at each of its steps;                    *)
(*   ProcInv    what recover_all has done with the entry it is at.           *)
(* BInv adds what a job up to the switch has done to the source directory: *)
(* it is what shows that the knowledge base implements ServedDocuments.    *)
(***************************************************************************)
L == INSTANCE LocalIngest

\* What the deletion leaves of the directory and the journal.
Blank ==
    /\ file = L!NoFiles
    /\ backup = [e \in L!Entries |-> 0]
    /\ journal = [e \in L!Entries |-> Nil]
    /\ generations = L!NoGens
    /\ active = 0

Dropping(step) == job # Nil /\ job.kind = "drop" /\ job.step = step

DropSteps == {"fence", "tombstone", "forget", "erase", "deregister"}

(***************************************************************************)
(* What the lifecycle, the registry record and the executor say of each other: *)
(* a deletion that has erased the directory, or has ended, leaves nothing. *)
(***************************************************************************)
LifeInv ==
    /\ record.asked => record.registered /\ record.life = "deleting" /\ proc.state = "up"
    /\ job # Nil => proc.state = "up" /\ record.registered
    /\ job # Nil /\ job.kind = "drop" =>
          job.step \in DropSteps /\ record.life # "active" /\ ~record.asked
    /\ Dropping("erase") => \A e \in L!Entries : journal[e] = Nil
    /\ Dropping("deregister") \/ ~record.registered => Blank

(***************************************************************************)
(* Only the newest job has open entries: the next one is admitted when there *)
(* are none.  One generation is active, no later than the newest job, and  *)
(* those it replaced are older.                                            *)
(***************************************************************************)
NewestInv ==
    /\ \A e \in L!Entries : L!Open(e) => e[1] = jobs
    /\ \A e \in L!Entries : e[1] > jobs => journal[e] = Nil /\ backup[e] = 0
    /\ active <= jobs
    /\ active # 0 => generations[active].status = "active"
    /\ \A j \in L!Jobs : generations[j].status = "active" => j = active
    /\ \A j \in L!Jobs : generations[j].status = "superseded" => j < active

(***************************************************************************)
(* Where the document of the active generation is while its entry is open, *)
(* and that recovery will take the entry the right way: forward once the   *)
(* generation of its job is the active one, else back.                     *)
(***************************************************************************)
EntryOK(e) ==
    LET doc == L!Docs(active)[e[2]]
    IN  IF active = jobs THEN journal[e].gen /\ file[e[2]] = doc
        ELSE IF backup[e] # 0 THEN journal[e].old /\ backup[e] = doc
        ELSE IF journal[e].old THEN file[e[2]] = doc
        ELSE doc = 0

(***************************************************************************)
(* A document without an open entry is as in the active generation.        *)
(***************************************************************************)
PathInv ==
    L!Usable =>
      /\ \A p \in L!Paths : (\A j \in L!Jobs : ~L!Open(<<j, p>>)) => file[p] = L!Docs(active)[p]
      /\ \A e \in L!Entries : L!Open(e) => EntryOK(e)

\* The steps of a job up to the build, after the switch and back.
Changing == {"begin", "move", "mark", "write"}
Landing == {"commit", "sweep", "clear"}
Undoing == {"undo", "undoMark", "undoClear"}

\* Up to the switch exactly the documents begun have an entry, and it is open.
ForwardOK ==
    job.step \in L!Ahead =>
        /\ active # job.id
        /\ \A p \in job.done : L!Open(<<jobs, p>>)
        /\ \A p \in L!Paths \ job.done : journal[<<jobs, p>>] = Nil /\ backup[<<jobs, p>>] = 0

\* The file the loop is at: in which order entry, backup and content come.
WriteOK ==
    /\ job.step \in Changing => job.todo # {} /\ job.kind # "rebuild"
    /\ job.step = "begin" => job.todo \intersect job.done = {}
    /\ job.step \in Changing \ {"begin"} =>
          L!Reached \in job.done /\ job.todo \intersect job.done = {L!Reached}
    /\ job.step = "move" =>
          journal[<<jobs, L!Reached>>].old /\ backup[<<jobs, L!Reached>>] = 0 /\ file[L!Reached] # 0
    /\ job.step = "mark" => journal[<<jobs, L!Reached>>].old
    /\ job.step \in {"mark", "write"} /\ journal[<<jobs, L!Reached>>].old => backup[<<jobs,
          L!Reached>>] # 0

\* The staged generation has the files of the directory, and entry after entry
\* gets to know of it.
BuildOK ==
    job.step \in {"record", "switch"} =>
        /\ generations[job.id].docs = file
        /\ job.todo \subseteq job.done
        /\ job.step = "record" => job.todo # {}
        /\ job.step = "switch" => job.todo = {}
        /\ \A p \in job.done \ job.todo : journal[<<jobs, p>>].gen

\* After the switch and in the rollback.
EndOK ==
    /\ job.step \in Landing => active = job.id /\ job.done # {}
    /\ job.step \in Undoing => active # job.id /\ job.done # {}
    /\ job.step \in {"undo", "undoMark"} => \A p \in job.done : L!Open(<<jobs, p>>)
    /\ job.step = "undoClear" => \A p \in job.done \ {L!Last} : L!Open(<<jobs, p>>)
    /\ job.step \in {"undoMark", "undoClear"} => file[L!Last] = L!Docs(active)[L!Last]

(***************************************************************************)
(* An index job at each of its steps.                                      *)
(***************************************************************************)
JobInv ==
    job # Nil /\ job.kind # "drop" =>
        /\ L!Usable /\ job.id = jobs /\ jobs # 0
        /\ job.step \in L!Ahead \union Landing \union Undoing
        /\ \A p \in job.done : journal[<<jobs, p>>] # Nil
        /\ ForwardOK /\ WriteOK /\ BuildOK /\ EndOK

(***************************************************************************)
(* The entry recover_all is at: before its direction is written its document *)
(* is in place, and it is removed only when it is no longer open.          *)
(***************************************************************************)
ProcInv ==
    /\ proc.state # "recovering" => proc.todo = {} /\ proc.at = Nil
    /\ \A e \in proc.todo : journal[e] # Nil
    /\ proc.at # Nil => journal[proc.at] # Nil /\ proc.at \notin proc.todo
    /\ proc.at # Nil /\ proc.step = "write" =>
          /\ L!Open(proc.at) /\ proc.end # "open"
          /\ L!Usable => file[proc.at[2]] = L!Docs(active)[proc.at[2]]
    /\ proc.at # Nil /\ proc.step = "remove" => ~L!Open(proc.at)

\* SizesAssumption and NilAssumption.
LocalSizes ==
    /\ NumPaths \in Nat /\ MaxJobs \in Nat /\ MaxLives \in Nat \ {0}
    /\ MaxCrashes \in Nat /\ MaxFailures \in Nat
    /\ Nil \notin L!Entry \union L!Command \union L!Entries

LInv == LocalSizes /\ L!TypeOK /\ LifeInv /\ NewestInv /\ PathInv /\ JobInv /\ ProcInv

\* The least and the greatest of a set of documents, which the loops take, are in it.
LEMMA MinMax ==
    ASSUME LocalSizes, NEW S \in SUBSET L!Paths, S # {}
    PROVE  L!Min(S) \in S /\ L!Max(S) \in S
<1> DEFINE R == {ss \in Nat \X Nat : ss[1] < ss[2]}
<1>1. OpToRel(<, Nat) = R
  BY DEF OpToRel
<1>2. \A x, y \in Nat : x < y => << x, y >> \in R
  OBVIOUS
<1> HIDE DEF R
<1>3. \A T \in SUBSET Nat : T # {} => \E m \in T : \A t \in T : m <= t
  <2> SUFFICES ASSUME NEW T \in SUBSET Nat, T # {} PROVE \E m \in T : \A t \in T : m <= t
    OBVIOUS
  <2>1. \E m \in T : \A t \in T : << t, m >> \notin R
    BY <1>1, NatLessThanWellFounded, WFMin
  <2>2. PICK m \in T : \A t \in T : << t, m >> \notin R
    BY <2>1
  <2>3. \A t \in T : t \in Nat /\ m \in Nat /\ ~(t < m)
    BY <1>2, <2>2
  <2>4. \A t \in T : m <= t
    BY <2>3
  <2> QED
    BY <2>4
<1>4. \E m \in S : \A t \in S : m <= t
  BY <1>3 DEF L!Paths, LocalSizes
<1>5. \E m \in S : \A t \in S : m >= t
  <2> DEFINE T == {NumPaths - s : s \in S}
  <2>1. T \in SUBSET Nat /\ T # {}
    <3>1. \A s \in S : NumPaths - s \in Nat
      BY DEF L!Paths, LocalSizes
    <3> QED
      BY <3>1
  <2>2. PICK m \in T : \A t \in T : m <= t
    BY <1>3, <2>1
  <2>3. PICK s \in S : m = NumPaths - s
    BY <2>2
  <2>4. \A t \in S : NumPaths - s <= NumPaths - t
    BY <2>2, <2>3
  <2> QED
    BY <2>4 DEF L!Paths, LocalSizes
<1> QED
  BY <1>4, <1>5 DEF L!Min, L!Max

\* What an assignment to some fields leaves of a record.
LEMMA EntryEdit ==
    ASSUME LocalSizes, NEW row \in L!Entry, NEW new,
           new = [row EXCEPT !.moved = TRUE] \/ new = [row EXCEPT !.gen = TRUE]
    PROVE  /\ new \in L!Entry /\ new # Nil /\ new.end = row.end /\ new.old = row.old
           /\ new = [row EXCEPT !.moved = TRUE] => new.gen = row.gen
           /\ new = [row EXCEPT !.gen = TRUE] => new.gen = TRUE
<1>1. new \in L!Entry /\ new.end = row.end /\ new.old = row.old
  BY DEF L!Entry
<1>2. new # Nil
  BY <1>1 DEF LocalSizes
<1>3. new = [row EXCEPT !.moved = TRUE] => new.gen = row.gen
  BY DEF L!Entry
<1>4. new = [row EXCEPT !.gen = TRUE] => new.gen = TRUE
  BY DEF L!Entry
<1> QED
  BY <1>1, <1>2, <1>3, <1>4

\* A job at one of its steps, other than a deletion of the knowledge base.
LEMMA Working ==
    ASSUME LInv, job # Nil, job.kind # "drop"
    PROVE  /\ job \in L!Command /\ job.id = jobs /\ jobs \in L!Jobs /\ L!Usable
           /\ proc.state = "up" /\ proc.at = Nil /\ proc.todo = {}
           /\ record.registered /\ job.done \subseteq L!Paths /\ job.todo \subseteq L!Paths
           /\ \A p \in L!Paths : L!Mine(p) = <<jobs, p>> /\ <<jobs, p>> \in L!Entries
<1>1. job \in L!Command /\ job.id = jobs /\ jobs \in L!Jobs /\ L!Usable
  BY DEF LInv, LocalSizes, L!TypeOK, JobInv, L!Jobs
<1>2. proc.state = "up" /\ record.registered
  BY DEF LInv, LifeInv
<1>3. proc.at = Nil /\ proc.todo = {}
  BY <1>2 DEF LInv, ProcInv
<1>4. job.done \subseteq L!Paths /\ job.todo \subseteq L!Paths
  BY <1>1 DEF L!Command
<1> QED
  BY <1>1, <1>2, <1>3, <1>4 DEF L!Entries, L!Mine

\* A process that is up has nothing to recover.
LEMMA ProcStep ==
    ASSUME LInv, proc.state = "up", proc' = proc
    PROVE  ProcInv'
<1>1. proc.at = Nil /\ proc.todo = {}
  BY DEF LInv, ProcInv
<1> QED
  BY <1>1 DEF ProcInv

\* A step of an index job leaves the lifecycle alone.
LEMMA LifeStep ==
    ASSUME LInv, job # Nil, job.kind # "drop", proc' = proc, record' = record,
           job' # Nil => job'.kind = job.kind
    PROVE  LifeInv'
<1>1. record.registered /\ proc.state = "up"
  BY Working
<1>2. record.asked => record.life = "deleting"
  BY DEF LInv, LifeInv
<1> QED
  BY <1>1, <1>2 DEF LifeInv, Dropping

\* A step writes no entry of an earlier job, and gives no other generation the
\* status "active".
LEMMA NewestStep ==
    ASSUME LInv, UNCHANGED <<active, jobs>>,
           \A e \in L!Entries : e[1] # jobs => journal'[e] = journal[e] /\ backup'[e] = backup[e],
           \A j \in L!Jobs : \/ generations'[j].status = generations[j].status
                             \/ j # active /\ generations'[j].status \in {"none", "staged"}
    PROVE  NewestInv'
<1>1. \A e \in L!Entries : L!Open(e)' => e[1] = jobs'
  BY DEF LInv, NewestInv, L!Open
<1>2. \A e \in L!Entries : e[1] > jobs' => journal'[e] = Nil /\ backup'[e] = 0
  <2>1. jobs \in Nat /\ \A e \in L!Entries : e[1] \in Nat
    BY DEF LInv, LocalSizes, L!TypeOK, L!Entries, L!Jobs
  <2>2. \A e \in L!Entries : e[1] > jobs => journal[e] = Nil /\ backup[e] = 0
    BY DEF LInv, NewestInv
  <2> QED
    BY <2>1, <2>2
<1>3. active' <= jobs'
  BY DEF LInv, NewestInv
<1>4. active' # 0 => generations'[active'].status = "active"
  BY DEF LInv, NewestInv, L!TypeOK, L!Jobs, LocalSizes
<1>5. \A j \in L!Jobs : generations'[j].status = "active" => j = active'
  BY DEF LInv, NewestInv
<1>6. \A j \in L!Jobs : generations'[j].status = "superseded" => j < active'
  BY DEF LInv, NewestInv
<1> QED
  BY <1>1, <1>2, <1>3, <1>4, <1>5, <1>6 DEF NewestInv

\* The documents of the active generation are known files.
LEMMA DocsType ==
    ASSUME LInv
    PROVE  L!Docs(active) \in [L!Paths -> L!Versions] /\ active \in 0..MaxJobs
<1>1. active \in 0..MaxJobs /\ generations \in [L!Jobs -> L!Generation] /\ MaxJobs \in Nat
  BY DEF LInv, L!TypeOK, LocalSizes
<1>2. L!NoFiles \in [L!Paths -> L!Versions]
  BY <1>1 DEF L!NoFiles, L!Versions, L!Torn
<1>3. CASE active = 0
  BY <1>1, <1>2, <1>3 DEF L!Docs
<1>4. CASE active # 0
  <2>1. active \in L!Jobs
    BY <1>1, <1>4 DEF L!Jobs
  <2>2. generations[active] \in L!Generation
    BY <1>1, <2>1
  <2>3. generations[active].docs \in [L!Paths -> L!Versions]
    BY <2>2 DEF L!Generation
  <2> QED
    BY <1>1, <1>4, <2>3 DEF L!Docs
<1> QED
  BY <1>3, <1>4

\* What the change of one document means for all of them.
LEMMA PathStep ==
    ASSUME LInv, L!Usable, NEW p \in L!Paths, <<jobs, p>> \in L!Entries,
           UNCHANGED <<active, jobs>>, L!Docs(active)' = L!Docs(active),
           \A q \in L!Paths \ {p} : file'[q] = file[q],
           \A e \in L!Entries : e # <<jobs, p>> =>
              journal'[e] = journal[e] /\ backup'[e] = backup[e],
           IF L!Open(<<jobs, p>>)' THEN EntryOK(<<jobs, p>>)'
           ELSE file'[p] = L!Docs(active)[p]
    PROVE  PathInv'
<1>1. \A q \in L!Paths : (\A j \in L!Jobs : ~L!Open(<<j, q>>)') => file'[q] = L!Docs(active)'[q]
  <2> SUFFICES ASSUME NEW q \in L!Paths, \A j \in L!Jobs : ~L!Open(<<j, q>>)'
               PROVE  file'[q] = L!Docs(active)[q]
    OBVIOUS
  <2>1. CASE q = p
    <3>1. jobs \in L!Jobs
      BY DEF L!Entries
    <3> QED
      BY <2>1, <3>1
  <2>2. CASE q # p
    <3>1. \A j \in L!Jobs : ~L!Open(<<j, q>>)
      BY <2>2 DEF L!Open, L!Entries
    <3> QED
      BY <2>2, <3>1 DEF LInv, PathInv
  <2> QED
    BY <2>1, <2>2
<1>2. \A e \in L!Entries : L!Open(e)' => EntryOK(e)'
  <2> SUFFICES ASSUME NEW e \in L!Entries, L!Open(e)' PROVE EntryOK(e)'
    OBVIOUS
  <2>1. CASE e = <<jobs, p>>
    BY <2>1
  <2>2. CASE e # <<jobs, p>>
    <3>1. L!Open(e) /\ EntryOK(e)
      BY <2>2 DEF L!Open, LInv, PathInv
    <3>2. e[1] = jobs /\ e[2] \in L!Paths
      BY <3>1 DEF LInv, NewestInv, L!Entries
    <3>3. e[2] # p
      BY <2>2, <3>2 DEF L!Entries
    <3> QED
      BY <2>2, <3>1, <3>2, <3>3 DEF EntryOK
  <2> QED
    BY <2>1, <2>2
<1> QED
  BY <1>1, <1>2 DEF PathInv

\* Taking back an entry that is open and not committed gives the document of
\* the active generation.
LEMMA RestoredFile ==
    ASSUME LInv, NEW p \in L!Paths, NEW e \in L!Entries, e[2] = p,
           L!Open(e), EntryOK(e), active # jobs, file' = L!Restored(e)
    PROVE  /\ \A q \in L!Paths \ {p} : file'[q] = file[q]
           /\ file'[p] = L!Docs(active)[p]
           /\ file' \in [L!Paths -> L!Versions]
<1>1. L!TypeOK /\ L!Docs(active)[p] \in L!Versions /\ 0 \in L!Versions
  BY DocsType DEF LInv, L!Versions, L!Torn, LocalSizes
<1>2. CASE ~journal[e].old
  <2>1. file' = [file EXCEPT ![p] = 0]
    BY <1>2 DEF L!Restored
  <2>2. backup[e] = 0 /\ L!Docs(active)[p] = 0
    BY <1>2 DEF EntryOK
  <2> QED
    BY <1>1, <2>1, <2>2 DEF L!TypeOK
<1>3. CASE journal[e].old /\ backup[e] # 0
  <2>1. file' = [file EXCEPT ![p] = backup[e]] /\ backup[e] = L!Docs(active)[p]
    BY <1>3 DEF L!Restored, EntryOK
  <2> QED
    BY <1>1, <2>1 DEF L!TypeOK
<1>4. CASE journal[e].old /\ backup[e] = 0
  <2>1. file' = file /\ file[p] = L!Docs(active)[p]
    BY <1>4 DEF L!Restored, EntryOK
  <2> QED
    BY <1>1, <2>1 DEF L!TypeOK
<1> QED
  BY <1>2, <1>3, <1>4
\* A job that fails before the commit point goes on to undo what it did.
LEMMA UnwindStep ==
    ASSUME LInv, job # Nil, job.kind # "drop", job.step \in L!Ahead, L!Unwind,
           UNCHANGED <<active, jobs, record, journal>>
    PROVE  /\ JobInv' /\ job' \in L!Command \union {Nil}
           /\ job' # Nil => job'.kind = job.kind
<1>1. active # job.id /\ \A p \in job.done : L!Open(<<jobs, p>>)
  BY DEF LInv, JobInv, ForwardOK
<1>2. job.id = jobs /\ jobs # 0 /\ L!Usable /\ job \in L!Command
  BY Working DEF LInv, JobInv
<1>3. CASE job.done = {}
  BY <1>3 DEF L!Unwind, JobInv
<1>4. CASE job.done # {}
  <2>1. job' = [job EXCEPT !.step = "undo"]
    BY <1>4 DEF L!Unwind
  <2>2. /\ job'.id = job.id /\ job'.kind = job.kind /\ job'.done = job.done
        /\ job'.step = "undo" /\ job' \in L!Command
    BY <1>2, <2>1 DEF L!Command
  <2>3. job' # Nil
    BY <2>2 DEF LInv, LocalSizes
  <2>4. L!Usable' /\ job'.id = jobs' /\ jobs' # 0
    BY <1>2, <2>2 DEF L!Usable
  <2>5. \A p \in job'.done : L!Open(<<jobs, p>>)'
    BY <1>1, <2>2 DEF L!Open
  <2>6. \A p \in job'.done : journal'[<<jobs, p>>] # Nil
    BY <2>5 DEF L!Open
  <2>7. ForwardOK' /\ WriteOK' /\ BuildOK'
    BY <2>2 DEF ForwardOK, WriteOK, BuildOK, L!Ahead, Changing
  <2>8. EndOK'
    BY <1>1, <1>4, <2>2, <2>5 DEF EndOK, Landing, Undoing
  <2> QED
    BY <2>2, <2>3, <2>4, <2>6, <2>7, <2>8 DEF JobInv, Undoing
<1> QED
  BY <1>3, <1>4

\* The rest of the invariant follows from what a step of the job does.
LEMMA JobStepInv ==
    ASSUME LInv, job # Nil, job.kind # "drop", UNCHANGED <<record, proc>>,
           job' # Nil => job'.kind = job.kind,
           L!TypeOK', NewestInv', PathInv', JobInv'
    PROVE  LInv'
<1>1. LifeInv' /\ ProcInv'
  BY Working, LifeStep, ProcStep
<1> QED
  BY <1>1 DEF LInv, LocalSizes
\* begin_upload and begin_delete write a proper entry.
LEMMA NewEntry ==
    ASSUME LocalSizes, NEW kind \in {"upload", "delete_doc"}, NEW old \in BOOLEAN, NEW row,
           row = [op |-> kind, old |-> old, moved |-> FALSE, gen |-> FALSE, end |-> "open"]
    PROVE  row \in L!Entry /\ row # Nil /\ row.end = "open" /\ row.old = old
<1>1. row \in L!Entry
  BY DEF L!Entry
<1> QED
  BY <1>1 DEF LocalSizes
\* A failure before the commit point keeps LInv.
LEMMA UnwindInv ==
    ASSUME LInv, job # Nil, job.kind # "drop", job.step \in L!Ahead, L!Unwind,
           UNCHANGED <<file, backup, journal, active, record, jobs, proc, crashes>>,
           failures' \in 0..MaxFailures, generations' = generations \/ generations' = L!Discarded
    PROVE  LInv'
<1>1. JobInv' /\ job' \in L!Command \union {Nil} /\ (job' # Nil => job'.kind = job.kind)
  BY UnwindStep
<1>2. job.id = jobs /\ jobs \in L!Jobs /\ active # jobs /\ L!TypeOK /\ LocalSizes
  BY Working DEF LInv, JobInv, ForwardOK
<1>3. /\ generations' \in [L!Jobs -> L!Generation]
      /\ \A j \in L!Jobs : \/ generations'[j].status = generations[j].status
                           \/ j # active /\ generations'[j].status \in {"none", "staged"}
      /\ L!Docs(active)' = L!Docs(active)
  <2>1. CASE generations' = generations
    BY <1>2, <2>1 DEF L!TypeOK, L!Docs
  <2>2. CASE generations' = L!Discarded
    <3>1. generations' = [generations EXCEPT ![jobs].status = "none"]
      BY <1>2, <2>2 DEF L!Discarded
    <3>2. generations' \in [L!Jobs -> L!Generation]
      BY <1>2, <3>1 DEF L!TypeOK, L!Generation
    <3>3. \A j \in L!Jobs : IF j = jobs THEN generations'[j].status = "none"
             ELSE generations'[j] = generations[j]
      BY <1>2, <3>1 DEF L!TypeOK, L!Generation
    <3>4. active \in L!Jobs \/ active = 0
      BY <1>2 DEF L!TypeOK, L!Jobs
    <3>5. L!Docs(active)' = L!Docs(active)
      BY <1>2, <3>3, <3>4 DEF L!Docs
    <3> QED
      BY <1>2, <3>2, <3>3, <3>5
  <2> QED
    BY <2>1, <2>2
<1>4. L!TypeOK'
  BY <1>1, <1>2, <1>3 DEF L!TypeOK
<1>5. PathInv'
  BY <1>3 DEF LInv, PathInv, L!Usable, L!Open, EntryOK
<1>6. NewestInv'
  BY <1>3, NewestStep
<1> QED
  BY <1>1, <1>4, <1>5, <1>6, JobStepInv

\* The file the loop is at, and its entry.
LEMMA AtReached ==
    ASSUME LInv, job # Nil, job.kind # "drop", job.step \in Changing
    PROVE  \E p \in L!Paths, e \in L!Entries :
              /\ p = L!Reached /\ e = L!Mine(p) /\ e = <<jobs, p>> /\ p \in job.todo
              /\ job.step = "begin" => p \notin job.done
              /\ job.step # "begin" => p \in job.done
<1>1. job.todo # {}
  BY DEF LInv, JobInv, WriteOK
<1>2. L!Reached \in job.todo
  BY <1>1, Working, MinMax DEF LInv, L!Reached
<1>3. /\ job.step = "begin" => L!Reached \notin job.done
      /\ job.step # "begin" => L!Reached \in job.done
  BY <1>2 DEF LInv, JobInv, WriteOK
<1> QED
  BY <1>2, <1>3, Working
\* The steps of a job up to the commit point.
LEMMA BeginInv == ASSUME LInv, L!Begin PROVE LInv'
<1>0. job # Nil /\ job.kind # "drop" /\ job.step = "begin"
  BY DEF LInv, L!Begin, L!At, LifeInv, DropSteps
<1>1. PICK p \in L!Paths, e \in L!Entries :
         /\ p = L!Reached /\ e = L!Mine(p) /\ e = <<jobs, p>>
         /\ p \in job.todo /\ p \notin job.done
  BY <1>0, AtReached DEF Changing
<1>2. journal[e] = Nil /\ backup[e] = 0 /\ active # jobs
  BY <1>0, <1>1, Working DEF LInv, JobInv, ForwardOK, L!Ahead
<1>3. /\ job \in L!Command /\ L!Usable /\ jobs \in L!Jobs /\ job.id = jobs
      /\ proc.state = "up" /\ L!TypeOK /\ LocalSizes
  BY <1>0, Working DEF LInv
<1>4. UNCHANGED <<file, backup, generations, active, record, jobs, proc, crashes>>
  BY DEF L!Begin
<1>5. CASE L!Fault /\ L!Unwind /\ UNCHANGED journal
  BY <1>0, <1>3, <1>4, <1>5, UnwindInv DEF L!Ahead, L!Fault, L!TypeOK, LocalSizes
<1>6. CASE /\ journal' = [journal EXCEPT ![e] =
                [op |-> job.kind, old |-> file[p] # 0, moved |-> FALSE, gen |-> FALSE,
                 end |-> "open"]]
           /\ job' = [job EXCEPT !.step = IF file[p] # 0 THEN "move" ELSE "write",
                                 !.done = @ \union {p}]
           /\ UNCHANGED failures
  <2>0. job.kind \in {"upload", "delete_doc"}
    BY <1>0, <1>3 DEF LInv, JobInv, WriteOK, Changing, L!Command
  <2>a. PICK old \in BOOLEAN :
          /\ old = TRUE <=> file[p] # 0
          /\ journal' = [journal EXCEPT ![e] =
                [op |-> job.kind, old |-> old, moved |-> FALSE, gen |-> FALSE,
                 end |-> "open"]]
    BY <1>6
  <2> DEFINE row == [op |-> job.kind, old |-> old, moved |-> FALSE, gen |-> FALSE,
                     end |-> "open"]
  <2>1. row \in L!Entry /\ row # Nil /\ row.end = "open" /\ row.old = old
    BY <2>0, <1>3, NewEntry
  <2>b. journal' = [journal EXCEPT ![e] = row]
    BY <2>a
  <2> HIDE DEF row
  <2>2. journal'[e] = row /\ \A d \in L!Entries : d # e => journal'[d] = journal[d]
    BY <1>1, <1>3, <2>b DEF L!TypeOK
  <2>3. journal' \in [L!Entries -> L!Entry \union {Nil}]
    BY <1>3, <2>b, <2>1 DEF L!TypeOK
  <2>4. /\ job' \in L!Command /\ job' # Nil /\ job'.id = job.id /\ job'.kind = job.kind
        /\ job'.done = job.done \union {p} /\ job'.todo = job.todo
        /\ job'.step = IF file[p] # 0 THEN "move" ELSE "write"
    <3> DEFINE step == IF file[p] # 0 THEN "move" ELSE "write"
    <3>1. step \in {"move", "write"}
      OBVIOUS
    <3>2. job' = [job EXCEPT !.step = step, !.done = @ \union {p}]
      BY <1>6
    <3> HIDE DEF step
    <3>3. job' \in L!Command /\ job'.id = job.id /\ job'.kind = job.kind
          /\ job'.done = job.done \union {p} /\ job'.todo = job.todo /\ job'.step = step
      BY <1>1, <1>3, <3>1, <3>2 DEF L!Command
    <3> QED
      BY <1>3, <3>3 DEF LocalSizes, step
  <2>5. L!TypeOK'
    BY <1>3, <1>4, <1>6, <2>3, <2>4 DEF L!TypeOK
  <2>6. NewestInv'
    BY <1>1, <1>4, <2>2, NewestStep
  <2>7. L!Open(e)' /\ (journal'[e].old = TRUE <=> file[p] # 0)
    BY <2>a, <2>1, <2>2 DEF L!Open
  <2>8. PathInv'
    <3>1. file[p] = L!Docs(active)[p]
      <4>1. \A j \in L!Jobs : ~L!Open(<<j, p>>)
        BY <1>1, <1>2 DEF LInv, NewestInv, L!Open, L!Entries
      <4> QED
        BY <1>1, <1>3, <4>1 DEF LInv, PathInv
    <3>2. EntryOK(e)'
      BY <1>1, <1>2, <1>4, <2>7, <3>1 DEF EntryOK, L!Docs
    <3> QED
      BY <1>1, <1>3, <1>4, <2>2, <2>7, <3>2, PathStep DEF L!Docs
  <2>9. JobInv'
    <3>1. L!Reached' = p
      BY <1>1, <2>4 DEF L!Reached
    <3>2. /\ \A q \in job.done : L!Open(<<jobs, q>>) /\ q \in L!Paths
          /\ \A q \in L!Paths \ job.done : journal[<<jobs, q>>] = Nil /\ backup[<<jobs, q>>] = 0
      BY <1>0, <1>3, Working DEF LInv, JobInv, ForwardOK, L!Ahead
    <3>3. \A q \in L!Paths : q # p => <<jobs, q>> \in L!Entries /\ <<jobs, q>> # e
      BY <1>1, <1>3 DEF L!Entries
    <3>4. ForwardOK'
      BY <1>1, <1>2, <1>3, <1>4, <2>2, <2>4, <2>7, <3>2, <3>3 DEF ForwardOK, L!Open
    <3>5. WriteOK'
      <4>1. job.todo \intersect job.done = {}
        BY <1>0 DEF LInv, JobInv, WriteOK
      <4> QED
        BY <1>1, <1>2, <1>4, <2>0, <2>4, <2>7, <3>1, <4>1 DEF WriteOK, Changing
    <3>6. BuildOK' /\ EndOK'
      BY <2>4 DEF BuildOK, EndOK, Landing, Undoing
    <3>7. \A q \in job'.done : journal'[<<jobs', q>>] # Nil
      BY <1>1, <1>4, <2>2, <2>4, <2>7, <3>2, <3>3 DEF L!Open
    <3>8. L!Usable' /\ job'.id = jobs' /\ jobs' # 0 /\ job'.step \in L!Ahead
      BY <1>3, <1>4, <2>4 DEF L!Usable, L!Ahead, L!Jobs
    <3> QED
      BY <3>4, <3>5, <3>6, <3>7, <3>8 DEF JobInv
  <2> QED
    BY <1>0, <1>4, <2>4, <2>5, <2>6, <2>8, <2>9, JobStepInv
<1> QED
  BY <1>1, <1>5, <1>6 DEF L!Begin
LEMMA MoveInv == ASSUME LInv, L!Move PROVE LInv'
<1>0. job # Nil /\ job.kind # "drop" /\ job.step = "move"
  BY DEF LInv, L!Move, L!At, LifeInv, DropSteps
<1>1. PICK p \in L!Paths, e \in L!Entries :
         p = L!Reached /\ e = L!Mine(p) /\ e = <<jobs, p>> /\ p \in job.todo /\ p \in job.done
  BY <1>0, AtReached DEF Changing
<1>2. /\ active # jobs /\ L!Open(e) /\ journal[e].old /\ backup[e] = 0 /\ file[p] # 0
      /\ EntryOK(e)
  BY <1>0, <1>1, Working DEF LInv, JobInv, ForwardOK, WriteOK, PathInv, L!Ahead
<1>3. /\ job \in L!Command /\ L!Usable /\ jobs \in L!Jobs /\ job.id = jobs
      /\ proc.state = "up" /\ L!TypeOK /\ LocalSizes
  BY <1>0, Working DEF LInv
<1>4. UNCHANGED <<journal, generations, active, record, jobs, proc, crashes>>
  BY DEF L!Move
<1>5. CASE L!Fault /\ L!Unwind /\ UNCHANGED <<file, backup>>
  BY <1>0, <1>3, <1>4, <1>5, UnwindInv DEF L!Ahead, L!Fault, L!TypeOK, LocalSizes
<1>6. CASE /\ file' = [file EXCEPT ![p] = 0]
           /\ backup' = [backup EXCEPT ![e] = file[p]]
           /\ L!Goto("mark")
           /\ UNCHANGED failures
  <2>1. /\ file'[p] = 0 /\ \A q \in L!Paths \ {p} : file'[q] = file[q]
        /\ backup'[e] = file[p] /\ \A d \in L!Entries : d # e => backup'[d] = backup[d]
        /\ file' \in [L!Paths -> L!Versions] /\ backup' \in [L!Entries -> L!Versions]
    BY <1>3, <1>6 DEF L!TypeOK, L!Versions, L!Torn, LocalSizes
  <2>2. /\ job' \in L!Command /\ job' # Nil /\ job'.id = job.id /\ job'.kind = job.kind
        /\ job'.done = job.done /\ job'.todo = job.todo /\ job'.step = "mark"
    BY <1>3, <1>6 DEF L!Command, LocalSizes, L!Goto
  <2>3. L!TypeOK'
    BY <1>3, <1>4, <1>6, <2>1, <2>2 DEF L!TypeOK
  <2>4. NewestInv'
    BY <1>1, <1>4, <2>1, NewestStep
  <2>5. PathInv'
    <3>1. L!Open(e)' /\ EntryOK(e)'
      BY <1>1, <1>2, <1>4, <2>1 DEF EntryOK, L!Docs, L!Open
    <3> QED
      BY <1>1, <1>3, <1>4, <2>1, <3>1, PathStep DEF L!Docs
  <2>6. JobInv'
    <3>1. L!Reached' = p
      BY <1>1, <2>2 DEF L!Reached
    <3>2. \A q \in L!Paths : q # p => <<jobs, q>> \in L!Entries /\ <<jobs, q>> # e
      BY <1>1, <1>3 DEF L!Entries
    <3>3. ForwardOK'
      BY <1>0, <1>1, <1>3, <1>4, <2>1, <2>2, <3>2, Working
      DEF LInv, JobInv, ForwardOK, L!Ahead, L!Open
    <3>4. WriteOK'
      BY <1>0, <1>1, <1>2, <1>4, <2>1, <2>2, <3>1 DEF LInv, JobInv, WriteOK, Changing
    <3>5. BuildOK' /\ EndOK'
      BY <2>2 DEF BuildOK, EndOK, Landing, Undoing
    <3>6. \A q \in job'.done : journal'[<<jobs', q>>] # Nil
      BY <1>0, <1>4, <2>2 DEF LInv, JobInv
    <3>7. L!Usable' /\ job'.id = jobs' /\ jobs' # 0 /\ job'.step \in L!Ahead
      BY <1>3, <1>4, <2>2 DEF L!Usable, L!Ahead, L!Jobs
    <3> QED
      BY <3>3, <3>4, <3>5, <3>6, <3>7 DEF JobInv
  <2> QED
    BY <1>0, <1>4, <2>2, <2>3, <2>4, <2>5, <2>6, JobStepInv
<1> QED
  BY <1>1, <1>5, <1>6 DEF L!Move

LEMMA MarkInv == ASSUME LInv, L!MarkMoved PROVE LInv'
<1>0. job # Nil /\ job.kind # "drop" /\ job.step = "mark"
  BY DEF LInv, L!MarkMoved, L!At, LifeInv, DropSteps
<1>1. PICK p \in L!Paths, e \in L!Entries :
         p = L!Reached /\ e = L!Mine(p) /\ e = <<jobs, p>> /\ p \in job.todo /\ p \in job.done
  BY <1>0, AtReached DEF Changing
<1>2. /\ active # jobs /\ L!Open(e) /\ journal[e].old /\ backup[e] # 0
      /\ EntryOK(e)
  BY <1>0, <1>1, Working DEF LInv, JobInv, ForwardOK, WriteOK, PathInv, L!Ahead
<1>3. /\ job \in L!Command /\ L!Usable /\ jobs \in L!Jobs /\ job.id = jobs
      /\ proc.state = "up" /\ L!TypeOK /\ LocalSizes
  BY <1>0, Working DEF LInv
<1>4. UNCHANGED <<file, backup, generations, active, record, jobs, proc, crashes>>
  BY DEF L!MarkMoved
<1>5. CASE L!Fault /\ L!Unwind /\ UNCHANGED journal
  BY <1>0, <1>3, <1>4, <1>5, UnwindInv DEF L!Ahead, L!Fault, L!TypeOK, LocalSizes
<1>6. CASE /\ journal' = [journal EXCEPT ![e].moved = TRUE]
           /\ L!Goto(IF job.kind = "upload" THEN "write" ELSE "build")
           /\ UNCHANGED failures
  <2>1. /\ journal'[e] # Nil /\ journal'[e].end = journal[e].end
        /\ journal'[e].old = journal[e].old /\ journal'[e].gen = journal[e].gen
        /\ \A d \in L!Entries : d # e => journal'[d] = journal[d]
        /\ journal' \in [L!Entries -> L!Entry \union {Nil}]
    <3>1. journal[e] \in L!Entry
      BY <1>2, <1>3 DEF L!TypeOK, L!Open
    <3>2. PICK row : row = [journal[e] EXCEPT !.moved = TRUE]
      OBVIOUS
    <3>3. /\ row \in L!Entry /\ row # Nil /\ row.end = journal[e].end
          /\ row.old = journal[e].old /\ row.gen = journal[e].gen
      BY <1>3, <3>1, <3>2, EntryEdit
    <3>4. journal' = [journal EXCEPT ![e] = row] /\ journal \in [L!Entries -> L!Entry \union {Nil}]
      BY <1>3, <1>6, <3>2 DEF L!TypeOK
    <3> QED
      BY <1>3, <3>3, <3>4
  <2>2. /\ job' \in L!Command /\ job' # Nil /\ job'.id = job.id /\ job'.kind = job.kind
        /\ job'.done = job.done /\ job'.todo = job.todo /\ job'.step \in {"write", "build"}
    BY <1>3, <1>6 DEF L!Command, LocalSizes, L!Goto
  <2>3. L!TypeOK'
    BY <1>3, <1>4, <1>6, <2>1, <2>2 DEF L!TypeOK
  <2>4. NewestInv'
    BY <1>1, <1>4, <2>1, NewestStep
  <2>5. PathInv'
    <3>1. L!Open(e)' /\ EntryOK(e)'
      BY <1>1, <1>2, <1>4, <2>1 DEF EntryOK, L!Docs, L!Open
    <3> QED
      BY <1>1, <1>3, <1>4, <2>1, <3>1, PathStep DEF L!Docs
  <2>6. JobInv'
    <3>1. L!Reached' = p
      BY <1>1, <2>2 DEF L!Reached
    <3>2. \A q \in L!Paths : q # p => <<jobs, q>> \in L!Entries /\ <<jobs, q>> # e
      BY <1>1, <1>3 DEF L!Entries
    <3>3. ForwardOK'
      BY <1>0, <1>1, <1>2, <1>3, <1>4, <2>1, <2>2, <3>2, Working
      DEF LInv, JobInv, ForwardOK, L!Ahead, L!Open
    <3>4. WriteOK'
      BY <1>0, <1>1, <1>2, <1>4, <2>1, <2>2, <3>1 DEF LInv, JobInv, WriteOK, Changing
    <3>5. BuildOK' /\ EndOK'
      BY <2>2 DEF BuildOK, EndOK, Landing, Undoing
    <3>6. \A q \in job'.done : journal'[<<jobs', q>>] # Nil
      BY <1>0, <1>1, <1>3, <1>4, <2>1, <2>2, <3>2, Working DEF LInv, JobInv
    <3>7. L!Usable' /\ job'.id = jobs' /\ jobs' # 0 /\ job'.step \in L!Ahead
      BY <1>3, <1>4, <2>2 DEF L!Usable, L!Ahead, L!Jobs
    <3> QED
      BY <3>3, <3>4, <3>5, <3>6, <3>7 DEF JobInv
  <2> QED
    BY <1>0, <1>4, <2>2, <2>3, <2>4, <2>5, <2>6, JobStepInv
<1> QED
  BY <1>1, <1>5, <1>6 DEF L!MarkMoved
LEMMA WriteInv == ASSUME LInv, L!Write PROVE LInv'
<1>0. job # Nil /\ job.kind # "drop" /\ job.step = "write"
  BY DEF LInv, L!Write, L!At, LifeInv, DropSteps
<1>1. PICK p \in L!Paths, e \in L!Entries :
         p = L!Reached /\ e = L!Mine(p) /\ e = <<jobs, p>> /\ p \in job.todo /\ p \in job.done
  BY <1>0, AtReached DEF Changing
<1>2. /\ active # jobs /\ L!Open(e) /\ (journal[e].old => backup[e] # 0)
      /\ EntryOK(e) /\ job.todo \intersect job.done = {p}
  BY <1>0, <1>1, Working DEF LInv, JobInv, ForwardOK, WriteOK, PathInv, L!Ahead, Changing
<1>3. /\ job \in L!Command /\ L!Usable /\ jobs \in L!Jobs /\ job.id = jobs
      /\ proc.state = "up" /\ L!TypeOK /\ LocalSizes
  BY <1>0, Working DEF LInv
<1>4. UNCHANGED <<backup, journal, generations, active, record, jobs, proc, crashes>>
  BY DEF L!Write
<1>5. PICK v \in L!Versions : file' = [file EXCEPT ![p] = v]
  BY <1>1, <1>3 DEF L!Write, L!Versions, L!Torn, L!Jobs, LocalSizes
<1>6. /\ \A q \in L!Paths \ {p} : file'[q] = file[q]
      /\ file' \in [L!Paths -> L!Versions]
  BY <1>3, <1>5 DEF L!TypeOK
<1>7. NewestInv'
  BY <1>4, NewestStep
<1>8. PathInv'
  <2>1. L!Open(e)' /\ EntryOK(e)'
    BY <1>1, <1>2, <1>4 DEF EntryOK, L!Docs, L!Open
  <2> QED
    BY <1>1, <1>3, <1>4, <1>6, <2>1, PathStep DEF L!Docs
<1>9. CASE L!Fault /\ L!Unwind
  <2>1. JobInv' /\ job' \in L!Command \union {Nil} /\ (job' # Nil => job'.kind = job.kind)
    BY <1>0, <1>4, <1>9, UnwindStep DEF L!Ahead
  <2>2. L!TypeOK'
    BY <1>3, <1>4, <1>6, <1>9, <2>1 DEF L!TypeOK, L!Fault, LocalSizes
  <2> QED
    BY <1>0, <1>4, <1>7, <1>8, <2>1, <2>2, JobStepInv
<1>10. CASE /\ job' = [job EXCEPT !.todo = job.todo \ {p},
                          !.step = IF job.todo \ {p} = {} THEN "build" ELSE "begin"]
            /\ UNCHANGED failures
  <2>1. PICK rest \in SUBSET L!Paths, step \in {"build", "begin"} :
           /\ rest = job.todo \ {p}
           /\ step = IF rest = {} THEN "build" ELSE "begin"
           /\ job' = [job EXCEPT !.todo = rest, !.step = step]
    <3>1. job.todo \ {p} \in SUBSET L!Paths
      BY <1>3 DEF L!Command
    <3> QED
      BY <1>10, <3>1
  <2>2. /\ job' \in L!Command /\ job' # Nil /\ job'.id = job.id /\ job'.kind = job.kind
        /\ job'.done = job.done /\ job'.todo = rest /\ job'.step = step
    <3>1. /\ job' \in L!Command /\ job'.id = job.id /\ job'.kind = job.kind
          /\ job'.done = job.done /\ job'.todo = rest /\ job'.step = step
      BY <1>3, <2>1 DEF L!Command
    <3>2. job' # Nil
      BY <1>3, <3>1 DEF LocalSizes
    <3> QED
      BY <3>1, <3>2
  <2>3. L!TypeOK'
    BY <1>3, <1>4, <1>6, <1>10, <2>2 DEF L!TypeOK
  <2>4. ForwardOK'
    BY <1>0, <1>3, <1>4, <2>2 DEF LInv, JobInv, ForwardOK, L!Ahead, L!Open
  <2>5. WriteOK'
    BY <1>0, <1>2, <2>1, <2>2 DEF LInv, JobInv, WriteOK, Changing
  <2>6. BuildOK' /\ EndOK'
    BY <2>2 DEF BuildOK, EndOK, Landing, Undoing
  <2>7. \A q \in job'.done : journal'[<<jobs', q>>] # Nil
    BY <1>0, <1>4, <2>2 DEF LInv, JobInv
  <2>8. L!Usable' /\ job'.id = jobs' /\ jobs' # 0 /\ job'.step \in L!Ahead
    BY <1>3, <1>4, <2>2 DEF L!Usable, L!Ahead, L!Jobs
  <2>9. JobInv'
    BY <2>4, <2>5, <2>6, <2>7, <2>8 DEF JobInv
  <2> QED
    BY <1>0, <1>4, <1>7, <1>8, <2>2, <2>3, <2>9, JobStepInv
<1> QED
  BY <1>1, <1>9, <1>10 DEF L!Write

LEMMA BuildInv == ASSUME LInv, L!Build PROVE LInv'
<1>0. job # Nil /\ job.kind # "drop" /\ job.step = "build"
  BY DEF LInv, L!Build, L!At, LifeInv, DropSteps
<1>1. /\ job \in L!Command /\ L!Usable /\ jobs \in L!Jobs /\ job.id = jobs
      /\ proc.state = "up" /\ L!TypeOK /\ LocalSizes
  BY <1>0, Working DEF LInv
<1>2. UNCHANGED <<file, backup, journal, active, record, jobs, proc, crashes, failures>>
  BY DEF L!Build
<1>3. active # jobs
  BY <1>0, <1>1 DEF LInv, JobInv, ForwardOK, L!Ahead
<1>4. CASE L!Unwind /\ UNCHANGED generations
  BY <1>0, <1>1, <1>2, <1>4, UnwindInv DEF L!Ahead, L!TypeOK
<1>5. CASE /\ generations' = [generations EXCEPT ![job.id] = [status |-> "staged", docs |-> file]]
           /\ job' = [job EXCEPT !.todo = job.done,
                                 !.step = IF job.done = {} THEN "switch" ELSE "record"]
  <2>1. /\ generations'[jobs].docs = file /\ generations'[jobs].status = "staged"
        /\ \A j \in L!Jobs : j # jobs => generations'[j] = generations[j]
        /\ generations' \in [L!Jobs -> L!Generation]
    BY <1>1, <1>5 DEF L!TypeOK, L!Generation
  <2>2. PICK step \in {"switch", "record"} :
           /\ step = IF job.done = {} THEN "switch" ELSE "record"
           /\ job' = [job EXCEPT !.todo = job.done, !.step = step]
    BY <1>5
  <2>3. /\ job' \in L!Command /\ job' # Nil /\ job'.id = job.id /\ job'.kind = job.kind
        /\ job'.done = job.done /\ job'.todo = job.done /\ job'.step = step
    <3>1. /\ job' \in L!Command /\ job'.id = job.id /\ job'.kind = job.kind
          /\ job'.done = job.done /\ job'.todo = job.done /\ job'.step = step
      BY <1>1, <2>2 DEF L!Command
    <3>2. job' # Nil
      BY <1>1, <3>1 DEF LocalSizes
    <3> QED
      BY <3>1, <3>2
  <2>4. L!TypeOK'
    BY <1>1, <1>2, <2>1, <2>3 DEF L!TypeOK
  <2>5. NewestInv'
    BY <1>2, <1>3, <2>1, NewestStep
  <2>6. L!Docs(active)' = L!Docs(active)
    BY <1>1, <1>2, <1>3, <2>1 DEF L!Docs, L!TypeOK, L!Jobs
  <2>7. PathInv'
    BY <1>2, <2>6 DEF LInv, PathInv, L!Usable, L!Open, EntryOK
  <2>8. JobInv'
    <3>1. ForwardOK'
      BY <1>0, <1>1, <1>2, <2>3 DEF LInv, JobInv, ForwardOK, L!Ahead, L!Open
    <3>2. WriteOK' /\ EndOK'
      BY <2>3 DEF WriteOK, Changing, EndOK, Landing, Undoing
    <3>3. BuildOK'
      BY <1>1, <1>2, <2>1, <2>2, <2>3 DEF BuildOK
    <3>4. \A q \in job'.done : journal'[<<jobs', q>>] # Nil
      BY <1>0, <1>2, <2>3 DEF LInv, JobInv
    <3>5. L!Usable' /\ job'.id = jobs' /\ jobs' # 0 /\ job'.step \in L!Ahead
      BY <1>1, <1>2, <2>3 DEF L!Usable, L!Ahead, L!Jobs
    <3> QED
      BY <3>1, <3>2, <3>3, <3>4, <3>5 DEF JobInv
  <2> QED
    BY <1>0, <1>2, <2>3, <2>4, <2>5, <2>7, <2>8, JobStepInv
<1> QED
  BY <1>4, <1>5 DEF L!Build

LEMMA RecordInv == ASSUME LInv, L!Record PROVE LInv'
<1>0. job # Nil /\ job.kind # "drop" /\ job.step = "record"
  BY DEF LInv, L!Record, L!At, LifeInv, DropSteps
<1>1. /\ job \in L!Command /\ L!Usable /\ jobs \in L!Jobs /\ job.id = jobs
      /\ proc.state = "up" /\ L!TypeOK /\ LocalSizes
  BY <1>0, Working DEF LInv
<1>2. PICK p \in L!Paths, e \in L!Entries :
         p = L!Reached /\ e = L!Mine(p) /\ e = <<jobs, p>> /\ p \in job.todo /\ p \in job.done
  <2>1. job.todo # {} /\ job.todo \subseteq job.done
    BY <1>0 DEF LInv, JobInv, BuildOK
  <2>2. L!Reached \in job.todo
    BY <1>0, <1>1, <2>1, Working, MinMax DEF L!Reached
  <2> QED
    BY <1>0, <2>1, <2>2, Working
<1>3. /\ active # jobs /\ L!Open(e) /\ EntryOK(e)
      /\ generations[jobs].docs = file /\ job.todo \subseteq job.done
      /\ \A q \in job.done \ job.todo : journal[<<jobs, q>>].gen
  BY <1>0, <1>1, <1>2 DEF LInv, JobInv, ForwardOK, BuildOK, PathInv, L!Ahead
<1>4. UNCHANGED <<file, backup, active, record, jobs, proc, crashes>>
  BY DEF L!Record
<1>5. CASE L!Fault /\ generations' = L!Discarded /\ L!Unwind /\ UNCHANGED journal
  BY <1>0, <1>1, <1>4, <1>5, UnwindInv DEF L!Ahead, L!Fault, L!TypeOK, LocalSizes
<1>6. CASE /\ journal' = [journal EXCEPT ![e].gen = TRUE]
           /\ job' = [job EXCEPT !.todo = job.todo \ {p},
                         !.step = IF job.todo \ {p} = {} THEN "switch" ELSE "record"]
           /\ UNCHANGED <<generations, failures>>
  <2>1. /\ journal'[e] # Nil /\ journal'[e].end = journal[e].end
        /\ journal'[e].old = journal[e].old /\ journal'[e].gen = TRUE
        /\ \A d \in L!Entries : d # e => journal'[d] = journal[d]
        /\ journal' \in [L!Entries -> L!Entry \union {Nil}]
    <3>1. journal[e] \in L!Entry
      BY <1>1, <1>3 DEF L!TypeOK, L!Open
    <3>2. PICK row : row = [journal[e] EXCEPT !.gen = TRUE]
      OBVIOUS
    <3>3. /\ row \in L!Entry /\ row # Nil /\ row.end = journal[e].end
          /\ row.old = journal[e].old /\ row.gen = TRUE
      BY <1>1, <3>1, <3>2, EntryEdit
    <3>4. journal' = [journal EXCEPT ![e] = row] /\ journal \in [L!Entries -> L!Entry \union {Nil}]
      BY <1>1, <1>6, <3>2 DEF L!TypeOK
    <3> QED
      BY <1>1, <3>3, <3>4
  <2>2. PICK rest \in SUBSET L!Paths, step \in {"switch", "record"} :
           /\ rest = job.todo \ {p}
           /\ step = IF rest = {} THEN "switch" ELSE "record"
           /\ job' = [job EXCEPT !.todo = rest, !.step = step]
    <3>1. job.todo \ {p} \in SUBSET L!Paths
      BY <1>1 DEF L!Command
    <3> QED
      BY <1>6, <3>1
  <2>3. /\ job' \in L!Command /\ job' # Nil /\ job'.id = job.id /\ job'.kind = job.kind
        /\ job'.done = job.done /\ job'.todo = rest /\ job'.step = step
    <3>1. /\ job' \in L!Command /\ job'.id = job.id /\ job'.kind = job.kind
          /\ job'.done = job.done /\ job'.todo = rest /\ job'.step = step
      BY <1>1, <2>2 DEF L!Command
    <3>2. job' # Nil
      BY <1>1, <3>1 DEF LocalSizes
    <3> QED
      BY <3>1, <3>2
  <2>4. L!TypeOK'
    BY <1>1, <1>4, <1>6, <2>1, <2>3 DEF L!TypeOK
  <2>5. NewestInv'
    BY <1>2, <1>4, <1>6, <2>1, NewestStep
  <2>6. PathInv'
    <3>1. L!Open(e)' /\ EntryOK(e)'
      BY <1>2, <1>3, <1>4, <1>6, <2>1 DEF EntryOK, L!Docs, L!Open
    <3> QED
      BY <1>1, <1>2, <1>4, <1>6, <2>1, <3>1, PathStep DEF L!Docs
  <2>7. JobInv'
    <3>1. \A q \in L!Paths : q # p => <<jobs, q>> \in L!Entries /\ <<jobs, q>> # e
      BY <1>1, <1>2 DEF L!Entries
    <3>2. ForwardOK'
      BY <1>0, <1>1, <1>2, <1>3, <1>4, <2>1, <2>3, <3>1, Working
      DEF LInv, JobInv, ForwardOK, L!Ahead, L!Open
    <3>3. WriteOK' /\ EndOK'
      BY <2>3 DEF WriteOK, Changing, EndOK, Landing, Undoing
    <3>4. BuildOK'
      BY <1>0, <1>1, <1>2, <1>3, <1>4, <1>6, <2>1, <2>2, <2>3, <3>1, Working DEF BuildOK
    <3>5. \A q \in job'.done : journal'[<<jobs', q>>] # Nil
      BY <1>0, <1>1, <1>2, <1>4, <2>1, <2>3, <3>1, Working DEF LInv, JobInv
    <3>6. L!Usable' /\ job'.id = jobs' /\ jobs' # 0 /\ job'.step \in L!Ahead
      BY <1>1, <1>4, <2>3 DEF L!Usable, L!Ahead, L!Jobs
    <3> QED
      BY <3>2, <3>3, <3>4, <3>5, <3>6 DEF JobInv
  <2> QED
    BY <1>0, <1>4, <2>3, <2>4, <2>5, <2>6, <2>7, JobStepInv
<1> QED
  BY <1>2, <1>5, <1>6 DEF L!Record
LEMMA SwitchInv == ASSUME LInv, L!SwitchActive PROVE LInv'
<1>0. job # Nil /\ job.kind # "drop" /\ job.step = "switch"
  BY DEF LInv, L!SwitchActive, L!At, LifeInv, DropSteps
<1>1. /\ job \in L!Command /\ L!Usable /\ jobs \in L!Jobs /\ job.id = jobs
      /\ proc.state = "up" /\ L!TypeOK /\ LocalSizes
  BY <1>0, Working DEF LInv
<1>2. UNCHANGED <<file, backup, journal, record, jobs, proc, crashes, failures>>
  BY DEF L!SwitchActive
<1>3. /\ active # jobs /\ generations[jobs].docs = file
      /\ \A q \in job.done : L!Open(<<jobs, q>>) /\ journal[<<jobs, q>>].gen
      /\ \A q \in L!Paths \ job.done : journal[<<jobs, q>>] = Nil
  BY <1>0, <1>1 DEF LInv, JobInv, ForwardOK, BuildOK, L!Ahead
<1>4. CASE generations' = L!Discarded /\ L!Unwind /\ UNCHANGED active
  BY <1>0, <1>1, <1>2, <1>4, UnwindInv DEF L!Ahead, L!TypeOK
<1>5. CASE /\ active' = job.id
           /\ generations' = [j \in L!Jobs |->
                 IF j = job.id THEN [generations[j] EXCEPT !.status = "active"]
                 ELSE IF j = active THEN [generations[j] EXCEPT !.status = "superseded"]
                 ELSE generations[j]]
           /\ job' = IF job.done = {} THEN Nil ELSE [job EXCEPT !.step = "commit"]
  <2>1. /\ generations'[jobs].docs = file /\ generations'[jobs].status = "active"
        /\ \A j \in L!Jobs : j # jobs =>
              generations'[j].status = IF j = active THEN "superseded" ELSE generations[j].status
        /\ generations' \in [L!Jobs -> L!Generation]
    <3>1. \A g \in L!Generation : /\ [g EXCEPT !.status = "active"] \in L!Generation
                                  /\ [g EXCEPT !.status = "superseded"] \in L!Generation
      BY DEF L!Generation
    <3>2. \A j \in L!Jobs : generations[j] \in L!Generation
      BY <1>1 DEF L!TypeOK
    <3>3. generations' \in [L!Jobs -> L!Generation]
      BY <1>5, <3>1, <3>2
    <3>4. generations'[jobs].docs = file /\ generations'[jobs].status = "active"
      BY <1>1, <1>3, <1>5, <3>2 DEF L!Generation
    <3>5. \A j \in L!Jobs : j # jobs =>
             generations'[j].status = IF j = active THEN "superseded" ELSE generations[j].status
      BY <1>1, <1>5, <3>2 DEF L!Generation
    <3> QED
      BY <3>3, <3>4, <3>5
  <2>2. /\ job' \in L!Command \union {Nil} /\ active' = jobs /\ active' \in 0..MaxJobs
        /\ job' # Nil =>
              /\ job'.id = job.id /\ job'.kind = job.kind /\ job'.done = job.done
              /\ job'.step = "commit" /\ job.done # {}
    BY <1>1, <1>5 DEF L!Command, L!Jobs, LocalSizes
  <2>3. L!TypeOK'
    BY <1>1, <1>2, <2>1, <2>2 DEF L!TypeOK
  <2>4. NewestInv'
    <3>1. active < jobs
      BY <1>1, <1>3 DEF LInv, NewestInv, L!TypeOK, LocalSizes, L!Jobs
    <3>2. \A j \in L!Jobs : generations'[j].status = "active" => j = active'
      BY <1>1, <2>1, <2>2 DEF LInv, NewestInv
    <3>3. \A j \in L!Jobs : generations'[j].status = "superseded" => j < active'
      <4> SUFFICES ASSUME NEW j \in L!Jobs, generations'[j].status = "superseded" PROVE j < jobs
        BY <2>2
      <4>1. j = active \/ generations[j].status = "superseded"
        BY <2>1
      <4>2. j = active \/ j < active
        BY <4>1 DEF LInv, NewestInv
      <4> QED
        BY <3>1, <4>2, <1>1 DEF L!Jobs, L!TypeOK, LocalSizes
    <3>4. \A d \in L!Entries : L!Open(d)' => d[1] = jobs'
      BY <1>2 DEF LInv, NewestInv, L!Open
    <3>5. \A d \in L!Entries : d[1] > jobs' => journal'[d] = Nil /\ backup'[d] = 0
      BY <1>2 DEF LInv, NewestInv
    <3>6. active' <= jobs' /\ (active' # 0 => generations'[active'].status = "active")
      BY <1>1, <1>2, <2>1, <2>2 DEF L!Jobs
    <3> QED
      BY <3>2, <3>3, <3>4, <3>5, <3>6 DEF NewestInv
  <2>5. PathInv'
    <3>1. L!Docs(active)' = file
      BY <1>1, <2>1, <2>2 DEF L!Docs, L!Jobs
    <3>2. \A d \in L!Entries : L!Open(d)' => EntryOK(d)'
      <4> SUFFICES ASSUME NEW d \in L!Entries, L!Open(d) PROVE EntryOK(d)'
        BY <1>2 DEF L!Open
      <4>1. d = <<jobs, d[2]>> /\ d[2] \in job.done
        BY <1>3 DEF LInv, NewestInv, L!Entries, L!Open
      <4> QED
        BY <1>2, <1>3, <2>2, <3>1, <4>1 DEF EntryOK
    <3> QED
      BY <1>2, <3>1, <3>2 DEF PathInv
  <2>6. JobInv'
    <3> SUFFICES ASSUME job' # Nil PROVE JobInv'
      BY DEF JobInv
    <3>1. ForwardOK' /\ WriteOK' /\ BuildOK'
      BY <2>2 DEF ForwardOK, WriteOK, BuildOK, L!Ahead, Changing
    <3>2. EndOK'
      BY <1>1, <2>2 DEF EndOK, Landing, Undoing
    <3>3. \A q \in job'.done : journal'[<<jobs', q>>] # Nil
      BY <1>0, <1>2, <2>2 DEF LInv, JobInv
    <3>4. L!Usable' /\ job'.id = jobs' /\ jobs' # 0 /\ job'.step \in Landing
      BY <1>1, <1>2, <2>2 DEF L!Usable, Landing, L!Jobs
    <3> QED
      BY <3>1, <3>2, <3>3, <3>4 DEF JobInv
  <2> QED
    BY <1>0, <1>2, <2>2, <2>3, <2>4, <2>5, <2>6, JobStepInv
<1> QED
  BY <1>4, <1>5 DEF L!SwitchActive

-----------------------------------------------------------------------------
\* After the commit point.  The entry of a committed job may be marked or
\* removed in any state: the file is as it should be.
LEMMA LandingFacts ==
    ASSUME LInv, job # Nil, job.kind # "drop", job.step \in Landing
    PROVE  \E p \in L!Paths, e \in L!Entries :
              /\ p = L!First /\ e = L!Mine(p) /\ e = <<jobs, p>> /\ p \in job.done
              /\ active = jobs /\ journal[e] # Nil /\ file[p] = L!Docs(active)[p]
              /\ L!Open(e) => journal[e].gen
<1>1. job.done # {} /\ active = jobs
  BY Working DEF LInv, JobInv, EndOK
<1>2. L!First \in job.done /\ L!First \in L!Paths
  BY <1>1, Working, MinMax DEF LInv, L!First
<1>3. L!Mine(L!First) = <<jobs, L!First>> /\ <<jobs,
         L!First>> \in L!Entries /\ jobs \in L!Jobs /\ L!Usable
  BY <1>2, Working
<1>4. journal[<<jobs, L!First>>] # Nil
  BY <1>2 DEF LInv, JobInv
<1>5. CASE L!Open(<<jobs, L!First>>)
  <2>1. EntryOK(<<jobs, L!First>>)
    BY <1>3, <1>5 DEF LInv, PathInv
  <2> QED
    BY <1>1, <1>2, <1>3, <1>4, <1>5, <2>1 DEF EntryOK
<1>6. CASE ~L!Open(<<jobs, L!First>>)
  <2>1. \A j \in L!Jobs : ~L!Open(<<j, L!First>>)
    BY <1>2, <1>6 DEF LInv, NewestInv, L!Entries
  <2>2. file[L!First] = L!Docs(active)[L!First]
    BY <1>2, <1>3, <2>1 DEF LInv, PathInv
  <2> QED
    BY <1>1, <1>2, <1>3, <1>4, <1>6, <2>2
<1> QED
  BY <1>5, <1>6

\* A step after the commit of a document that is settled.
LEMMA LandingStep ==
    ASSUME LInv, job # Nil, job.kind # "drop", job.step \in Landing,
           NEW e, e = L!Mine(L!First),
           UNCHANGED <<file, generations, active, record, jobs, proc, crashes>>,
           failures' \in 0..MaxFailures,
           backup' \in [L!Entries -> L!Versions], journal' \in [L!Entries -> L!Entry \union {Nil}],
           \A d \in L!Entries : d # e => journal'[d] = journal[d] /\ backup'[d] = backup[d],
           L!Open(e)' => L!Open(e) /\ journal'[e].gen = journal[e].gen,
           \/ L!CommitNext
           \/ /\ job' \in L!Command /\ job'.id = job.id /\ job'.kind = job.kind
              /\ job'.done = job.done /\ job'.step \in Landing
              /\ journal'[e] # Nil
    PROVE  LInv'
<1>1. PICK p \in L!Paths :
              /\ p = L!First /\ e \in L!Entries /\ e = <<jobs, p>> /\ p \in job.done
              /\ active = jobs /\ journal[e] # Nil /\ file[p] = L!Docs(active)[p]
              /\ L!Open(e) => journal[e].gen
  BY LandingFacts
<1>2. /\ job \in L!Command /\ L!Usable /\ jobs \in L!Jobs /\ job.id = jobs
      /\ proc.state = "up" /\ L!TypeOK /\ LocalSizes
  BY Working DEF LInv
<1>3. /\ job' \in L!Command \union {Nil}
      /\ job' # Nil =>
            /\ job'.id = job.id /\ job'.kind = job.kind /\ job'.done \subseteq job.done
            /\ job'.step \in Landing /\ job'.done # {}
            /\ p \in job'.done => journal'[e] # Nil
  <2>1. CASE L!CommitNext
    <3>1. CASE job.done = {p}
      BY <1>1, <2>1, <3>1 DEF L!CommitNext
    <3>2. CASE job.done # {p}
      <4>1. PICK rest \in SUBSET L!Paths :
               rest = job.done \ {p} /\ job' = [job EXCEPT !.done = rest, !.step = "commit"]
        BY <1>1, <1>2, <2>1, <3>2 DEF L!CommitNext, L!Command
      <4>2. /\ job' \in L!Command /\ job'.id = job.id /\ job'.kind = job.kind
            /\ job'.done = rest /\ job'.step = "commit"
        BY <1>2, <4>1 DEF L!Command
      <4> QED
        BY <1>1, <3>2, <4>1, <4>2 DEF Landing
    <3> QED
      BY <3>1, <3>2
  <2>2. CASE job' \in L!Command /\ job'.done = job.done /\ job'.id = job.id
              /\ job'.kind = job.kind /\ job'.step \in Landing /\ journal'[e] # Nil
    BY <1>1, <2>2 DEF LInv, JobInv, EndOK
  <2> QED
    BY <2>1, <2>2
<1>4. L!TypeOK'
  BY <1>2, <1>3 DEF L!TypeOK
<1>5. NewestInv'
  BY <1>1, NewestStep
<1>6. PathInv'
  <2>1. L!Docs(active)' = L!Docs(active)
    BY DEF L!Docs
  <2>2. L!Open(e)' => EntryOK(e)'
    BY <1>1, <2>1 DEF EntryOK
  <2>3. IF L!Open(<<jobs, p>>)' THEN EntryOK(<<jobs, p>>)' ELSE file'[p] = L!Docs(active)[p]
    BY <1>1, <2>2 DEF L!Open, EntryOK
  <2> QED
    BY <1>1, <1>2, <2>1, <2>3, PathStep
<1>7. JobInv'
  <2> SUFFICES ASSUME job' # Nil PROVE JobInv'
    BY DEF JobInv
  <2>1. ForwardOK' /\ WriteOK' /\ BuildOK'
    BY <1>3 DEF ForwardOK, WriteOK, BuildOK, L!Ahead, Changing, Landing
  <2>2. EndOK'
    BY <1>1, <1>2, <1>3 DEF EndOK, Landing, Undoing
  <2>3. \A q \in job'.done : journal'[<<jobs', q>>] # Nil
    <3> SUFFICES ASSUME NEW q \in job'.done PROVE journal'[<<jobs, q>>] # Nil
      OBVIOUS
    <3>1. q \in job.done /\ <<jobs, q>> \in L!Entries /\ journal[<<jobs, q>>] # Nil
      BY <1>3, Working DEF LInv, JobInv
    <3> QED
      BY <1>1, <1>3, <3>1
  <2>4. L!Usable' /\ job'.id = jobs' /\ jobs' # 0 /\ job'.step \in Landing
    BY <1>2, <1>3 DEF L!Usable, L!Jobs
  <2> QED
    BY <2>1, <2>2, <2>3, <2>4 DEF JobInv
<1> QED
  BY <1>3, <1>4, <1>5, <1>6, <1>7, JobStepInv
\* The steps after the commit point.
LEMMA LandingInv == ASSUME LInv, L!MarkCommitted \/ L!Sweep \/ L!Clear PROVE LInv'
<1>0. job # Nil /\ job.kind # "drop" /\ job.step \in Landing
  BY DEF LInv, L!MarkCommitted, L!Sweep, L!Clear, L!At, LifeInv, DropSteps, Landing
<1>1. PICK p \in L!Paths, e \in L!Entries :
         /\ p = L!First /\ e = L!Mine(p) /\ e = <<jobs, p>> /\ p \in job.done
         /\ journal[e] # Nil
  BY <1>0, LandingFacts
<1>2. job \in L!Command /\ L!TypeOK /\ LocalSizes
  BY <1>0, Working DEF LInv
<1>3. UNCHANGED <<file, generations, active, record, jobs, proc, crashes>>
  BY DEF L!MarkCommitted, L!Sweep, L!Clear
<1>4. failures' \in 0..MaxFailures
  BY <1>2 DEF L!MarkCommitted, L!Sweep, L!Clear, L!Fault, L!TypeOK, LocalSizes
<1>5. CASE L!MarkCommitted
  <2>1. CASE /\ journal' = [journal EXCEPT ![e].end = "committed"]
             /\ job' = [job EXCEPT !.step = "sweep", !.ok = TRUE]
    <3>1. journal[e] \in L!Entry
      BY <1>1, <1>2 DEF L!TypeOK
    <3>2. /\ [journal[e] EXCEPT !.end = "committed"] \in L!Entry
          /\ [journal[e] EXCEPT !.end = "committed"].end = "committed"
      BY <3>1 DEF L!Entry
    <3>3. /\ journal'[e] = [journal[e] EXCEPT !.end = "committed"]
          /\ \A d \in L!Entries : d # e => journal'[d] = journal[d]
      BY <1>1, <1>2, <2>1 DEF L!TypeOK
    <3>4. journal' \in [L!Entries -> L!Entry \union {Nil}] /\ journal'[e] # Nil
      BY <1>1, <1>2, <2>1, <3>2, <3>3 DEF L!TypeOK, LocalSizes
    <3>5. ~L!Open(e)'
      BY <3>2, <3>3 DEF L!Open
    <3>6. /\ job' \in L!Command /\ job'.id = job.id /\ job'.kind = job.kind
          /\ job'.done = job.done /\ job'.step \in Landing
      BY <1>2, <2>1 DEF L!Command, Landing
    <3>7. backup' = backup /\ backup' \in [L!Entries -> L!Versions]
      BY <1>2, <1>5 DEF L!MarkCommitted, L!TypeOK
    <3> QED
      BY <1>0, <1>1, <1>3, <1>4, <3>3, <3>4, <3>5, <3>6, <3>7, LandingStep
  <2>2. CASE /\ job' = [job EXCEPT !.step = "sweep", !.ok = FALSE]
             /\ UNCHANGED journal
    <3>1. /\ job' \in L!Command /\ job'.id = job.id /\ job'.kind = job.kind
          /\ job'.done = job.done /\ job'.step \in Landing
      BY <1>2, <2>2 DEF L!Command, Landing
    <3>2. /\ backup' = backup /\ backup' \in [L!Entries -> L!Versions]
          /\ journal' \in [L!Entries -> L!Entry \union {Nil}]
      BY <1>2, <1>5, <2>2 DEF L!MarkCommitted, L!TypeOK
    <3> QED
      BY <1>0, <1>1, <1>3, <1>4, <2>2, <3>1, <3>2, LandingStep DEF L!Open
  <2> QED
    BY <1>1, <1>5, <2>1, <2>2 DEF L!MarkCommitted
<1>6. CASE L!Sweep
  <2>1. /\ \A d \in L!Entries : d # e => backup'[d] = backup[d]
        /\ backup' \in [L!Entries -> L!Versions]
        /\ journal' = journal /\ journal' \in [L!Entries -> L!Entry \union {Nil}]
    <3>1. backup' = [backup EXCEPT ![e] = 0] \/ backup' = backup
      BY <1>1, <1>6 DEF L!Sweep
    <3> QED
      BY <1>2, <1>6, <3>1 DEF L!Sweep, L!TypeOK, L!Versions, L!Torn, LocalSizes
  <2>2. \/ L!CommitNext
        \/ /\ job' \in L!Command /\ job'.id = job.id /\ job'.kind = job.kind
           /\ job'.done = job.done /\ job'.step \in Landing
    BY <1>2, <1>6 DEF L!Sweep, L!Goto, L!Command, Landing
  <2> QED
    BY <1>0, <1>1, <1>3, <1>4, <2>1, <2>2, LandingStep DEF L!Open
<1>7. CASE L!Clear
  <2>1. /\ \A d \in L!Entries : d # e => journal'[d] = journal[d]
        /\ journal'[e] = Nil \/ journal' = journal
        /\ journal' \in [L!Entries -> L!Entry \union {Nil}]
        /\ backup' = backup /\ backup' \in [L!Entries -> L!Versions]
    <3>1. journal' = [journal EXCEPT ![e] = Nil] \/ journal' = journal
      BY <1>1, <1>7 DEF L!Clear
    <3> QED
      BY <1>1, <1>2, <1>7, <3>1 DEF L!Clear, L!TypeOK
  <2>2. L!CommitNext
    BY <1>7 DEF L!Clear
  <2> QED
    BY <1>0, <1>1, <1>3, <1>4, <2>1, <2>2, LandingStep DEF L!Open
<1> QED
  BY <1>5, <1>6, <1>7

-----------------------------------------------------------------------------
\* Before the commit point: undoing.
LEMMA UndoingFacts ==
    ASSUME LInv, job # Nil, job.kind # "drop", job.step \in Undoing
    PROVE  \E p \in L!Paths, e \in L!Entries :
              /\ p = L!Last /\ e = L!Mine(p) /\ e = <<jobs, p>> /\ p \in job.done
              /\ active # jobs /\ journal[e] # Nil
              /\ job.step \in {"undo", "undoMark"} => L!Open(e) /\ EntryOK(e)
              /\ job.step \in {"undoMark", "undoClear"} => file[p] = L!Docs(active)[p]
              /\ \A q \in job.done \ {p} : L!Open(<<jobs, q>>) /\ <<jobs, q>> # e
<1>1. job.done # {} /\ active # jobs
  BY Working DEF LInv, JobInv, EndOK
<1>2. L!Last \in job.done /\ L!Last \in L!Paths
  BY <1>1, Working, MinMax DEF LInv, L!Last
<1>3. L!Mine(L!Last) = <<jobs, L!Last>> /\ <<jobs,
         L!Last>> \in L!Entries /\ jobs \in L!Jobs /\ L!Usable
  BY <1>2, Working
<1>4. journal[<<jobs, L!Last>>] # Nil
  BY <1>2 DEF LInv, JobInv
<1>5. job.step \in {"undo", "undoMark"} =>
         L!Open(<<jobs, L!Last>>) /\ EntryOK(<<jobs, L!Last>>)
  BY <1>2, <1>3 DEF LInv, JobInv, EndOK, PathInv
<1>6. job.step \in {"undoMark", "undoClear"} => file[L!Last] = L!Docs(active)[L!Last]
  BY DEF LInv, JobInv, EndOK
<1>7. \A q \in job.done \ {L!Last} : L!Open(<<jobs, q>>) /\ <<jobs, q>> # <<jobs, L!Last>>
  BY DEF LInv, JobInv, EndOK, Undoing
<1> QED
  BY <1>1, <1>2, <1>3, <1>4, <1>5, <1>6, <1>7

\* A step of the rollback of a document.
LEMMA UndoStep ==
    ASSUME LInv, job # Nil, job.kind # "drop", job.step \in Undoing,
           NEW p \in L!Paths, p = L!Last, NEW e, e = <<jobs, p>>,
           UNCHANGED <<generations, active, record, jobs, proc, crashes>>,
           failures' \in 0..MaxFailures, file' \in [L!Paths -> L!Versions],
           backup' \in [L!Entries -> L!Versions], journal' \in [L!Entries -> L!Entry \union {Nil}],
           \A q \in L!Paths \ {p} : file'[q] = file[q],
           \A d \in L!Entries : d # e => journal'[d] = journal[d] /\ backup'[d] = backup[d],
           IF L!Open(e)' THEN EntryOK(e)' ELSE file'[p] = L!Docs(active)[p],
           \/ L!UndoNext
           \/ /\ job' \in L!Command /\ job'.id = job.id /\ job'.kind = job.kind
              /\ job'.done = job.done /\ job'.step \in {"undoMark", "undoClear"}
              /\ journal'[e] # Nil /\ file'[p] = L!Docs(active)[p]
              /\ job'.step = "undoMark" => L!Open(e)'
    PROVE  LInv'
<1>1. /\ e \in L!Entries /\ p \in job.done /\ active # jobs
      /\ \A q \in job.done \ {p} : L!Open(<<jobs, q>>) /\ <<jobs, q>> # e
  BY UndoingFacts
<1>2. /\ job \in L!Command /\ L!Usable /\ jobs \in L!Jobs /\ job.id = jobs
      /\ proc.state = "up" /\ L!TypeOK /\ LocalSizes
  BY Working DEF LInv
<1>3. \A q \in job.done \ {p} : L!Open(<<jobs, q>>)'
  <2> SUFFICES ASSUME NEW q \in job.done \ {p} PROVE L!Open(<<jobs, q>>)'
    OBVIOUS
  <2>1. <<jobs, q>> \in L!Entries
    BY Working
  <2> QED
    BY <1>1, <2>1 DEF L!Open
<1>4. PathInv'
  <2>1. L!Docs(active)' = L!Docs(active)
    BY DEF L!Docs
  <2>2. IF L!Open(<<jobs, p>>)' THEN EntryOK(<<jobs, p>>)' ELSE file'[p] = L!Docs(active)[p]
    BY DEF L!Open, EntryOK
  <2> QED
    BY <1>1, <1>2, <2>1, <2>2, PathStep
<1>5. NewestInv'
  BY <1>1, NewestStep
<1>6. CASE L!UndoNext
  <2>1. /\ job' \in L!Command \union {Nil}
        /\ job' # Nil =>
              /\ job'.id = job.id /\ job'.kind = job.kind /\ job'.done = job.done \ {p}
              /\ job'.step = "undo" /\ job'.done # {}
    <3>1. CASE job.done = {p}
      BY <1>6, <3>1 DEF L!UndoNext
    <3>2. CASE job.done # {p}
      <4>1. PICK rest \in SUBSET L!Paths :
               rest = job.done \ {p} /\ job' = [job EXCEPT !.done = rest, !.step = "undo"]
        BY <1>2, <1>6, <3>2 DEF L!UndoNext, L!Command
      <4>2. /\ job' \in L!Command /\ job'.id = job.id /\ job'.kind = job.kind
            /\ job'.done = rest /\ job'.step = "undo"
        BY <1>2, <4>1 DEF L!Command
      <4> QED
        BY <1>1, <3>2, <4>1, <4>2
    <3> QED
      BY <3>1, <3>2
  <2>2. L!TypeOK'
    BY <1>2, <2>1 DEF L!TypeOK
  <2>3. JobInv'
    <3> SUFFICES ASSUME job' # Nil PROVE JobInv'
      BY DEF JobInv
    <3>1. ForwardOK' /\ WriteOK' /\ BuildOK'
      BY <2>1 DEF ForwardOK, WriteOK, BuildOK, L!Ahead, Changing
    <3>2. \A q \in job'.done : L!Open(<<jobs, q>>)'
      BY <1>3, <2>1
    <3>3. EndOK'
      BY <1>1, <1>2, <2>1, <3>2 DEF EndOK, Landing, Undoing
    <3>4. \A q \in job'.done : journal'[<<jobs', q>>] # Nil
      BY <3>2 DEF L!Open
    <3>5. L!Usable' /\ job'.id = jobs' /\ jobs' # 0 /\ job'.step \in Undoing
      BY <1>2, <2>1 DEF L!Usable, L!Jobs, Undoing
    <3> QED
      BY <3>1, <3>3, <3>4, <3>5 DEF JobInv
  <2> QED
    BY <1>4, <1>5, <2>1, <2>2, <2>3, JobStepInv
<1>7. CASE /\ job' \in L!Command /\ job'.id = job.id /\ job'.kind = job.kind
           /\ job'.done = job.done /\ job'.step \in {"undoMark", "undoClear"}
           /\ journal'[e] # Nil /\ file'[p] = L!Docs(active)[p]
           /\ job'.step = "undoMark" => L!Open(e)'
  <2>1. L!TypeOK'
    BY <1>2, <1>7 DEF L!TypeOK
  <2>2. L!Last' = p /\ L!Docs(active)' = L!Docs(active)
    BY <1>7 DEF L!Last, L!Docs
  <2>3. L!Open(e)' => L!Open(<<jobs, p>>)'
    BY DEF L!Open
  <2>4. JobInv'
    <3>1. ForwardOK' /\ WriteOK' /\ BuildOK'
      BY <1>7 DEF ForwardOK, WriteOK, BuildOK, L!Ahead, Changing
    <3>2. \A q \in job'.done \ {p} : L!Open(<<jobs, q>>)'
      BY <1>3, <1>7
    <3>3. job'.step = "undoMark" => \A q \in job'.done : L!Open(<<jobs, q>>)'
      BY <1>7, <2>3, <3>2
    <3>4. EndOK'
      BY <1>1, <1>2, <1>7, <2>2, <3>2, <3>3 DEF EndOK, Landing, Undoing
    <3>5. \A q \in job'.done : journal'[<<jobs', q>>] # Nil
      BY <1>7, <3>2 DEF L!Open
    <3>6. L!Usable' /\ job'.id = jobs' /\ jobs' # 0 /\ job'.step \in Undoing
      BY <1>2, <1>7 DEF L!Usable, L!Jobs, Undoing
    <3> QED
      BY <3>1, <3>4, <3>5, <3>6 DEF JobInv
  <2> QED
    BY <1>4, <1>5, <1>7, <2>1, <2>4, JobStepInv
<1> QED
  BY <1>6, <1>7
\* The steps of the rollback.
LEMMA UndoingInv == ASSUME LInv, L!Undo \/ L!UndoMark \/ L!UndoClear PROVE LInv'
<1>0. job # Nil /\ job.kind # "drop" /\ job.step \in Undoing
  BY DEF LInv, L!Undo, L!UndoMark, L!UndoClear, L!At, LifeInv, DropSteps, Undoing
<1>1. PICK p \in L!Paths, e \in L!Entries :
         /\ p = L!Last /\ e = L!Mine(p) /\ e = <<jobs, p>> /\ p \in job.done
         /\ active # jobs /\ journal[e] # Nil
         /\ job.step \in {"undo", "undoMark"} => L!Open(e) /\ EntryOK(e)
         /\ job.step \in {"undoMark", "undoClear"} => file[p] = L!Docs(active)[p]
  BY <1>0, UndoingFacts
<1>2. /\ job \in L!Command /\ L!TypeOK /\ LocalSizes
      /\ L!Docs(active) \in [L!Paths -> L!Versions] /\ e[2] = p
  BY <1>0, <1>1, Working, DocsType DEF LInv
<1>3. UNCHANGED <<generations, active, record, jobs, proc, crashes>>
  BY DEF L!Undo, L!UndoMark, L!UndoClear
<1>4. failures' \in 0..MaxFailures
  BY <1>2 DEF L!Undo, L!UndoMark, L!UndoClear, L!Fault, L!TypeOK, LocalSizes
<1>5. CASE L!Undo
  <2>1. journal' = journal /\ journal' \in [L!Entries -> L!Entry \union {Nil}]
        /\ L!Open(e) /\ EntryOK(e)
    BY <1>1, <1>2, <1>5 DEF L!Undo, L!TypeOK, L!At
  <2>2. CASE file' = L!Restored(e) /\ backup' = [backup EXCEPT ![e] = 0] /\ L!Goto("undoMark")
    <3>1. /\ \A q \in L!Paths \ {p} : file'[q] = file[q]
          /\ file'[p] = L!Docs(active)[p]
          /\ file' \in [L!Paths -> L!Versions]
      BY <1>0, <1>1, <1>2, <2>1, <2>2, Working, RestoredFile
    <3>2. /\ backup'[e] = 0 /\ \A d \in L!Entries : d # e => backup'[d] = backup[d]
          /\ backup' \in [L!Entries -> L!Versions]
      BY <1>2, <2>2 DEF L!TypeOK, L!Versions, L!Torn, LocalSizes
    <3>3. /\ job' \in L!Command /\ job'.id = job.id /\ job'.kind = job.kind
          /\ job'.done = job.done /\ job'.step = "undoMark"
      BY <1>2, <2>2 DEF L!Command, L!Goto
    <3>4. L!Open(e)'
      BY <2>1 DEF L!Open
    <3>5. EntryOK(e)'
      <4>1. journal[e].old \/ L!Docs(active)[p] = 0
        BY <1>1, <1>2, <2>1 DEF EntryOK
      <4>2. L!Docs(active)' = L!Docs(active)
        BY <1>3 DEF L!Docs
      <4> QED
        BY <1>1, <1>2, <1>3, <2>1, <3>1, <3>2, <4>1, <4>2 DEF EntryOK
    <3> QED
      BY <1>0, <1>1, <1>3, <1>4, <2>1, <3>1, <3>2, <3>3, <3>4, <3>5, UndoStep
  <2>3. CASE L!UndoNext /\ UNCHANGED <<file, backup>>
    <3>1. L!Open(e)' /\ EntryOK(e)'
      BY <1>3, <2>1, <2>3 DEF EntryOK, L!Open, L!Docs
    <3>2. file' \in [L!Paths -> L!Versions] /\ backup' \in [L!Entries -> L!Versions]
      BY <1>2, <2>3 DEF L!TypeOK
    <3> QED
      BY <1>0, <1>1, <1>3, <1>4, <2>1, <2>3, <3>1, <3>2, UndoStep
  <2> QED
    BY <1>1, <1>5, <2>2, <2>3 DEF L!Undo
<1>6. CASE L!UndoMark
  <2>1. /\ file' = file /\ backup' = backup /\ file' \in [L!Paths -> L!Versions]
        /\ backup' \in [L!Entries -> L!Versions]
        /\ L!Open(e) /\ EntryOK(e) /\ file[p] = L!Docs(active)[p]
    BY <1>1, <1>2, <1>6 DEF L!UndoMark, L!TypeOK, L!At
  <2>2. /\ journal' \in [L!Entries -> L!Entry \union {Nil}] /\ journal'[e] # Nil
        /\ \A d \in L!Entries : d # e => journal'[d] = journal[d]
        /\ IF L!Open(e)' THEN EntryOK(e)' ELSE file'[p] = L!Docs(active)[p]
    <3>1. CASE journal' = [journal EXCEPT ![e].end = "rolled_back"]
      <4>1. journal[e] \in L!Entry
        BY <1>1, <1>2 DEF L!TypeOK
      <4>2. /\ [journal[e] EXCEPT !.end = "rolled_back"] \in L!Entry
            /\ [journal[e] EXCEPT !.end = "rolled_back"].end = "rolled_back"
        BY <4>1 DEF L!Entry
      <4>3. /\ journal'[e] = [journal[e] EXCEPT !.end = "rolled_back"]
            /\ \A d \in L!Entries : d # e => journal'[d] = journal[d]
        BY <1>1, <1>2, <3>1 DEF L!TypeOK
      <4>4. journal' \in [L!Entries -> L!Entry \union {Nil}] /\ journal'[e] # Nil
        BY <1>2, <3>1, <4>2, <4>3 DEF L!TypeOK, LocalSizes
      <4>5. ~L!Open(e)'
        BY <4>2, <4>3 DEF L!Open
      <4> QED
        BY <2>1, <4>3, <4>4, <4>5
    <3>2. CASE journal' = journal
      <4>1. L!Open(e)' /\ EntryOK(e)'
        BY <1>3, <2>1, <3>2 DEF L!Open, EntryOK, L!Docs
      <4> QED
        BY <1>1, <1>2, <3>2, <4>1 DEF L!TypeOK
    <3> QED
      BY <1>1, <1>6, <3>1, <3>2 DEF L!UndoMark
  <2>3. /\ job' \in L!Command /\ job'.id = job.id /\ job'.kind = job.kind
        /\ job'.done = job.done /\ job'.step = "undoClear"
    BY <1>2, <1>6 DEF L!UndoMark, L!Command, L!Goto
  <2> QED
    BY <1>0, <1>1, <1>3, <1>4, <2>1, <2>2, <2>3, UndoStep
<1>7. CASE L!UndoClear
  <2>1. /\ file' = file /\ backup' = backup /\ file' \in [L!Paths -> L!Versions]
        /\ backup' \in [L!Entries -> L!Versions] /\ file[p] = L!Docs(active)[p] /\ L!UndoNext
    BY <1>1, <1>2, <1>7 DEF L!UndoClear, L!TypeOK, L!At
  <2>2. CASE journal' = [journal EXCEPT ![e] = Nil]
    <3>1. /\ \A d \in L!Entries : d # e => journal'[d] = journal[d]
          /\ journal' \in [L!Entries -> L!Entry \union {Nil}] /\ journal'[e] = Nil
      BY <1>2, <2>2 DEF L!TypeOK
    <3>2. ~L!Open(e)'
      BY <3>1 DEF L!Open
    <3> QED
      BY <1>0, <1>1, <1>3, <1>4, <2>1, <3>1, <3>2, UndoStep
  <2>3. CASE journal' = journal
    <3>1. IF L!Open(e)' THEN EntryOK(e)' ELSE file'[p] = L!Docs(active)[p]
      <4>1. CASE L!Open(e)
        <5>1. EntryOK(e)
          BY <1>0, <4>1, Working DEF LInv, PathInv
        <5> QED
          BY <1>3, <2>1, <2>3, <4>1, <5>1 DEF L!Open, EntryOK, L!Docs
      <4>2. CASE ~L!Open(e)
        BY <2>1, <2>3, <4>2 DEF L!Open
      <4> QED
        BY <4>1, <4>2
    <3>2. journal' \in [L!Entries -> L!Entry \union {Nil}]
      BY <1>2, <2>3 DEF L!TypeOK
    <3> QED
      BY <1>0, <1>1, <1>3, <1>4, <2>1, <2>3, <3>1, <3>2, UndoStep
  <2> QED
    BY <1>1, <1>7, <2>2, <2>3 DEF L!UndoClear
<1> QED
  BY <1>5, <1>6, <1>7

-----------------------------------------------------------------------------
\* A job begins when nothing is running and no entry is open.
LEMMA StartInv == ASSUME LInv, L!StartUpload \/ L!StartDelete \/ L!StartRebuild PROVE LInv'
<1>1. /\ L!Admitted /\ job = Nil /\ proc.state = "up"
      /\ UNCHANGED <<file, backup, journal, generations, active, record, proc, crashes, failures>>
  BY DEF L!StartUpload, L!StartDelete, L!StartRebuild, L!Start, L!disk
<1>2. L!TypeOK /\ LocalSizes /\ jobs \in Nat /\ jobs < MaxJobs /\ jobs' = jobs + 1 /\ L!Usable
  BY <1>1 DEF LInv, L!Admitted, L!TypeOK, LocalSizes, L!Usable
<1>3. \A e \in L!Entries : ~L!Open(e)
  BY <1>1 DEF L!Admitted, L!HasEntries
<1>4. PICK kind \in {"upload", "delete_doc", "rebuild"}, paths \in SUBSET L!Paths,
           step \in {"begin", "build"} :
         /\ job' = [id |-> jobs + 1, kind |-> kind, todo |-> paths, done |-> {},
                    step |-> step, ok |-> FALSE]
         /\ IF step = "begin" THEN paths # {} /\ kind # "rebuild" ELSE TRUE
  <2>1. CASE L!StartUpload
    <3>1. PICK paths \in (SUBSET L!Paths) \ {{}} : L!Start("upload", paths, "begin")
      BY <2>1 DEF L!StartUpload
    <3>2. paths \in SUBSET L!Paths /\ paths # {}
      OBVIOUS
    <3> QED
      BY <3>1, <3>2 DEF L!Start
  <2>2. CASE L!StartDelete
    <3>1. PICK p \in L!Paths : L!Start("delete_doc", {p}, "begin")
      BY <2>2 DEF L!StartDelete
    <3>2. {p} \in SUBSET L!Paths /\ {p} # {}
      OBVIOUS
    <3> QED
      BY <3>1, <3>2 DEF L!Start
  <2>3. CASE L!StartRebuild
    <3>1. L!Start("rebuild", {}, "build") /\ {} \in SUBSET L!Paths
      BY <2>3 DEF L!StartRebuild
    <3> QED
      BY <3>1 DEF L!Start
  <2> QED
    BY <2>1, <2>2, <2>3
<1>5. job' \in L!Command /\ job' # Nil
  <2>1. jobs + 1 \in 0..MaxJobs
    BY <1>2 DEF LocalSizes
  <2>2. job' \in L!Command
    BY <1>4, <2>1 DEF L!Command
  <2> QED
    BY <1>2, <2>2 DEF LocalSizes
<1>6. L!TypeOK'
  BY <1>1, <1>2, <1>5 DEF L!TypeOK, LocalSizes
<1>7. NewestInv'
  <2>1. \A e \in L!Entries : ~L!Open(e)'
    BY <1>1, <1>3 DEF L!Open
  <2>2. \A e \in L!Entries : e[1] > jobs' => journal'[e] = Nil /\ backup'[e] = 0
    BY <1>1, <1>2 DEF LInv, NewestInv, L!Entries, L!Jobs
  <2>3. active' <= jobs'
    BY <1>1, <1>2 DEF LInv, NewestInv, L!TypeOK
  <2>4. /\ active' # 0 => generations'[active'].status = "active"
        /\ \A j \in L!Jobs : generations'[j].status = "active" => j = active'
        /\ \A j \in L!Jobs : generations'[j].status = "superseded" => j < active'
    BY <1>1 DEF LInv, NewestInv
  <2> QED
    BY <2>1, <2>2, <2>3, <2>4 DEF NewestInv
<1>8. PathInv'
  <2>1. \A q \in L!Paths : file'[q] = L!Docs(active)'[q]
    BY <1>1, <1>2, <1>3 DEF LInv, PathInv, L!Docs, L!Entries
  <2>2. \A e \in L!Entries : ~L!Open(e)'
    BY <1>1, <1>3 DEF L!Open
  <2> QED
    BY <2>1, <2>2 DEF PathInv
<1>9. LifeInv' /\ ProcInv'
  <2>1. LifeInv'
    BY <1>1, <1>2, <1>4 DEF LInv, LifeInv, Dropping, L!Usable
  <2> QED
    BY <1>1, <2>1, ProcStep
<1>10. JobInv'
  <2>1. active # jobs + 1 /\ jobs + 1 \in L!Jobs
    BY <1>2 DEF LInv, NewestInv, L!TypeOK, L!Jobs, LocalSizes
  <2>2. \A q \in L!Paths : journal'[<<jobs', q>>] = Nil /\ backup'[<<jobs', q>>] = 0
    BY <1>1, <1>2, <2>1 DEF LInv, NewestInv, L!Entries
  <2>3. /\ job'.id = jobs' /\ job'.done = {} /\ job'.step = step /\ job'.todo = paths
        /\ job'.kind = kind /\ step \in L!Ahead /\ jobs' # 0 /\ L!Usable'
    BY <1>1, <1>2, <1>4 DEF L!Ahead, L!Usable
  <2>4. ForwardOK'
    BY <1>1, <1>2, <2>1, <2>2, <2>3 DEF ForwardOK
  <2>5. WriteOK'
    BY <1>4, <2>3 DEF WriteOK, Changing
  <2>6. BuildOK' /\ EndOK'
    BY <2>3 DEF BuildOK, EndOK, Landing, Undoing, L!Ahead
  <2> QED
    BY <2>3, <2>4, <2>5, <2>6 DEF JobInv
<1> QED
  BY <1>2, <1>6, <1>7, <1>8, <1>9, <1>10 DEF LInv, LocalSizes
-----------------------------------------------------------------------------
\* What neither a job nor a deletion in progress needs.
LEMMA Idle ==
    ASSUME LInv, job = Nil \/ job.kind = "drop", job' = Nil \/ job'.kind = "drop"
    PROVE  JobInv'
  BY DEF JobInv

\* The collector takes no generation that anything still reads.
LEMMA CollectInv == ASSUME LInv, L!CollectGeneration PROVE LInv'
<1>1. PICK j \in L!Jobs : /\ generations[j].status = "superseded"
                          /\ generations' = [generations EXCEPT ![j] = [status |-> "none",
                                docs |-> L!NoFiles]]
  BY DEF L!CollectGeneration
<1>2. /\ UNCHANGED <<file, backup, journal, active, record, job, jobs, proc, crashes, failures>>
      /\ proc.state = "up" /\ ~L!Locked
  BY DEF L!CollectGeneration
<1>3. L!TypeOK /\ LocalSizes /\ j # active /\ j \in L!Jobs
  BY <1>1 DEF LInv, NewestInv, L!TypeOK, LocalSizes, L!Jobs
<1>4. /\ generations'[j].status = "none"
      /\ \A i \in L!Jobs : i # j => generations'[i] = generations[i]
      /\ generations' \in [L!Jobs -> L!Generation]
  <2>1. [status |-> "none", docs |-> L!NoFiles] \in L!Generation
    BY <1>3 DEF L!Generation, L!NoFiles, L!Versions, L!Torn, LocalSizes
  <2> QED
    BY <1>1, <1>3, <2>1 DEF L!TypeOK
<1>5. L!TypeOK'
  BY <1>2, <1>3, <1>4 DEF L!TypeOK
<1>6. NewestInv'
  BY <1>2, <1>3, <1>4, NewestStep
<1>7. L!Docs(active)' = L!Docs(active)
  BY <1>2, <1>3, <1>4 DEF L!Docs, L!TypeOK, L!Jobs
<1>8. PathInv'
  BY <1>2, <1>7 DEF LInv, PathInv, L!Usable, L!Open, EntryOK
<1>9. LifeInv'
  <2>1. generations # L!NoGens
    BY <1>1 DEF L!NoGens
  <2> QED
    BY <1>2, <2>1 DEF LInv, LifeInv, Dropping, Blank
<1>10. JobInv'
  <2>1. CASE job = Nil \/ job.kind = "drop"
    BY <1>2, <2>1, Idle
  <2>2. CASE job # Nil /\ job.kind # "drop"
    <3>1. job.step \notin {"record", "switch"}
      BY <1>2, <2>2 DEF L!Locked
    <3>2. ForwardOK' /\ WriteOK' /\ BuildOK'
      BY <1>2, <2>2, <3>1
      DEF LInv, JobInv, ForwardOK, WriteOK, BuildOK, L!Open, L!Reached
    <3>3. EndOK'
      BY <1>2, <1>7, <2>2 DEF LInv, JobInv, EndOK, L!Open, L!Last
    <3> QED
      BY <1>2, <2>2, <3>2, <3>3 DEF LInv, JobInv, L!Usable
  <2> QED
    BY <2>1, <2>2
<1> QED
  BY <1>2, <1>3, <1>5, <1>6, <1>8, <1>9, <1>10, ProcStep DEF LInv, LocalSizes

\* Beginning a deletion next to a job, and taking it back.
LEMMA FenceInv == ASSUME LInv, L!FenceDelete \/ L!UndoFence PROVE LInv'
<1>1. /\ UNCHANGED <<file, backup, journal, generations, active, job, jobs, proc, crashes,
            failures>>
      /\ proc.state = "up" /\ ~L!Locked
  BY DEF L!FenceDelete, L!UndoFence
<1>2. L!TypeOK /\ LocalSizes /\ L!Usable /\ record.registered
  BY DEF LInv, LifeInv, L!FenceDelete, L!UndoFence, L!Usable
<1>3. \E a \in BOOLEAN, l \in {"active", "deleting"} :
         /\ record' = [record EXCEPT !.life = l, !.asked = a]
         /\ a = TRUE <=> l = "deleting"
  BY DEF L!FenceDelete, L!UndoFence
<1>4. L!TypeOK' /\ L!Usable' /\ record'.registered = record.registered
      /\ (record'.asked => record'.life = "deleting")
  BY <1>1, <1>2, <1>3 DEF L!TypeOK, L!Usable
<1>5. NewestInv'
  BY <1>1, NewestStep
<1>6. PathInv'
  BY <1>1, <1>2 DEF LInv, PathInv, L!Open, EntryOK, L!Docs
<1>7. job # Nil => job.kind # "drop"
  BY <1>1 DEF L!Locked
<1>8. LifeInv'
  BY <1>1, <1>2, <1>4, <1>7 DEF LInv, LifeInv, Dropping
<1>9. JobInv'
  <2>1. ForwardOK' = ForwardOK /\ WriteOK' = WriteOK /\ BuildOK' = BuildOK /\ EndOK' = EndOK
    BY <1>1 DEF ForwardOK, WriteOK, BuildOK, EndOK, L!Open, L!Reached, L!Last, L!Docs
  <2> QED
    BY <1>1, <1>4, <2>1 DEF LInv, JobInv
<1> QED
  BY <1>1, <1>2, <1>4, <1>5, <1>6, <1>8, <1>9, ProcStep DEF LInv, LocalSizes

-----------------------------------------------------------------------------
(* The deletion of the knowledge base. *)

\* The deletion of the knowledge base starts.
LEMMA StartDropInv == ASSUME LInv, L!StartDrop PROVE LInv'
<1>1. /\ UNCHANGED <<file, backup, journal, generations, active, jobs, proc, crashes, failures>>
      /\ record.registered /\ record.life # "active" /\ proc.state = "up" /\ job = Nil
      /\ record' = [record EXCEPT !.asked = FALSE]
      /\ job' = [id |-> 0, kind |-> "drop", todo |-> {}, done |-> {}, step |-> "fence",
                 ok |-> FALSE]
  BY DEF L!StartDrop, L!Start
<1>2. L!TypeOK /\ LocalSizes
  BY DEF LInv
<1>3. job' \in L!Command /\ job' # Nil
  <2>1. 0 \in 0..MaxJobs
    BY <1>2 DEF LocalSizes
  <2>2. job' \in L!Command
    BY <1>1, <2>1 DEF L!Command
  <2> QED
    BY <1>2, <2>2 DEF LocalSizes
<1>4. L!TypeOK' /\ record'.registered /\ record'.life = record.life /\ ~record'.asked
  BY <1>1, <1>2, <1>3 DEF L!TypeOK
<1>5. ~L!Usable'
  BY <1>1, <1>4 DEF L!Usable
<1>6. NewestInv'
  BY <1>1, NewestStep
<1>7. PathInv' /\ JobInv'
  BY <1>1, <1>5 DEF PathInv, JobInv
<1>8. LifeInv'
  BY <1>1, <1>4 DEF LifeInv, Dropping, DropSteps
<1> QED
  BY <1>1, <1>2, <1>4, <1>6, <1>7, <1>8, ProcStep DEF LInv, LocalSizes

\* While the deletion runs on the executor nothing is live.
LEMMA DropFacts ==
    ASSUME LInv, \E step \in DropSteps : L!At(step)
    PROVE  /\ job \in L!Command /\ job # Nil /\ job.kind = "drop"
           /\ proc.state = "up" /\ record.registered /\ record.life # "active" /\ ~record.asked
           /\ ~L!Usable /\ L!TypeOK /\ LocalSizes
<1>1. job # Nil /\ job.step \in DropSteps /\ proc.state = "up"
  BY DEF L!At
<1>2. job.kind = "drop"
  BY <1>1 DEF LInv, JobInv, DropSteps, L!Ahead, Landing, Undoing
<1> QED
  BY <1>1, <1>2 DEF LInv, LifeInv, L!Usable, L!TypeOK

\* A step of the deletion.
LEMMA DropStepInv ==
    ASSUME LInv, \E step \in DropSteps : L!At(step), UNCHANGED <<jobs, proc, crashes, failures>>,
           job' = Nil \/ \E step \in DropSteps : L!Goto(step),
           \E life \in {"deleting", "deleted"}, r \in BOOLEAN :
              record' = [record EXCEPT !.life = life, !.registered = r] /\ (job' # Nil => r = TRUE),
           file' \in [L!Paths -> L!Versions], backup' \in [L!Entries -> L!Versions],
           journal' \in [L!Entries -> L!Entry \union {Nil}],
           generations' \in [L!Jobs -> L!Generation], active' \in 0..MaxJobs,
           NewestInv',
           Dropping("erase")' => \A e \in L!Entries : journal'[e] = Nil,
           Dropping("deregister")' \/ ~record'.registered => Blank'
    PROVE  LInv'
<1>1. /\ job \in L!Command /\ job # Nil /\ job.kind = "drop"
      /\ proc.state = "up" /\ record.registered /\ record.life # "active" /\ ~record.asked
      /\ L!TypeOK /\ LocalSizes
  BY DropFacts
<1>2. /\ record'.life # "active" /\ ~record'.asked /\ (job' # Nil => record'.registered)
      /\ record' \in [life : {"active", "deleting", "deleted"}, registered : BOOLEAN,
                      lives : 0..MaxLives, asked : BOOLEAN]
  BY <1>1 DEF L!TypeOK
<1>3. /\ job' \in L!Command \union {Nil}
      /\ job' # Nil => job'.kind = "drop" /\ job'.step \in DropSteps
  BY <1>1 DEF L!Goto, L!Command, DropSteps
<1>4. L!TypeOK'
  BY <1>1, <1>2, <1>3 DEF L!TypeOK
<1>5. PathInv' /\ JobInv'
  BY <1>2, <1>3 DEF PathInv, JobInv, L!Usable
<1>6. LifeInv'
  BY <1>1, <1>2, <1>3 DEF LifeInv
<1> QED
  BY <1>1, <1>4, <1>5, <1>6, ProcStep DEF LInv, LocalSizes
\* The steps of the deletion keep LInv.
LEMMA DropInv == ASSUME LInv, L!DropKb PROVE LInv'
<1>1. \E step \in DropSteps : L!At(step)
  BY DEF L!DropKb, L!DropFence, L!DropTombstone, L!DropEntry, L!DropDirectory, L!DropRecord,
     L!DropStep, DropSteps
<1>2. /\ job \in L!Command /\ job # Nil /\ job.kind = "drop"
      /\ proc.state = "up" /\ record.registered /\ record.life # "active" /\ ~record.asked
      /\ L!TypeOK /\ LocalSizes
  BY <1>1, DropFacts
<1>3. record \in [life : {"active", "deleting", "deleted"}, registered : BOOLEAN,
                  lives : 0..MaxLives, asked : BOOLEAN]
  BY <1>2 DEF L!TypeOK
<1>4. /\ file \in [L!Paths -> L!Versions] /\ backup \in [L!Entries -> L!Versions]
      /\ journal \in [L!Entries -> L!Entry \union {Nil}]
      /\ generations \in [L!Jobs -> L!Generation] /\ active \in 0..MaxJobs
  BY <1>2 DEF L!TypeOK
<1>5. record.life \in {"deleting", "deleted"} /\ record.registered = TRUE
      /\ record = [record EXCEPT !.life = record.life, !.registered = TRUE]
  BY <1>2, <1>3
<1>6. CASE L!DropFence \/ L!DropTombstone
  <2>1. /\ UNCHANGED <<file, backup, journal, generations, active, jobs, proc, crashes, failures>>
        /\ L!Goto("tombstone") \/ L!Goto("forget")
        /\ \E life \in {"deleting", "deleted"} : record' = [record EXCEPT !.life = life]
    BY <1>6 DEF L!DropFence, L!DropTombstone, L!DropStep
  <2>2. PICK life \in {"deleting", "deleted"} : record' = [record EXCEPT !.life = life]
    BY <2>1
  <2>3. record' = [record EXCEPT !.life = life, !.registered = TRUE] /\ record'.registered
    BY <1>3, <1>5, <2>2
  <2>4. NewestInv'
    BY <2>1, NewestStep
  <2>5. job'.step \in {"tombstone", "forget"}
    BY <1>2, <2>1 DEF L!Goto, L!Command
  <2>6. ~Dropping("erase")' /\ ~Dropping("deregister")'
    BY <2>5 DEF Dropping
  <2>7. \E step \in DropSteps : L!Goto(step)
    BY <2>1 DEF DropSteps
  <2> QED
    BY <1>1, <1>4, <2>1, <2>3, <2>4, <2>6, <2>7, DropStepInv
<1>7. CASE L!DropEntry
  <2>1. UNCHANGED <<file, backup, generations, active, record, jobs, proc, crashes, failures>>
        /\ job.step = "forget"
    BY <1>7 DEF L!DropEntry, L!At
  <2>2. /\ journal' \in [L!Entries -> L!Entry \union {Nil}]
        /\ \A e \in L!Entries : journal'[e] \in {Nil, journal[e]}
        /\ \/ L!Goto("erase") /\ \A e \in L!Entries : journal'[e] = Nil
           \/ job' = job
    BY <1>4, <1>7 DEF L!DropEntry
  <2>3. NewestInv'
    BY <2>1, <2>2 DEF LInv, NewestInv, L!Open
  <2>4. CASE L!Goto("erase") /\ \A e \in L!Entries : journal'[e] = Nil
    <3>1. job'.step = "erase"
      BY <1>2, <2>4 DEF L!Goto, L!Command
    <3> QED
      BY <1>1, <1>2, <1>4, <1>5, <2>1, <2>2, <2>3, <2>4, <3>1, DropStepInv DEF Dropping,
         DropSteps
  <2>5. CASE job' = job
    <3>1. L!Goto("forget")
      BY <1>2, <2>1, <2>5 DEF L!Goto, L!Command
    <3>2. ~Dropping("erase")' /\ ~Dropping("deregister")'
      BY <2>1, <2>5 DEF Dropping
    <3> QED
      BY <1>1, <1>2, <1>4, <1>5, <2>1, <2>2, <2>3, <3>1, <3>2, DropStepInv DEF DropSteps
  <2> QED
    BY <2>2, <2>4, <2>5
<1>8. CASE L!DropDirectory
  <2>1. /\ UNCHANGED <<journal, record, jobs, proc, crashes, failures>>
        /\ L!Goto("deregister") /\ job.step = "erase"
        /\ file' = L!NoFiles /\ backup' = [e \in L!Entries |-> 0]
        /\ generations' = L!NoGens /\ active' = 0
    BY <1>8 DEF L!DropDirectory, L!DropStep, L!At
  <2>2. \A e \in L!Entries : journal[e] = Nil
    BY <1>2, <2>1 DEF LInv, LifeInv, Dropping
  <2>3. journal = [e \in L!Entries |-> Nil]
    BY <1>4, <2>2
  <2>4. Blank'
    BY <2>1, <2>3 DEF Blank
  <2>5. /\ file' \in [L!Paths -> L!Versions] /\ backup' \in [L!Entries -> L!Versions]
        /\ generations' \in [L!Jobs -> L!Generation] /\ active' \in 0..MaxJobs
    BY <1>2, <2>1 DEF L!NoFiles, L!NoGens, L!Generation, L!Versions, L!Torn, LocalSizes
  <2>6. NewestInv'
    BY <1>2, <2>1, <2>2 DEF NewestInv, L!Open, L!NoGens, LocalSizes, L!TypeOK
  <2>7. job'.step = "deregister"
    BY <1>2, <2>1 DEF L!Goto, L!Command
  <2> QED
    BY <1>1, <1>2, <1>4, <1>5, <2>1, <2>4, <2>5, <2>6, <2>7, DropStepInv DEF Dropping,
       DropSteps
<1>9. CASE L!DropRecord
  <2>1. /\ UNCHANGED <<file, backup, journal, generations, active, jobs, proc, crashes, failures>>
        /\ job' = Nil /\ record' = [record EXCEPT !.registered = FALSE] /\ job.step = "deregister"
    BY <1>9 DEF L!DropRecord, L!At
  <2>2. Blank
    BY <1>2, <2>1 DEF LInv, LifeInv, Dropping
  <2>3. Blank' /\ NewestInv'
    BY <2>1, <2>2, NewestStep DEF Blank
  <2>4. record' = [record EXCEPT !.life = record.life, !.registered = FALSE]
    BY <1>3, <2>1
  <2> QED
    BY <1>1, <1>4, <1>5, <2>1, <2>3, <2>4, DropStepInv DEF Dropping
<1> QED
  BY <1>6, <1>7, <1>8, <1>9 DEF L!DropKb

\* The next incarnation finds nothing of the one before.
LEMMA CreateInv == ASSUME LInv, L!Create PROVE LInv'
<1>1. /\ UNCHANGED <<file, backup, journal, generations, active, job, jobs, proc, crashes,
            failures>>
      /\ proc.state = "up" /\ ~record.registered /\ record.lives < MaxLives
      /\ record' = [record EXCEPT !.life = "active", !.registered = TRUE,
            !.lives = record.lives + 1]
  BY DEF L!Create
<1>2. L!TypeOK /\ LocalSizes /\ Blank /\ job = Nil /\ ~record.asked
  BY <1>1 DEF LInv, LifeInv
<1>3. /\ record'.life = "active" /\ record'.registered /\ record'.asked = record.asked
      /\ record' \in [life : {"active", "deleting", "deleted"}, registered : BOOLEAN,
                      lives : 0..MaxLives, asked : BOOLEAN]
  <2>1. record.lives + 1 \in 0..MaxLives
    BY <1>1, <1>2 DEF L!TypeOK, LocalSizes
  <2> QED
    BY <1>1, <1>2, <2>1 DEF L!TypeOK
<1>4. L!TypeOK'
  BY <1>1, <1>2, <1>3 DEF L!TypeOK
<1>5. NewestInv'
  BY <1>1, NewestStep
<1>6. PathInv'
  BY <1>1, <1>2 DEF PathInv, Blank, L!Open, L!Docs
<1>7. LifeInv'
  BY <1>1, <1>2, <1>3 DEF LifeInv, Dropping
<1>8. JobInv'
  BY <1>1, <1>2 DEF JobInv
<1> QED
  BY <1>1, <1>2, <1>4, <1>5, <1>6, <1>7, <1>8, ProcStep DEF LInv, LocalSizes
-----------------------------------------------------------------------------
(* Crash and recovery. *)

\* A crash leaves what recovery needs.
LEMMA CrashInv == ASSUME LInv, L!Crash PROVE LInv'
<1>1. /\ UNCHANGED <<backup, journal, generations, active, jobs, failures>>
      /\ proc' = L!Process("down", {}) /\ job' = Nil /\ crashes < MaxCrashes
      /\ crashes' = crashes + 1 /\ record' = [record EXCEPT !.asked = FALSE]
      /\ file' \in IF L!At("write") THEN {file, [file EXCEPT ![L!Reached] = L!Torn]} ELSE {file}
  BY DEF L!Crash
<1>2. L!TypeOK /\ LocalSizes
  BY DEF LInv
<1>3. /\ record'.life = record.life /\ record'.registered = record.registered /\ ~record'.asked
      /\ record' \in [life : {"active", "deleting", "deleted"}, registered : BOOLEAN,
                      lives : 0..MaxLives, asked : BOOLEAN]
  BY <1>1, <1>2 DEF L!TypeOK
<1>4. proc' \in [state : {"down", "recovering", "up"}, todo : SUBSET L!Entries,
                 bad : BOOLEAN, at : L!Entries \union {Nil},
                 step : {"file", "write", "remove"},
                 end : {"open", "committed", "rolled_back"}]
      /\ proc'.state = "down" /\ proc'.at = Nil /\ proc'.todo = {}
  BY <1>1 DEF L!Process
<1>5. file' \in [L!Paths -> L!Versions] /\ crashes' \in 0..MaxCrashes
  BY <1>1, <1>2 DEF L!TypeOK, L!Versions, L!Torn, LocalSizes
<1>6. L!TypeOK'
  BY <1>1, <1>2, <1>3, <1>4, <1>5 DEF L!TypeOK
<1>7. NewestInv'
  BY <1>1, NewestStep
<1>8. PathInv'
  <2> SUFFICES ASSUME L!Usable' PROVE PathInv'
    BY DEF PathInv
  <2>1. L!Usable
    BY <1>3 DEF L!Usable
  <2>2. CASE file' = file
    BY <1>1, <2>1, <2>2 DEF LInv, PathInv, L!Open, EntryOK, L!Docs
  <2>3. CASE L!At("write") /\ file' = [file EXCEPT ![L!Reached] = L!Torn]
    <3>0. job # Nil /\ job.kind # "drop" /\ job.step = "write"
      BY <2>3 DEF LInv, L!At, LifeInv, DropSteps
    <3>1. PICK p \in L!Paths, e \in L!Entries :
             p = L!Reached /\ e = L!Mine(p) /\ e = <<jobs, p>> /\ p \in job.todo /\ p \in job.done
      BY <3>0, AtReached DEF Changing
    <3>2. /\ active # jobs /\ L!Open(e) /\ (journal[e].old => backup[e] # 0) /\ EntryOK(e)
      BY <3>0, <3>1, <2>1, Working
      DEF LInv, JobInv, ForwardOK, WriteOK, PathInv, L!Ahead, Changing
    <3>3. \A q \in L!Paths \ {p} : file'[q] = file[q]
      BY <1>2, <2>3, <3>1 DEF L!TypeOK
    <3>4. L!Open(e)' /\ EntryOK(e)'
      BY <1>1, <3>1, <3>2 DEF EntryOK, L!Docs, L!Open
    <3> QED
      BY <1>1, <2>1, <3>1, <3>3, <3>4, PathStep DEF L!Docs
  <2> QED
    BY <1>1, <2>2, <2>3
<1>9. LifeInv'
  <2>1. CASE record.registered
    BY <1>1, <1>3, <2>1 DEF LifeInv, Dropping
  <2>2. CASE ~record.registered
    <3>1. job = Nil /\ Blank
      BY <2>2 DEF LInv, LifeInv
    <3>2. file' = file
      BY <1>1, <3>1 DEF L!At
    <3> QED
      BY <1>1, <1>3, <3>1, <3>2 DEF LifeInv, Dropping, Blank
  <2> QED
    BY <2>1, <2>2
<1>10. JobInv' /\ ProcInv'
  BY <1>1, <1>4 DEF JobInv, ProcInv
<1> QED
  BY <1>2, <1>6, <1>7, <1>8, <1>9, <1>10 DEF LInv, LocalSizes

\* Without a process there is no job and no request.
LEMMA NotUp ==
    ASSUME LInv, proc.state # "up"
    PROVE  /\ job = Nil /\ ~record.asked /\ L!TypeOK /\ LocalSizes
           /\ proc.at # Nil =>
                 proc.state = "recovering" /\ record.registered /\ journal[proc.at] # Nil
                 /\ proc.at \in L!Entries
<1>1. job = Nil /\ ~record.asked /\ L!TypeOK /\ LocalSizes
  BY DEF LInv, LifeInv
<1>2. ASSUME proc.at # Nil
      PROVE  /\ proc.state = "recovering" /\ journal[proc.at] # Nil /\ proc.at \in L!Entries
             /\ record.registered
  <2>1. proc.state = "recovering" /\ journal[proc.at] # Nil
    BY <1>2 DEF LInv, ProcInv
  <2>2. proc.at \in L!Entries
    BY <1>1, <1>2 DEF L!TypeOK
  <2>3. journal # [e \in L!Entries |-> Nil]
    BY <2>1, <2>2
  <2> QED
    BY <2>1, <2>2, <2>3 DEF LInv, LifeInv, Blank
<1> QED
  BY <1>1, <1>2

\* Steps of the start that leave the disk alone.
LEMMA StartupInv ==
    ASSUME LInv, L!Restart \/ L!RecoverNext \/ L!RecoverDone \/ L!Started
    PROVE  LInv'
<1>1. UNCHANGED <<L!disk, job, jobs, crashes, failures>> /\ proc.state # "up"
  BY DEF L!Restart, L!RecoverNext, L!RecoverDone, L!Started, L!Recovering
<1>2. UNCHANGED <<file, backup, journal, generations, active, record>>
  BY <1>1 DEF L!disk
<1>3. /\ job = Nil /\ ~record.asked /\ L!TypeOK /\ LocalSizes
      /\ proc.at # Nil => proc.at \in L!Entries
  BY <1>1, NotUp
<1>4. NewestInv'
  BY <1>1, <1>2, NewestStep
<1>5. PathInv'
  BY <1>1, <1>2 DEF LInv, PathInv, L!Usable, L!Open, EntryOK, L!Docs
<1>6. LifeInv'
  BY <1>1, <1>2, <1>3 DEF LInv, LifeInv, Dropping, Blank
<1>7. JobInv'
  BY <1>1, <1>3 DEF JobInv
<1> DEFINE Proc == [state : {"down", "recovering", "up"}, todo : SUBSET L!Entries,
                    bad : BOOLEAN, at : L!Entries \union {Nil},
                    step : {"file", "write", "remove"},
                    end : {"open", "committed", "rolled_back"}]
<1>8. proc \in Proc
  BY <1>3 DEF L!TypeOK
<1>9. proc' \in Proc /\ ProcInv'
  <2>1. CASE L!Restart
    <3>1. PICK todo \in SUBSET L!Entries :
             todo = {e \in L!Entries : journal[e] # Nil} /\ proc' = L!Process("recovering", todo)
      BY <2>1 DEF L!Restart
    <3> QED
      BY <1>2, <3>1 DEF L!Process, ProcInv
  <2>2. CASE L!RecoverNext
    <3>1. PICK e \in proc.todo, rest \in SUBSET L!Entries :
             /\ rest = proc.todo \ {e}
             /\ proc' = [proc EXCEPT !.at = e, !.todo = rest, !.step = "file"]
      <4>1. PICK e \in proc.todo :
               proc' = [proc EXCEPT !.at = e, !.todo = proc.todo \ {e}, !.step = "file"]
        BY <2>2 DEF L!RecoverNext
      <4>2. proc.todo \ {e} \in SUBSET L!Entries
        BY <1>8
      <4> QED
        BY <4>1, <4>2
    <3>2. /\ proc' \in Proc /\ proc'.at = e /\ proc'.todo = rest /\ proc'.step = "file"
          /\ proc'.state = proc.state /\ proc.state = "recovering"
      BY <1>8, <2>2, <3>1 DEF L!RecoverNext
    <3> QED
      BY <1>2, <3>1, <3>2 DEF LInv, ProcInv
  <2>3. CASE L!RecoverDone
    <3>1. PICK e \in L!Entries : e = proc.at /\ journal[e].end = "rolled_back" /\ proc.at # Nil
      BY <1>3, <2>3 DEF L!RecoverDone, L!Recovering
    <3>2. ~L!Open(e)
      BY <3>1 DEF L!Open
    <3>3. proc' = [proc EXCEPT !.step = "remove", !.end = "rolled_back"]
      BY <2>3, <3>1, <3>2 DEF L!RecoverDone, L!Settle
    <3>4. /\ proc' \in Proc /\ proc'.at = e /\ proc'.todo = proc.todo /\ proc'.step = "remove"
          /\ proc'.state = proc.state
      BY <1>8, <3>1, <3>3
    <3> QED
      BY <1>2, <3>1, <3>2, <3>4 DEF LInv, ProcInv, L!Open
  <2>4. CASE L!Started
    BY <2>4 DEF L!Started, L!Process, ProcInv
  <2> QED
    BY <2>1, <2>2, <2>3, <2>4
<1>10. L!TypeOK'
  BY <1>1, <1>2, <1>3, <1>9 DEF L!TypeOK
<1> QED
  BY <1>3, <1>4, <1>5, <1>6, <1>7, <1>9, <1>10 DEF LInv, LocalSizes
\* In recovery an entry that is open and counts as committed is of the active
\* generation, unless the knowledge base is going away.
LEMMA CommittedIsActive ==
    ASSUME LInv, L!Usable, NEW e \in L!Entries, proc.state # "up", L!Open(e)
    PROVE  L!Committed(e) <=> active = jobs
<1>1. L!TypeOK /\ LocalSizes /\ ~record.asked /\ record.life = "active"
  BY NotUp DEF L!Usable
<1>2. e[1] = jobs /\ jobs \in L!Jobs /\ EntryOK(e)
  BY DEF LInv, NewestInv, PathInv, L!Entries
<1>3. journal[e].end # "committed"
  BY DEF L!Open
<1>4. ASSUME L!Committed(e) PROVE active = jobs
  <2>1. generations[jobs].status \in {"active", "superseded"}
    BY <1>1, <1>2, <1>3, <1>4 DEF L!Committed
  <2>2. jobs = active \/ jobs < active
    BY <1>2, <2>1 DEF LInv, NewestInv
  <2> QED
    BY <1>1, <1>2, <2>2 DEF LInv, NewestInv, L!TypeOK, L!Jobs, LocalSizes
<1>5. ASSUME active = jobs PROVE L!Committed(e)
  <2>1. journal[e].gen /\ active # 0
    BY <1>1, <1>2, <1>5 DEF EntryOK, L!Jobs, LocalSizes
  <2>2. generations[jobs].status = "active"
    BY <1>5, <2>1 DEF LInv, NewestInv
  <2> QED
    BY <1>2, <2>1, <2>2 DEF L!Committed
<1> QED
  BY <1>4, <1>5

\* What remains to be shown of a step of the recovery.
LEMMA RecoverStep ==
    ASSUME LInv, proc.state # "up", proc.at # Nil, NEW e, e = proc.at,
           UNCHANGED <<generations, active, record, job, jobs, crashes>>,
              failures' \in 0..MaxFailures,
           file' \in [L!Paths -> L!Versions], backup' \in [L!Entries -> L!Versions],
           journal' \in [L!Entries -> L!Entry \union {Nil}],
           \A d \in L!Entries : d # e => journal'[d] = journal[d] /\ backup'[d] = backup[d],
           backup'[e] \in {0, backup[e]},
           L!Open(e)' => L!Open(e),
           PathInv',
           \/ \E bad \in BOOLEAN : proc' = [proc EXCEPT !.at = Nil, !.bad = bad]
           \/ \E step \in {"write", "remove"}, end \in {"committed", "rolled_back"} :
                 /\ proc' = [proc EXCEPT !.step = step, !.end = end]
                 /\ journal'[e] # Nil
                 /\ step = "write" <=> L!Open(e)'
                 /\ step = "write" /\ L!Usable => file'[e[2]] = L!Docs(active)[e[2]]
    PROVE  LInv'
<1>1. /\ job = Nil /\ ~record.asked /\ L!TypeOK /\ LocalSizes /\ proc.state = "recovering"
      /\ record.registered /\ e \in L!Entries /\ journal[e] # Nil
  BY NotUp
<1>2. NewestInv'
  <2>1. \A d \in L!Entries : L!Open(d)' => L!Open(d)
    BY DEF L!Open
  <2>2. \A d \in L!Entries : d[1] > jobs => journal'[d] = Nil /\ backup'[d] = 0
    <3> SUFFICES ASSUME NEW d \in L!Entries, d[1] > jobs
                 PROVE  journal'[d] = Nil /\ backup'[d] = 0
      OBVIOUS
    <3>1. journal[d] = Nil /\ backup[d] = 0
      BY DEF LInv, NewestInv
    <3>2. d # e
      BY <1>1, <3>1
    <3> QED
      BY <3>1, <3>2
  <2>3. active <= jobs /\ (active # 0 => generations[active].status = "active")
    BY DEF LInv, NewestInv
  <2>4. \A j \in L!Jobs : generations[j].status = "active" => j = active
    BY DEF LInv, NewestInv
  <2>5. \A j \in L!Jobs : generations[j].status = "superseded" => j < active
    BY DEF LInv, NewestInv
  <2>6. \A d \in L!Entries : L!Open(d)' => d[1] = jobs
    BY <2>1 DEF LInv, NewestInv
  <2>7. generations' = generations /\ active' = active /\ jobs' = jobs
    OBVIOUS
  <2>8. (\A d \in L!Entries : L!Open(d) => d[1] = jobs)'
    BY <2>6, <2>7
  <2>9. (\A d \in L!Entries : d[1] > jobs => journal[d] = Nil /\ backup[d] = 0)'
    BY <2>2, <2>7
  <2>10. (active <= jobs /\ (active # 0 => generations[active].status = "active"))'
    BY <2>3, <2>7
  <2>11. (\A j \in L!Jobs : generations[j].status = "active" => j = active)'
    BY <2>4, <2>7
  <2>12. (\A j \in L!Jobs : generations[j].status = "superseded" => j < active)'
    BY <2>5, <2>7
  <2> QED
    BY <2>8, <2>9, <2>10, <2>11, <2>12 DEF NewestInv
<1>3. LifeInv' /\ JobInv'
  BY <1>1 DEF LifeInv, JobInv, Dropping
<1> DEFINE Proc == [state : {"down", "recovering", "up"}, todo : SUBSET L!Entries,
                    bad : BOOLEAN, at : L!Entries \union {Nil},
                    step : {"file", "write", "remove"},
                    end : {"open", "committed", "rolled_back"}]
<1>4. proc \in Proc
  BY <1>1 DEF L!TypeOK
<1>5. e \notin proc.todo /\ \A d \in proc.todo : journal'[d] # Nil
  <2>1. e \notin proc.todo
    BY DEF LInv, ProcInv
  <2>2. \A d \in proc.todo : journal[d] # Nil /\ d \in L!Entries
    BY <1>4 DEF LInv, ProcInv
  <2> QED
    BY <2>1, <2>2
<1>6. CASE \E bad \in BOOLEAN : proc' = [proc EXCEPT !.at = Nil, !.bad = bad]
  <2>1. PICK bad \in BOOLEAN : proc' = [proc EXCEPT !.at = Nil, !.bad = bad]
    BY <1>6
  <2>2. proc' \in Proc /\ proc'.at = Nil /\ proc'.todo = proc.todo /\ proc'.state = proc.state
    BY <1>4, <2>1
  <2>3. L!TypeOK'
    BY <1>1, <2>2 DEF L!TypeOK
  <2>4. ProcInv'
    BY <1>1, <1>5, <2>2 DEF ProcInv
  <2> QED
    BY <1>1, <1>2, <1>3, <2>3, <2>4 DEF LInv, LocalSizes
<1>7. CASE \E step \in {"write", "remove"}, end \in {"committed", "rolled_back"} :
                 /\ proc' = [proc EXCEPT !.step = step, !.end = end]
                 /\ journal'[e] # Nil
                 /\ step = "write" <=> L!Open(e)'
                 /\ step = "write" /\ L!Usable => file'[e[2]] = L!Docs(active)[e[2]]
  <2>1. PICK step \in {"write", "remove"}, end \in {"committed", "rolled_back"} :
                 /\ proc' = [proc EXCEPT !.step = step, !.end = end]
                 /\ journal'[e] # Nil
                 /\ step = "write" <=> L!Open(e)'
                 /\ step = "write" /\ L!Usable => file'[e[2]] = L!Docs(active)[e[2]]
    BY <1>7
  <2>2. /\ proc' \in Proc /\ proc'.at = e /\ proc'.todo = proc.todo /\ proc'.state = proc.state
        /\ proc'.step = step /\ proc'.end = end
    BY <1>4, <2>1
  <2>3. L!TypeOK'
    BY <1>1, <2>2 DEF L!TypeOK
  <2>4. L!Docs(active)' = L!Docs(active) /\ L!Usable' = L!Usable
    BY DEF L!Docs, L!Usable
  <2>5. ProcInv'
    <3>1. /\ journal'[e] # Nil /\ proc'.end # "open"
          /\ proc'.step = "write" <=> journal'[e].end = "open"
      BY <2>1, <2>2 DEF L!Open
    <3>2. proc'.step = "write" /\ L!Usable' => file'[e[2]] = L!Docs(active)'[e[2]]
      BY <2>1, <2>2, <2>4
    <3>3. proc'.state = "recovering" /\ \A d \in proc'.todo : journal'[d] # Nil
      BY <1>1, <1>5, <2>2
    <3>4. e \notin proc'.todo /\ (proc'.step = "remove" => proc'.step # "write")
      BY <1>5, <2>2
    <3> QED
      BY <2>2, <3>1, <3>2, <3>3, <3>4 DEF ProcInv, L!Open
  <2> QED
    BY <1>1, <1>2, <1>3, <2>3, <2>5 DEF LInv, LocalSizes
<1> QED
  BY <1>6, <1>7

\* The steps of recover_all.
LEMMA ForwardInv == ASSUME LInv, L!RecoverForward PROVE LInv'
<1>1. PICK e \in L!Entries : /\ e = proc.at /\ proc.at # Nil /\ proc.state = "recovering"
                             /\ L!Committed(e) /\ L!Settle(e, "committed")
                             /\ \/ backup' = [backup EXCEPT ![e] = 0] /\ UNCHANGED failures
                                \/ L!Fault /\ UNCHANGED backup
  BY NotUp DEF L!RecoverForward, L!Recovering
<1>2. UNCHANGED <<file, journal, generations, active, record, job, jobs, crashes>>
  BY DEF L!RecoverForward
<1>3. L!TypeOK /\ LocalSizes /\ journal[e] # Nil
  BY <1>1, NotUp
<1>4. /\ backup' \in [L!Entries -> L!Versions] /\ backup'[e] \in {0, backup[e]}
      /\ \A d \in L!Entries : d # e => backup'[d] = backup[d]
      /\ failures' \in 0..MaxFailures
  BY <1>1, <1>3 DEF L!TypeOK, L!Versions, L!Torn, LocalSizes, L!Fault
<1>5. L!Usable /\ L!Open(e) => active = jobs /\ EntryOK(e)
  BY <1>1, CommittedIsActive DEF LInv, PathInv
<1>6. PathInv'
  <2> SUFFICES ASSUME L!Usable PROVE PathInv'
    BY <1>2 DEF PathInv, L!Usable
  <2>1. \A d \in L!Entries : L!Open(d)' => EntryOK(d)'
    <3> SUFFICES ASSUME NEW d \in L!Entries, L!Open(d) PROVE EntryOK(d)'
      BY <1>2 DEF L!Open
    <3>1. EntryOK(d)
      BY DEF LInv, PathInv
    <3>2. CASE d = e
      BY <1>2, <1>5, <3>1, <3>2 DEF EntryOK, L!Docs
    <3>3. CASE d # e
      BY <1>2, <1>4, <3>1, <3>3 DEF EntryOK, L!Docs
    <3> QED
      BY <3>2, <3>3
  <2>2. \A q \in L!Paths : (\A j \in L!Jobs : ~L!Open(<<j, q>>)') => file'[q] = L!Docs(active)'[q]
    BY <1>2 DEF LInv, PathInv, L!Open, L!Docs
  <2> QED
    BY <2>1, <2>2 DEF PathInv
<1>7. CASE L!Open(e)
  <2>1. proc' = [proc EXCEPT !.step = "write", !.end = "committed"]
    BY <1>1, <1>7 DEF L!Settle
  <2>2. L!Open(e)' /\ (L!Usable => file'[e[2]] = L!Docs(active)[e[2]])
    BY <1>2, <1>5, <1>7 DEF L!Open, EntryOK
  <2> QED
    BY <1>1, <1>2, <1>3, <1>4, <1>6, <1>7, <2>1, <2>2, RecoverStep DEF L!TypeOK
<1>8. CASE ~L!Open(e)
  <2>1. proc' = [proc EXCEPT !.step = "remove", !.end = "committed"]
    BY <1>1, <1>8 DEF L!Settle
  <2>2. ~L!Open(e)'
    BY <1>2, <1>8 DEF L!Open
  <2> QED
    BY <1>1, <1>2, <1>3, <1>4, <1>6, <1>8, <2>1, <2>2, RecoverStep DEF L!TypeOK
<1> QED
  BY <1>7, <1>8

LEMMA BackInv == ASSUME LInv, L!RecoverBack PROVE LInv'
<1>1. PICK e \in L!Entries : /\ e = proc.at /\ proc.at # Nil /\ proc.state = "recovering"
                             /\ L!Open(e) /\ ~L!Committed(e)
                             /\ \/ /\ file' = L!Restored(e) /\ backup' = [backup EXCEPT ![e] = 0]
                                   /\ L!Settle(e, "rolled_back") /\ UNCHANGED failures
                                \/ L!Leave /\ UNCHANGED <<file, backup, failures>>
                                \/ L!Fault /\ L!Leave /\ UNCHANGED <<file, backup>>
  BY NotUp DEF L!RecoverBack, L!Recovering
<1>2. UNCHANGED <<journal, generations, active, record, job, jobs, crashes>>
  BY DEF L!RecoverBack
<1>3. L!TypeOK /\ LocalSizes /\ journal[e] # Nil /\ record.registered
  BY <1>1, NotUp
<1>4. L!Open(e)' /\ (L!Usable' <=> L!Usable) /\ L!Docs(active)' = L!Docs(active)
  BY <1>1, <1>2 DEF L!Open, L!Usable, L!Docs
<1>5. CASE /\ file' = L!Restored(e) /\ backup' = [backup EXCEPT ![e] = 0]
           /\ L!Settle(e, "rolled_back") /\ UNCHANGED failures
  <2>1. /\ backup' \in [L!Entries -> L!Versions] /\ backup'[e] \in {0, backup[e]}
        /\ \A d \in L!Entries : d # e => backup'[d] = backup[d]
        /\ failures' \in 0..MaxFailures
    BY <1>3, <1>5 DEF L!TypeOK, L!Versions, L!Torn, LocalSizes
  <2>2. file' \in [L!Paths -> L!Versions]
    <3>1. e[2] \in L!Paths /\ backup[e] \in L!Versions /\ 0 \in L!Versions
      BY <1>3 DEF L!TypeOK, L!Entries, L!Versions, L!Torn, LocalSizes
    <3>2. file \in [L!Paths -> L!Versions]
      BY <1>3 DEF L!TypeOK
    <3>3. \/ file' = [file EXCEPT ![e[2]] = 0]
          \/ file' = [file EXCEPT ![e[2]] = backup[e]]
          \/ file' = file
      BY <1>5 DEF L!Restored
    <3> QED
      BY <3>1, <3>2, <3>3
  <2>3. L!Usable => PathInv' /\ file'[e[2]] = L!Docs(active)[e[2]]
    <3> SUFFICES ASSUME L!Usable PROVE PathInv' /\ file'[e[2]] = L!Docs(active)[e[2]]
      OBVIOUS
    <3>1. active # jobs /\ EntryOK(e)
      BY <1>1, CommittedIsActive DEF LInv, PathInv
    <3>2. PICK p \in L!Paths : e[2] = p /\ e = <<jobs, p>>
      BY <1>1 DEF LInv, NewestInv, L!Entries
    <3>3. /\ \A q \in L!Paths \ {p} : file'[q] = file[q]
          /\ file'[p] = L!Docs(active)[p]
      BY <1>1, <1>5, <3>1, <3>2, RestoredFile
    <3>4. EntryOK(e)'
      <4>1. backup'[e] = 0
        BY <1>3, <1>5 DEF L!TypeOK
      <4>2. journal[e].old \/ L!Docs(active)[e[2]] = 0
        BY <3>1 DEF EntryOK
      <4> QED
        BY <1>2, <1>4, <3>1, <3>2, <3>3, <4>1, <4>2 DEF EntryOK
    <3>5. <<jobs, p>> \in L!Entries /\ EntryOK(<<jobs, p>>)' /\ L!Open(<<jobs, p>>)'
      <4>1. /\ L!Open(e)' <=> L!Open(<<jobs, p>>)'
            /\ EntryOK(e)' <=> EntryOK(<<jobs, p>>)'
        BY <1>2, <3>2 DEF L!Open, EntryOK
      <4> QED
        BY <1>4, <3>2, <3>4, <4>1
    <3>6. \A d \in L!Entries : d # <<jobs, p>> => journal'[d] = journal[d] /\ backup'[d] = backup[d]
      BY <1>2, <2>1, <3>2
    <3>7. PathInv'
      BY <1>2, <1>4, <3>3, <3>5, <3>6, PathStep
    <3> QED
      BY <3>2, <3>3, <3>7
  <2>4. PathInv'
    BY <1>4, <2>3 DEF PathInv
  <2>5. proc' = [proc EXCEPT !.step = "write", !.end = "rolled_back"]
    BY <1>1, <1>5 DEF L!Settle
  <2> QED
    BY <1>1, <1>2, <1>3, <1>4, <2>1, <2>2, <2>3, <2>4, <2>5, RecoverStep DEF L!TypeOK
<1>6. CASE L!Leave /\ UNCHANGED <<file, backup>> /\ (L!Fault \/ UNCHANGED failures)
  <2>1. proc' = [proc EXCEPT !.at = Nil, !.bad = TRUE] /\ failures' \in 0..MaxFailures
    BY <1>3, <1>6 DEF L!Leave, L!Fault, L!TypeOK, LocalSizes
  <2>2. PathInv'
    BY <1>2, <1>6 DEF LInv, PathInv, L!Usable, L!Open, EntryOK, L!Docs
  <2> QED
    BY <1>1, <1>2, <1>3, <1>6, <2>1, <2>2, RecoverStep DEF L!TypeOK
<1> QED
  BY <1>1, <1>5, <1>6

LEMMA RecordedInv == ASSUME LInv, L!RecoverWrite PROVE LInv'
<1>1. PICK e \in L!Entries : /\ e = proc.at /\ proc.at # Nil /\ proc.state = "recovering"
                             /\ proc.step = "write"
  BY NotUp DEF L!RecoverWrite, L!Recovering
<1>2. UNCHANGED <<file, backup, generations, active, record, job, jobs, crashes>>
  BY DEF L!RecoverWrite
<1>3. L!TypeOK /\ LocalSizes /\ journal[e] # Nil /\ record.registered
  BY <1>1, NotUp
<1>4. PICK end \in {"committed", "rolled_back"} : end = proc.end
  BY <1>1, <1>3 DEF L!TypeOK, LInv, ProcInv
<1>5. L!Open(e) /\ (L!Usable => file[e[2]] = L!Docs(active)[e[2]])
  BY <1>1 DEF LInv, ProcInv
<1>6. (L!Usable' <=> L!Usable) /\ L!Docs(active)' = L!Docs(active)
  BY <1>2 DEF L!Usable, L!Docs
<1>7. journal[e] \in L!Entry
  BY <1>3 DEF L!TypeOK
<1>8. CASE /\ journal' = [journal EXCEPT ![e].end = end]
           /\ proc' = [proc EXCEPT !.step = "remove"] /\ UNCHANGED failures
  <2>1. PICK row : row = [journal[e] EXCEPT !.end = end]
    OBVIOUS
  <2>2. row \in L!Entry /\ row.end = end
    BY <1>7, <2>1 DEF L!Entry
  <2>3. row # Nil
    BY <1>3, <2>2 DEF LocalSizes
  <2>4. journal' = [journal EXCEPT ![e] = row]
    BY <1>8, <2>1
  <2>5. /\ journal' \in [L!Entries -> L!Entry \union {Nil}] /\ journal'[e] = row
        /\ \A d \in L!Entries : d # e => journal'[d] = journal[d]
    BY <1>3, <2>2, <2>4 DEF L!TypeOK
  <2>6. ~L!Open(e)'
    BY <2>2, <2>5 DEF L!Open
  <2>7. L!Usable => PathInv'
    <3> SUFFICES ASSUME L!Usable PROVE PathInv'
      OBVIOUS
    <3>1. PICK p \in L!Paths : e[2] = p /\ e = <<jobs, p>>
      BY <1>5 DEF LInv, NewestInv, L!Entries
    <3>2. \A q \in L!Paths \ {p} : file'[q] = file[q]
      BY <1>2
    <3>3. \A d \in L!Entries : d # <<jobs, p>> => journal'[d] = journal[d] /\ backup'[d] = backup[d]
      BY <1>2, <2>5, <3>1
    <3>4. ~L!Open(<<jobs, p>>)'
      <4>1. L!Open(e)' <=> L!Open(<<jobs, p>>)'
        BY <1>2, <3>1 DEF L!Open
      <4> QED
        BY <2>6, <4>1
    <3>5. file'[p] = L!Docs(active)[p] /\ <<jobs, p>> \in L!Entries
      BY <1>2, <1>5, <3>1
    <3>6. IF L!Open(<<jobs, p>>)' THEN EntryOK(<<jobs, p>>)' ELSE file'[p] = L!Docs(active)[p]
      BY <3>4, <3>5
    <3> QED
      BY <1>2, <1>6, <3>2, <3>3, <3>5, <3>6, PathStep
  <2>8. PathInv'
    BY <1>6, <2>7 DEF PathInv
  <2>9. proc' = [proc EXCEPT !.step = "remove", !.end = end]
    BY <1>3, <1>4, <1>8 DEF L!TypeOK
  <2>10. /\ failures' \in 0..MaxFailures /\ file' \in [L!Paths -> L!Versions]
         /\ backup' \in [L!Entries -> L!Versions] /\ backup'[e] = backup[e]
         /\ \A d \in L!Entries : d # e => journal'[d] = journal[d] /\ backup'[d] = backup[d]
    BY <1>2, <1>3, <1>8, <2>5 DEF L!TypeOK
  <2>11. \E step \in {"write", "remove"}, to \in {"committed", "rolled_back"} :
            /\ proc' = [proc EXCEPT !.step = step, !.end = to]
            /\ journal'[e] # Nil
            /\ step = "write" <=> L!Open(e)'
            /\ step = "write" /\ L!Usable => file'[e[2]] = L!Docs(active)[e[2]]
    BY <2>3, <2>5, <2>6, <2>9
  <2> QED
    BY <1>1, <1>2, <2>5, <2>6, <2>8, <2>10, <2>11, RecoverStep
<1>9. CASE L!Leave /\ UNCHANGED journal /\ L!Fault
  <2>1. proc' = [proc EXCEPT !.at = Nil, !.bad = TRUE] /\ failures' \in 0..MaxFailures
    BY <1>3, <1>9 DEF L!Leave, L!Fault, L!TypeOK, LocalSizes
  <2>2. PathInv'
    BY <1>2, <1>9 DEF LInv, PathInv, L!Usable, L!Open, EntryOK, L!Docs
  <2>3. L!Open(e)' => L!Open(e)
    BY <1>9 DEF L!Open
  <2> QED
    BY <1>1, <1>2, <1>3, <1>9, <2>1, <2>2, <2>3, RecoverStep DEF L!TypeOK
<1> QED
  BY <1>1, <1>4, <1>8, <1>9 DEF L!RecoverWrite

LEMMA RemoveInv == ASSUME LInv, L!RecoverRemove PROVE LInv'
<1>1. PICK e \in L!Entries : /\ e = proc.at /\ proc.at # Nil /\ proc.state = "recovering"
                             /\ proc.step = "remove"
  BY NotUp DEF L!RecoverRemove, L!Recovering
<1>2. UNCHANGED <<file, backup, generations, active, record, job, jobs, crashes>>
  BY DEF L!RecoverRemove
<1>3. L!TypeOK /\ LocalSizes /\ ~L!Open(e)
  BY <1>1, NotUp DEF LInv, ProcInv
<1>4. CASE /\ journal' = [journal EXCEPT ![e] = Nil]
           /\ proc' = [proc EXCEPT !.at = Nil] /\ UNCHANGED failures
  <2>1. /\ journal' \in [L!Entries -> L!Entry \union {Nil}] /\ journal'[e] = Nil
        /\ \A d \in L!Entries : d # e => journal'[d] = journal[d]
    BY <1>3, <1>4 DEF L!TypeOK
  <2>2. \A d \in L!Entries : L!Open(d)' <=> L!Open(d)
    BY <1>3, <2>1 DEF L!Open
  <2>3. PathInv'
    <3> SUFFICES ASSUME L!Usable PROVE PathInv'
      BY <1>2 DEF PathInv, L!Usable
    <3>1. \A d \in L!Entries : L!Open(d)' => EntryOK(d)'
      <4> SUFFICES ASSUME NEW d \in L!Entries, L!Open(d)' PROVE EntryOK(d)'
        OBVIOUS
      <4>1. L!Open(d) /\ d # e /\ EntryOK(d)
        BY <1>3, <2>2 DEF LInv, PathInv
      <4> QED
        BY <1>2, <2>1, <4>1 DEF EntryOK, L!Docs
    <3>2. \A q \in L!Paths : (\A j \in L!Jobs : ~L!Open(<<j, q>>)') => file'[q] = L!Docs(active)'[q]
      BY <1>2, <2>2 DEF LInv, PathInv, L!Docs, L!Entries
    <3> QED
      BY <3>1, <3>2 DEF PathInv
  <2>4. proc' = [proc EXCEPT !.at = Nil, !.bad = proc.bad] /\ proc.bad \in BOOLEAN
    BY <1>3, <1>4 DEF L!TypeOK
  <2> QED
    BY <1>1, <1>2, <1>3, <1>4, <2>1, <2>2, <2>3, <2>4, RecoverStep DEF L!TypeOK
<1>5. CASE L!Leave /\ UNCHANGED journal /\ L!Fault
  <2>1. proc' = [proc EXCEPT !.at = Nil, !.bad = TRUE] /\ failures' \in 0..MaxFailures
    BY <1>3, <1>5 DEF L!Leave, L!Fault, L!TypeOK, LocalSizes
  <2>2. PathInv'
    BY <1>2, <1>5 DEF LInv, PathInv, L!Usable, L!Open, EntryOK, L!Docs
  <2>3. L!Open(e)' => L!Open(e)
    BY <1>5 DEF L!Open
  <2> QED
    BY <1>1, <1>2, <1>3, <1>5, <2>1, <2>2, <2>3, RecoverStep DEF L!TypeOK
<1> QED
  BY <1>1, <1>4, <1>5 DEF L!RecoverRemove

\* LInv holds initially, and of a step that changes nothing.
LEMMA LocalInitInv == L!Init => LInv
<1> SUFFICES ASSUME L!Init PROVE LInv
  OBVIOUS
<1>0. LocalSizes
  BY SizesAssumption, NilAssumption DEF LocalSizes, Entry, Command, Entries, Jobs, Paths,
     L!Entry, L!Command, L!Entries, L!Jobs, L!Paths
<1>1. L!TypeOK
  <2>1. /\ 0 \in L!Versions /\ L!NoFiles \in [L!Paths -> L!Versions] /\ {} \in SUBSET L!Entries
    BY <1>0 DEF L!Versions, L!Torn, LocalSizes, L!NoFiles
  <2>2. L!NoGens \in [L!Jobs -> L!Generation]
    BY <2>1 DEF L!NoGens, L!Generation
  <2>3. /\ file \in [L!Paths -> L!Versions] /\ backup \in [L!Entries -> L!Versions]
        /\ journal \in [L!Entries -> L!Entry \union {Nil}]
        /\ generations \in [L!Jobs -> L!Generation]
    BY <2>1, <2>2 DEF L!Init
  <2>4. /\ active \in 0..MaxJobs /\ jobs \in 0..MaxJobs /\ job \in L!Command \union {Nil}
        /\ crashes \in 0..MaxCrashes /\ failures \in 0..MaxFailures
        /\ record \in [life : {"active", "deleting", "deleted"}, registered : BOOLEAN,
                       lives : 0..MaxLives, asked : BOOLEAN]
    BY <1>0 DEF L!Init, LocalSizes
  <2>5. proc \in [state : {"down", "recovering", "up"}, todo : SUBSET L!Entries,
                  bad : BOOLEAN, at : L!Entries \union {Nil},
                  step : {"file", "write", "remove"},
                  end : {"open", "committed", "rolled_back"}]
    BY <2>1 DEF L!Init, L!Process
  <2> QED
    BY <2>3, <2>4, <2>5 DEF L!TypeOK
<1>2. /\ proc.state = "up" /\ proc.todo = {} /\ proc.at = Nil
      /\ record.life = "active" /\ record.registered /\ ~record.asked /\ job = Nil
  BY DEF L!Init, L!Process
<1>3. \A e \in L!Entries : journal[e] = Nil /\ backup[e] = 0 /\ ~L!Open(e)
  BY DEF L!Init, L!Open
<1>4. LifeInv
  BY <1>2 DEF LifeInv, Dropping
<1>5. NewestInv
  BY <1>0, <1>3 DEF L!Init, NewestInv, L!NoGens, LocalSizes
<1>6. PathInv
  BY <1>3 DEF L!Init, PathInv, L!Docs, EntryOK
<1>7. JobInv /\ ProcInv
  BY <1>2 DEF JobInv, ProcInv
<1> QED
  BY <1>0, <1>1, <1>4, <1>5, <1>6, <1>7 DEF LInv

LEMMA StutterInv == ASSUME LInv, UNCHANGED L!vars PROVE LInv'
<1>1. L!TypeOK' /\ LocalSizes'
  BY DEF LInv, L!vars, L!TypeOK, LocalSizes
<1>2. LifeInv'
  BY DEF LInv, L!vars, LifeInv, Dropping, Blank
<1>3. NewestInv'
  BY DEF LInv, L!vars, NewestInv, L!Open
<1>4. PathInv'
  BY DEF LInv, L!vars, PathInv, L!Usable, L!Open, EntryOK, L!Docs
<1>5. JobInv'
  BY DEF LInv, L!vars, JobInv, L!Usable, ForwardOK, WriteOK, BuildOK, EndOK, L!Open,
     L!Reached, L!Last, L!Docs
<1>6. ProcInv'
  BY DEF LInv, L!vars, ProcInv, L!Usable, L!Open, L!Docs
<1> QED
  BY <1>1, <1>2, <1>3, <1>4, <1>5, <1>6 DEF LInv

LEMMA LStep == LInv /\ [L!Next]_(L!vars) => LInv'
<1> SUFFICES ASSUME LInv, [L!Next]_(L!vars) PROVE LInv'
  OBVIOUS
<1>1. CASE L!StartUpload \/ L!StartDelete \/ L!StartRebuild
  BY <1>1, StartInv
<1>2. CASE L!JobStep
  BY <1>2, BeginInv, MoveInv, MarkInv, WriteInv, BuildInv, RecordInv, SwitchInv, LandingInv,
     UndoingInv DEF L!JobStep
<1>3. CASE \/ L!CollectGeneration \/ L!FenceDelete \/ L!UndoFence
           \/ L!StartDrop \/ L!DropKb \/ L!Create \/ L!Crash
  BY <1>3, CollectInv, FenceInv, StartDropInv, DropInv, CreateInv, CrashInv
<1>4. CASE L!Recovery
  BY <1>4, StartupInv, ForwardInv, BackInv, RecordedInv, RemoveInv DEF L!Recovery
<1>5. CASE UNCHANGED L!vars
  BY <1>5, StutterInv
<1> QED
  BY <1>1, <1>2, <1>3, <1>4, <1>5 DEF L!Next

(***************************************************************************)
(* LInv is an invariant of every knowledge base on a single node.          *)
(***************************************************************************)
THEOREM LocalInductive == L!Spec => []LInv
  BY LocalInitInv, LStep, PTL DEF L!Spec

(***************************************************************************)
(* The files, the journal, the generations, the command and the process keep *)
(* their types.                                                            *)
(***************************************************************************)
THEOREM LocalTypeCorrect == L!Spec => []L!TypeOK
<1>1. LInv => L!TypeOK
  BY DEF LInv
<1> QED
  BY <1>1, LocalInductive, PTL

(***************************************************************************)
(* Whenever the executor is idle and the journal resolved, the source      *)
(* directory is that of the active generation, whatever failed and wherever *)
(* the process died: every batch of api/ingest.py went in as a whole or not *)
(* at all.                                                                 *)
(***************************************************************************)
THEOREM SourceSafe == L!Spec => []SourceMatchesActive
<1>1. LInv => SourceMatchesActive
  <2> SUFFICES ASSUME LInv, Settled PROVE file = L!Docs(active)
    BY DEF SourceMatchesActive, Docs, NoFiles, Paths, L!Docs, L!NoFiles, L!Paths
  <2>1. L!Docs(active) \in [L!Paths -> L!Versions] /\ file \in [L!Paths -> L!Versions]
    BY DocsType DEF LInv, L!TypeOK
  <2>2. L!Usable /\ \A e \in L!Entries : ~L!Open(e)
    BY DEF Settled, Open, Entries, Jobs, Paths, L!Usable, L!Open, L!Entries, L!Jobs, L!Paths
  <2>3. \A p \in L!Paths : file[p] = L!Docs(active)[p]
    BY <2>2 DEF LInv, PathInv, L!Entries
  <2> QED
    BY <2>1, <2>3
<1> QED
  BY <1>1, LocalInductive, PTL

(***************************************************************************)
(* At no moment, not in the middle of a rollback or of recover_all either, is *)
(* a document of the active generation beyond recovery: it is in the source *)
(* directory or in the backup of an open entry of the mutation journal.    *)
(***************************************************************************)
THEOREM NothingLostSafe == L!Spec => []NothingLost
<1>1. LInv => NothingLost
  <2> SUFFICES ASSUME LInv, record.registered, record.life = "active", NEW p \in L!Paths,
                      L!Docs(active)[p] # 0, file[p] # L!Docs(active)[p]
               PROVE  \E j \in L!Jobs :
                         L!Open(<<j, p>>) /\ backup[<<j, p>>] = L!Docs(active)[p]
    BY DEF NothingLost, Docs, NoFiles, Open, Jobs, Paths,
           L!Docs, L!NoFiles, L!Open, L!Jobs, L!Paths
  <2>1. L!Usable
    BY DEF L!Usable
  <2>2. PICK j \in L!Jobs : L!Open(<<j, p>>)
    BY <2>1 DEF LInv, PathInv
  <2>3. EntryOK(<<j, p>>)
    BY <2>1, <2>2 DEF LInv, PathInv, L!Entries
  <2> QED
    BY <2>2, <2>3 DEF EntryOK
<1> QED
  BY <1>1, LocalInductive, PTL

-----------------------------------------------------------------------------
(* What a job does to the documents, and the refinement of ServedDocuments. *)

\* What the loop of an upload has written; from the build on that is the whole batch.
Written == IF job.step \in Changing THEN job.done \ job.todo ELSE job.done

UploadOK == job.kind = "upload" => \A p \in Written : file[p] = job.id

\* One document is taken away, and it was there.
DeleteOK ==
    job.kind = "delete_doc" =>
        /\ \E q \in L!Paths : job.todo \union job.done \subseteq {q}
        /\ job.step # "write"
        /\ job.step = "begin" => \A p \in job.todo : file[p] # 0
        /\ job.step \in {"mark", "build", "record", "switch"} => \A p \in job.done : file[p] = 0

(***************************************************************************)
(* What a job has done to the source directory up to the switch.           *)
(***************************************************************************)
BatchInv ==
    L!Pending =>
        /\ UploadOK /\ DeleteOK
        /\ job.kind = "rebuild" => job.done = {}

BInv == LInv /\ BatchInv

\* A job before the commit point.
LEMMA BeforeSwitch ==
    ASSUME LInv, job # Nil, job.step \in L!Ahead
    PROVE  /\ job.kind # "drop" /\ job \in L!Command /\ job.id = jobs /\ jobs \in L!Jobs
           /\ active # jobs /\ L!Usable /\ L!TypeOK /\ LocalSizes
<1>1. job.kind # "drop"
  BY DEF LInv, LifeInv, DropSteps, L!Ahead
<1>2. active # jobs
  BY <1>1, Working DEF LInv, JobInv, ForwardOK
<1> QED
  BY <1>1, <1>2, Working DEF LInv

\* Only the switch and the erasure of the directory change what is served.
LEMMA SameDocs ==
    ASSUME LInv, active' = active,
           \A j \in L!Jobs : j = active => generations'[j].docs = generations[j].docs
    PROVE  L!Docs(active)' = L!Docs(active)
  BY DEF LInv, L!TypeOK, L!Jobs, L!Docs, LocalSizes

LEMMA BuildDocs ==
    ASSUME LInv, job # Nil, job.step \in L!Ahead, active' = active,
           \E row : generations' = [generations EXCEPT ![job.id] = row]
    PROVE  L!Docs(active)' = L!Docs(active)
<1>1. job.id = jobs /\ active # jobs /\ L!TypeOK
  BY BeforeSwitch
<1>2. \A j \in L!Jobs : j # jobs => generations'[j] = generations[j]
  BY <1>1 DEF L!TypeOK
<1> QED
  BY <1>1, <1>2, SameDocs

LEMMA DiscardedDocs ==
    ASSUME LInv, job # Nil, job.step \in L!Ahead, active' = active, generations' = L!Discarded
    PROVE  L!Docs(active)' = L!Docs(active)
<1>1. \E row : L!Discarded = [generations EXCEPT ![job.id] = row]
  BY Zenon DEF L!Discarded
<1> QED
  BY <1>1, BuildDocs

LEMMA QuietDocs ==
    ASSUME LInv, [L!Next]_(L!vars), ~L!SwitchActive, ~L!DropDirectory
    PROVE  active' = active /\ L!Docs(active)' = L!Docs(active)
<1>1. CASE generations' = generations /\ active' = active
  BY <1>1, SameDocs
<1>2. CASE L!Build
  <2>1. job # Nil /\ job.step \in L!Ahead
    BY <1>2 DEF L!Build, L!At, L!Ahead
  <2> QED
    BY <1>2, <2>1, <1>1, BuildDocs DEF L!Build
<1>3. CASE L!Record
  <2>1. job # Nil /\ job.step \in L!Ahead
    BY <1>3 DEF L!Record, L!At, L!Ahead
  <2> QED
    BY <1>3, <2>1, <1>1, DiscardedDocs DEF L!Record
<1>4. CASE L!CollectGeneration
  <2>1. PICK j \in L!Jobs : /\ generations[j].status = "superseded" /\ active' = active
                            /\ generations' = [generations EXCEPT ![j] = [status |-> "none",
                                  docs |-> L!NoFiles]]
    BY <1>4 DEF L!CollectGeneration
  <2>2. j # active
    BY <2>1 DEF LInv, NewestInv, L!TypeOK, LocalSizes, L!Jobs
  <2>3. \A i \in L!Jobs : i # j => generations'[i] = generations[i]
    BY <2>1 DEF LInv, L!TypeOK
  <2> QED
    BY <2>1, <2>2, <2>3, SameDocs
<1>5. CASE L!StartUpload \/ L!StartDelete \/ L!StartRebuild
  BY <1>1, <1>5 DEF L!StartUpload, L!StartDelete, L!StartRebuild, L!disk
<1>6. CASE L!Begin \/ L!Move \/ L!MarkMoved \/ L!Write
  BY <1>1, <1>6 DEF L!Begin, L!Move, L!MarkMoved, L!Write
<1>7. CASE L!MarkCommitted \/ L!Sweep \/ L!Clear \/ L!Undo \/ L!UndoMark \/ L!UndoClear
  BY <1>1, <1>7 DEF L!MarkCommitted, L!Sweep, L!Clear, L!Undo, L!UndoMark, L!UndoClear
<1>8. CASE \/ L!FenceDelete \/ L!UndoFence \/ L!StartDrop
           \/ L!DropFence \/ L!DropTombstone \/ L!DropEntry \/ L!DropRecord \/ L!Create \/ L!Crash
  BY <1>1, <1>8 DEF L!FenceDelete, L!UndoFence, L!StartDrop, L!DropFence, L!DropTombstone,
     L!DropEntry, L!DropRecord, L!Create, L!Crash
<1>9. CASE L!Recovery
  BY <1>1, <1>9 DEF L!Recovery, L!Restart, L!RecoverNext, L!RecoverForward, L!RecoverBack,
     L!RecoverDone, L!RecoverWrite, L!RecoverRemove, L!Started, L!disk
<1>10. CASE UNCHANGED L!vars
  BY <1>1, <1>10 DEF L!vars
<1> QED
  BY <1>2, <1>3, <1>4, <1>5, <1>6, <1>7, <1>8, <1>9, <1>10 DEF L!Next, L!JobStep, L!DropKb

LEMMA BatchSame ==
    ASSUME BatchInv, UNCHANGED <<job, file>>
    PROVE  BatchInv'
  BY DEF BatchInv, L!Pending, UploadOK, DeleteOK, Written

LEMMA BatchUnwind ==
    ASSUME LInv, job # Nil, job.step \in L!Ahead, L!Unwind
    PROVE  BatchInv'
<1>1. job \in L!Command
  BY BeforeSwitch
<1>2. job' = Nil \/ job'.step = "undo"
  BY <1>1 DEF L!Unwind, L!Command
<1> QED
  BY <1>2 DEF BatchInv, L!Pending, L!Ahead

LEMMA StartBatch ==
    ASSUME BInv, L!StartUpload \/ L!StartDelete \/ L!StartRebuild
    PROVE  BatchInv'
<1>1. UNCHANGED file
  BY DEF L!StartUpload, L!StartDelete, L!StartRebuild, L!disk
<1>2. CASE L!StartUpload
  <2>1. PICK paths \in (SUBSET L!Paths) \ {{}} : L!Start("upload", paths, "begin")
    BY <1>2 DEF L!StartUpload
  <2>2. job'.kind = "upload" /\ job'.step = "begin" /\ job'.done = {}
    BY <2>1 DEF L!Start
  <2> QED
    BY <2>2 DEF BatchInv, UploadOK, DeleteOK, Written, Changing
<1>3. CASE L!StartDelete
  <2>1. PICK p \in L!Paths : file[p] # 0 /\ L!Start("delete_doc", {p}, "begin")
    BY <1>3 DEF L!StartDelete
  <2>2. job'.kind = "delete_doc" /\ job'.step = "begin" /\ job'.done = {} /\ job'.todo = {p}
    BY <2>1 DEF L!Start
  <2> QED
    BY <1>1, <2>1, <2>2 DEF BatchInv, UploadOK, DeleteOK
<1>4. CASE L!StartRebuild
  BY <1>4 DEF L!StartRebuild, L!Start, BatchInv, UploadOK, DeleteOK
<1> QED
  BY <1>2, <1>3, <1>4

\* The steps of a job at the document it has reached.
LEMMA WritingBatch ==
    ASSUME BInv, L!Begin \/ L!Move \/ L!MarkMoved \/ L!Write
    PROVE  BatchInv'
<1>1. job # Nil /\ job.step \in Changing /\ job.step \in L!Ahead
  BY DEF L!Begin, L!Move, L!MarkMoved, L!Write, L!At, Changing, L!Ahead
<1>2. job.kind \in {"upload", "delete_doc"} /\ job \in L!Command /\ job.id = jobs /\ L!TypeOK
  BY <1>1, BeforeSwitch DEF BInv, LInv, JobInv, WriteOK, L!Command
<1>3. PICK p \in L!Paths : /\ p = L!Reached /\ p \in job.todo
                           /\ job.step = "begin" => p \notin job.done
                           /\ job.step # "begin" => p \in job.done
  BY <1>1, <1>2, AtReached DEF BInv
<1>4. /\ UploadOK /\ DeleteOK /\ Written = job.done \ job.todo
      /\ job.step # "begin" => job.todo \intersect job.done = {p}
  BY <1>1, <1>2, <1>3, BeforeSwitch DEF BInv, BatchInv, L!Pending, Written, LInv, JobInv,
     WriteOK
<1>5. CASE L!Unwind
  BY <1>1, <1>5, BatchUnwind DEF BInv
<1>6. CASE L!Begin /\ ~L!Unwind
  <2>1. PICK step \in {"move", "write"} :
           /\ step = IF file[p] # 0 THEN "move" ELSE "write"
           /\ job' = [job EXCEPT !.step = step, !.done = @ \union {p}]
           /\ UNCHANGED file
    BY <1>3, <1>6 DEF L!Begin
  <2>2. /\ job'.kind = job.kind /\ job'.id = job.id /\ job'.step = step
        /\ job'.done = job.done \union {p} /\ job'.todo = job.todo
    BY <1>2, <2>1 DEF L!Command
  <2>3. UploadOK'
    BY <1>3, <1>4, <2>1, <2>2 DEF UploadOK, Written, Changing
  <2>4. DeleteOK'
    BY <1>3, <1>4, <1>6, <2>1, <2>2 DEF DeleteOK, L!Begin, L!At
  <2> QED
    BY <1>2, <2>2, <2>3, <2>4 DEF BatchInv
<1>7. CASE L!Move /\ ~L!Unwind
  <2>1. /\ job' = [job EXCEPT !.step = "mark"]
        /\ file' = [file EXCEPT ![p] = 0]
    BY <1>3, <1>7 DEF L!Move, L!Goto
  <2>2. /\ job'.kind = job.kind /\ job'.id = job.id /\ job'.step = "mark"
        /\ job'.done = job.done /\ job'.todo = job.todo
    BY <1>2, <2>1 DEF L!Command
  <2>3. file'[p] = 0 /\ \A q \in L!Paths : q # p => file'[q] = file[q]
    BY <1>2, <2>1 DEF L!TypeOK
  <2>4. UploadOK'
    BY <1>2, <1>3, <1>4, <2>2, <2>3 DEF UploadOK, Written, Changing, L!Command
  <2>5. DeleteOK'
    BY <1>3, <1>4, <2>2, <2>3 DEF DeleteOK
  <2> QED
    BY <1>2, <2>2, <2>4, <2>5 DEF BatchInv
<1>8. CASE L!MarkMoved /\ ~L!Unwind
  <2>1. PICK step \in {"write", "build"} :
           /\ step = IF job.kind = "upload" THEN "write" ELSE "build"
           /\ job' = [job EXCEPT !.step = step]
           /\ UNCHANGED file
    BY <1>8 DEF L!MarkMoved, L!Goto
  <2>2. /\ job'.kind = job.kind /\ job'.id = job.id /\ job'.step = step
        /\ job'.done = job.done /\ job'.todo = job.todo
    BY <1>2, <2>1 DEF L!Command
  <2>3. UploadOK'
    BY <1>4, <2>1, <2>2 DEF UploadOK, Written, Changing
  <2>4. DeleteOK'
    BY <1>4, <1>8, <2>1, <2>2 DEF DeleteOK, L!MarkMoved, L!At
  <2> QED
    BY <1>2, <2>2, <2>3, <2>4 DEF BatchInv
<1>9. CASE L!Write /\ ~L!Unwind
  <2>1. job.step = "write" /\ job.kind = "upload"
    BY <1>2, <1>4, <1>9 DEF L!Write, L!At, DeleteOK
  <2>2. PICK rest \in SUBSET L!Paths, step \in {"build", "begin"} :
           /\ rest = job.todo \ {p}
           /\ step = IF rest = {} THEN "build" ELSE "begin"
           /\ job' = [job EXCEPT !.todo = rest, !.step = step]
           /\ file' = [file EXCEPT ![p] = job.id]
    <3>1. job.todo \ {p} \in SUBSET L!Paths
      BY <1>2 DEF L!Command
    <3> QED
      BY <1>3, <1>9, <3>1 DEF L!Write
  <2>3. /\ job'.kind = job.kind /\ job'.id = job.id /\ job'.step = step
        /\ job'.done = job.done /\ job'.todo = rest
    BY <1>2, <2>2 DEF L!Command
  <2>4. file'[p] = job.id /\ \A q \in L!Paths : q # p => file'[q] = file[q]
    BY <1>2, <2>2 DEF L!TypeOK
  <2>5. \A q \in Written' : q = p \/ q \in Written
    BY <1>3, <1>4, <2>1, <2>2, <2>3 DEF Written, Changing
  <2>6. UploadOK'
    BY <1>2, <1>4, <2>1, <2>3, <2>4, <2>5 DEF UploadOK, Written, L!Command
  <2> QED
    BY <2>1, <2>3, <2>6 DEF BatchInv, DeleteOK
<1> QED
  BY <1>5, <1>6, <1>7, <1>8, <1>9

\* The build, and the record of it in the entries.
LEMMA BuildBatch ==
    ASSUME BInv, L!Build \/ L!Record
    PROVE  BatchInv'
<1>1. job # Nil /\ job.step \in {"build", "record"} /\ job.step \in L!Ahead /\ UNCHANGED file
  BY DEF L!Build, L!Record, L!At, L!Ahead
<1>2. job \in L!Command /\ UploadOK /\ DeleteOK /\ (job.kind = "rebuild" => job.done = {})
  BY <1>1, BeforeSwitch DEF BInv, BatchInv, L!Pending
<1>3. CASE L!Unwind
  BY <1>1, <1>3, BatchUnwind DEF BInv
<1>4. ASSUME ~L!Unwind
      PROVE  \E todo \in SUBSET (job.todo \union job.done), step \in {"record", "switch"} :
                job' = [job EXCEPT !.todo = todo, !.step = step]
  <2>1. CASE L!Build
    <3>1. PICK step \in {"record", "switch"} :
             job' = [job EXCEPT !.todo = job.done, !.step = step]
      BY <1>4, <2>1, Zenon DEF L!Build
    <3> QED
      BY <3>1
  <2>2. CASE L!Record
    <3> DEFINE rest == job.todo \ {L!Reached}
    <3>1. PICK step \in {"record", "switch"} :
             job' = [job EXCEPT !.todo = rest, !.step = step]
      BY <1>4, <2>2, Zenon DEF L!Record
    <3>2. rest \in SUBSET (job.todo \union job.done)
      OBVIOUS
    <3> QED
      BY <3>1, <3>2
  <2> QED
    BY <2>1, <2>2
<1>5. CASE ~L!Unwind
  <2>1. PICK todo \in SUBSET (job.todo \union job.done), step \in {"record", "switch"} :
           job' = [job EXCEPT !.todo = todo, !.step = step]
    BY <1>4, <1>5
  <2>2. /\ job'.kind = job.kind /\ job'.id = job.id /\ job'.step = step
        /\ job'.done = job.done /\ job'.todo = todo
    BY <1>2, <2>1 DEF L!Command
  <2>3. UploadOK'
    BY <1>1, <1>2, <2>2 DEF UploadOK, Written, Changing
  <2>4. DeleteOK'
    BY <1>1, <1>2, <2>1, <2>2 DEF DeleteOK
  <2> QED
    BY <1>2, <2>2, <2>3, <2>4 DEF BatchInv
<1> QED
  BY <1>3, <1>5

\* The other steps leave no job before its switch, or do not touch job and files.
LEMMA AwayStep ==
    ASSUME LInv, [L!Next]_(L!vars), ~L!StartUpload, ~L!StartDelete, ~L!StartRebuild,
           ~L!Begin, ~L!Move, ~L!MarkMoved, ~L!Write, ~L!Build, ~L!Record
    PROVE  jobs' = jobs /\ (~L!Pending' \/ UNCHANGED <<job, file>>)
<1>1. CASE L!SwitchActive
  <2>1. job \in L!Command
    BY <1>1, BeforeSwitch DEF L!SwitchActive, L!At, L!Ahead
  <2>2. job' = Nil \/ job'.step \in {"commit", "undo"}
    BY <1>1, <2>1 DEF L!SwitchActive, L!Unwind, L!Command
  <2> QED
    BY <1>1, <2>2 DEF L!SwitchActive, L!Pending, L!Ahead
<1>2. CASE L!MarkCommitted \/ L!Sweep \/ L!Clear \/ L!Undo \/ L!UndoMark \/ L!UndoClear
  <2>1. job # Nil /\ job.step \in Landing \union Undoing /\ jobs' = jobs
    BY <1>2 DEF L!MarkCommitted, L!Sweep, L!Clear, L!Undo, L!UndoMark, L!UndoClear, L!At,
       Landing, Undoing
  <2>2. job \in L!Command
    BY <2>1 DEF LInv, L!TypeOK
  <2>3. job' = Nil \/ job'.step \in Landing \union Undoing
    BY <1>2, <2>2 DEF L!MarkCommitted, L!Sweep, L!Clear, L!Undo, L!UndoMark, L!UndoClear,
       L!CommitNext, L!UndoNext, L!Goto, Landing, Undoing, L!Command
  <2> QED
    BY <2>1, <2>3 DEF L!Pending, L!Ahead, Landing, Undoing
<1>3. CASE L!StartDrop
  BY <1>3 DEF L!StartDrop, L!Start, L!Pending, L!Ahead
<1>4. CASE L!DropKb
  <2>1. job # Nil /\ job.step \in DropSteps /\ jobs' = jobs
    BY <1>4 DEF L!DropKb, L!DropFence, L!DropTombstone, L!DropEntry, L!DropDirectory,
       L!DropRecord, L!DropStep, L!At, DropSteps
  <2>2. job \in L!Command
    BY <2>1 DEF LInv, L!TypeOK
  <2>3. job' = Nil \/ job'.step \in DropSteps
    BY <1>4, <2>1, <2>2 DEF L!DropKb, L!DropFence, L!DropTombstone, L!DropEntry,
       L!DropDirectory, L!DropRecord, L!DropStep, L!Goto, DropSteps, L!Command
  <2> QED
    BY <2>1, <2>3 DEF L!Pending, DropSteps, L!Ahead
<1>5. CASE L!CollectGeneration \/ L!FenceDelete \/ L!UndoFence \/ L!Create \/ UNCHANGED L!vars
  BY <1>5 DEF L!CollectGeneration, L!FenceDelete, L!UndoFence, L!Create, L!vars
<1>6. CASE L!Crash
  BY <1>6 DEF L!Crash, L!Pending
<1>7. CASE L!Recovery
  <2>1. proc.state # "up" /\ job' = job /\ jobs' = jobs
    BY <1>7 DEF L!Recovery, L!Restart, L!RecoverNext, L!RecoverForward, L!RecoverBack,
       L!RecoverDone, L!RecoverWrite, L!RecoverRemove, L!Started, L!Recovering
  <2> QED
    BY <2>1 DEF LInv, LifeInv, L!Pending
<1> QED
  BY <1>1, <1>2, <1>3, <1>4, <1>5, <1>6, <1>7 DEF L!Next, L!JobStep

LEMMA OtherBatch ==
    ASSUME BInv, [L!Next]_(L!vars), ~L!StartUpload, ~L!StartDelete, ~L!StartRebuild,
           ~L!Begin, ~L!Move, ~L!MarkMoved, ~L!Write, ~L!Build, ~L!Record
    PROVE  BatchInv'
<1>1. ~L!Pending' \/ UNCHANGED <<job, file>>
  BY AwayStep DEF BInv
<1> QED
  BY <1>1, BatchSame DEF BInv, BatchInv

\* What the switch makes the documents: those of the job on those there were.
LEMMA Switched ==
    ASSUME BInv, L!SwitchActive, active' = job.id
    PROVE  /\ job.id = jobs /\ jobs \in L!Jobs /\ L!Usable
           /\ L!Pending /\ ~L!Pending' /\ jobs' = jobs
           /\ active' = jobs /\ L!Docs(active)' = file /\ record' = record
           /\ job.kind \in {"upload", "delete_doc", "rebuild"}
           /\ \A p \in L!Paths \ job.done : file[p] = L!Docs(active)[p]
           /\ job.kind = "upload" => \A p \in job.done : file[p] = jobs
           /\ job.kind = "delete_doc" =>
                 /\ \A p \in job.done : file[p] = 0
                 /\ \E q \in L!Paths : job.done \subseteq {q}
           /\ job.kind = "rebuild" => job.done = {}
<1>1. job # Nil /\ job.step = "switch" /\ record' = record
  BY DEF L!SwitchActive, L!At
<1>2. /\ job.kind # "drop" /\ job \in L!Command /\ job.id = jobs /\ jobs \in L!Jobs
      /\ active # jobs /\ L!Usable /\ L!TypeOK /\ LocalSizes
  BY <1>1, BeforeSwitch DEF L!Ahead, BInv
<1>3. L!Pending /\ ~L!Pending' /\ jobs' = jobs
  <2>1. job' = Nil \/ job'.step = "commit"
    BY <1>1, <1>2 DEF L!SwitchActive, L!Command
  <2> QED
    BY <1>1, <2>1 DEF L!SwitchActive, L!Pending, L!Ahead
<1>4. L!Docs(active)' = file
  <2>1. generations[jobs].docs = file /\ jobs # 0
    BY <1>1, <1>2 DEF BInv, LInv, JobInv, BuildOK, L!Jobs
  <2>2. generations'[jobs].docs = generations[jobs].docs
    <3>1. CASE generations' = [j \in L!Jobs |->
                 IF j = job.id THEN [generations[j] EXCEPT !.status = "active"]
                 ELSE IF j = active THEN [generations[j] EXCEPT !.status = "superseded"]
                 ELSE generations[j]]
      <4>1. generations'[jobs] = [generations[jobs] EXCEPT !.status = "active"]
        BY <1>2, <3>1
      <4> QED
        BY <1>2, <4>1 DEF L!TypeOK, L!Generation
    <3> QED
      BY <1>2, <3>1 DEF L!SwitchActive
  <2> QED
    BY <1>2, <2>1, <2>2 DEF L!Docs
<1>5. ASSUME NEW p \in L!Paths \ job.done PROVE file[p] = L!Docs(active)[p]
  <2>1. \A j \in L!Jobs : ~L!Open(<<j, p>>)
    <3>1. journal[<<jobs, p>>] = Nil
      BY <1>1, <1>2 DEF BInv, LInv, JobInv, ForwardOK, L!Ahead
    <3>2. \A e \in L!Entries : L!Open(e) => e[1] = jobs
      BY DEF BInv, LInv, NewestInv
    <3> QED
      BY <3>1, <3>2 DEF L!Open, L!Entries
  <2> QED
    BY <1>2, <2>1 DEF BInv, LInv, PathInv
<1>6. /\ UploadOK /\ DeleteOK /\ (job.kind = "rebuild" => job.done = {})
      /\ Written = job.done
  BY <1>1 DEF BInv, BatchInv, L!Pending, L!Ahead, Written, Changing
<1>7. /\ job.kind = "upload" => \A p \in job.done : file[p] = jobs
      /\ job.kind = "delete_doc" =>
            /\ \A p \in job.done : file[p] = 0
            /\ \E q \in L!Paths : job.done \subseteq {q}
  BY <1>1, <1>2, <1>6 DEF UploadOK, DeleteOK
<1>8. job.kind \in {"upload", "delete_doc", "rebuild"}
  BY <1>2 DEF L!Command
<1> QED
  BY <1>1, <1>2, <1>3, <1>4, <1>5, <1>6, <1>7, <1>8

LEMMA BStep == BInv /\ [L!Next]_(L!vars) => BInv'
<1> SUFFICES ASSUME BInv, [L!Next]_(L!vars) PROVE BInv'
  OBVIOUS
<1>1. BatchInv'
  BY StartBatch, WritingBatch, BuildBatch, OtherBatch
<1> QED
  BY <1>1, LStep DEF BInv

\* A step that leaves the documents and the lifecycle is the end of a job, or none.
LEMMA QuietServes ==
    ASSUME L!Docs(active)' = L!Docs(active), L!Usable' = L!Usable, jobs' = jobs,
           L!Pending' => L!Pending
    PROVE  [L!Served!Next]_(L!Served!vars)
<1>1. CASE L!Pending /\ ~L!Pending'
  <2>1. L!Served!Keep
    BY <1>1 DEF L!Served!Keep, L!Served!End, L!Pending
  <2> QED
    BY <2>1 DEF L!Served!Next
<1>2. CASE L!Pending' = L!Pending
  BY <1>2 DEF L!Served!vars
<1> QED
  BY <1>1, <1>2 DEF L!Pending

\* The beginning of an index job.
LEMMA StartServes ==
    ASSUME BInv, L!StartUpload \/ L!StartDelete \/ L!StartRebuild
    PROVE  L!Served!Begin
<1>1. /\ record.life = "active" /\ record.registered /\ record' = record /\ jobs' = jobs + 1
      /\ UNCHANGED <<generations, active>>
  BY DEF L!StartUpload, L!StartDelete, L!StartRebuild, L!Admitted, L!disk
<1>2. ~L!Pending /\ L!Pending'
  <2>1. PICK kind \in {"upload", "delete_doc", "rebuild"}, paths \in SUBSET L!Paths,
             step \in {"begin", "build"} : L!Start(kind, paths, step)
    <3>1. CASE L!StartUpload
      BY <3>1 DEF L!StartUpload
    <3>2. CASE L!StartDelete
      <4>1. PICK p \in L!Paths : L!Start("delete_doc", {p}, "begin")
        BY <3>2 DEF L!StartDelete
      <4>2. {p} \in SUBSET L!Paths
        OBVIOUS
      <4> QED
        BY <4>1, <4>2
    <3>3. CASE L!StartRebuild
      BY <3>3 DEF L!StartRebuild
    <3> QED
      BY <3>1, <3>2, <3>3
  <2>2. job = Nil /\ job' = [id |-> jobs + 1, kind |-> kind, todo |-> paths, done |-> {},
                             step |-> step, ok |-> FALSE]
    BY <2>1 DEF L!Start
  <2>3. jobs + 1 \in 0..MaxJobs
    <3>1. jobs < MaxJobs
      BY DEF L!StartUpload, L!StartDelete, L!StartRebuild, L!Admitted
    <3> QED
      BY <3>1 DEF BInv, LInv, L!TypeOK, LocalSizes
  <2>4. job' \in L!Command
    BY <2>2, <2>3 DEF L!Command
  <2>5. job' # Nil
    BY <2>4 DEF BInv, LInv, LocalSizes
  <2> QED
    BY <2>2, <2>5 DEF L!Pending, L!Ahead
<1>3. L!Docs(active)' = L!Docs(active)
  BY <1>1, SameDocs DEF BInv
<1>4. L!Usable /\ L!Usable' = L!Usable
  BY <1>1 DEF L!Usable
<1> QED
  BY <1>1, <1>2, <1>3, <1>4 DEF L!Served!Begin, L!Pending

\* The switch is an upload of the whole batch, a removal, or changes nothing.
LEMMA SwitchServes ==
    ASSUME BInv, L!SwitchActive, active' = job.id
    PROVE  [L!Served!Next]_(L!Served!vars)
<1>1. /\ job.id = jobs /\ L!Usable /\ L!Docs(active)' = file
      /\ job.kind \in {"upload", "delete_doc", "rebuild"}
      /\ \A p \in L!Paths \ job.done : file[p] = L!Docs(active)[p]
      /\ job.kind = "upload" => \A p \in job.done : file[p] = jobs
      /\ job.kind = "delete_doc" =>
            /\ \A p \in job.done : file[p] = 0
            /\ \E q \in L!Paths : job.done \subseteq {q}
      /\ job.kind = "rebuild" => job.done = {}
  BY Switched
<1>2. job.done \in SUBSET L!Paths
  BY BeforeSwitch DEF BInv, L!SwitchActive, L!At, L!Ahead, L!Command
<1>3. L!Docs(active) \in [L!Paths -> L!Versions] /\ file \in [L!Paths -> L!Versions]
  BY DocsType DEF BInv, LInv, L!TypeOK
<1>4. L!Usable' = L!Usable
  BY Switched DEF L!Usable
<1>5. L!Served!End
  BY Switched, <1>4 DEF L!Served!End, L!Pending
<1>6. CASE job.kind = "upload"
  <2>1. file = [p \in L!Paths |-> IF p \in job.done THEN jobs ELSE L!Docs(active)[p]]
    BY <1>1, <1>3, <1>6
  <2>2. L!Served!Upload(job.done)
    BY <1>1, <1>5, <2>1 DEF L!Served!Upload
  <2> QED
    BY <1>2, <2>2 DEF L!Served!Next
<1>7. CASE file = L!Docs(active)
  <2>1. L!Served!Keep
    BY <1>1, <1>5, <1>7 DEF L!Served!Keep
  <2> QED
    BY <2>1 DEF L!Served!Next
<1>8. CASE job.done = {}
  <2>1. file = L!Docs(active)
    BY <1>1, <1>3, <1>8
  <2> QED
    BY <1>7, <2>1
<1>9. CASE job.kind = "delete_doc" /\ job.done # {}
  <2>1. PICK q \in L!Paths : job.done = {q}
    BY <1>1, <1>9
  <2>2. file = [L!Docs(active) EXCEPT ![q] = 0]
    BY <1>1, <1>3, <1>9, <2>1
  <2>3. L!Served!Remove(q)
    BY <1>1, <1>5, <2>2 DEF L!Served!Remove
  <2> QED
    BY <2>3 DEF L!Served!Next
<1> QED
  BY <1>1, <1>6, <1>8, <1>9

\* The deletion of the knowledge base while it runs.
LEMMA DropServes ==
    ASSUME BInv, L!DropKb
    PROVE  [L!Served!Next]_(L!Served!vars)
<1>1. job # Nil /\ job.kind = "drop" /\ ~L!Usable /\ record.life # "active" /\ ~record.asked
  <2>1. \E step \in DropSteps : L!At(step)
    BY DEF L!DropKb, L!DropFence, L!DropTombstone, L!DropEntry, L!DropDirectory,
       L!DropRecord, L!DropStep, DropSteps
  <2> QED
    BY <2>1, DropFacts DEF BInv
<1>2. ~L!Usable'
  BY <1>1 DEF L!DropKb, L!DropFence, L!DropTombstone, L!DropEntry, L!DropDirectory,
     L!DropRecord, L!Usable, BInv, LInv, L!TypeOK
<1>3. L!Usable = FALSE /\ L!Usable' = FALSE
  BY <1>1, <1>2 DEF L!Usable
<1>4. jobs' = jobs /\ L!Pending = FALSE /\ L!Pending' = FALSE
  <2>1. job.step \in DropSteps /\ job \in L!Command
    BY <1>1 DEF BInv, LInv, LifeInv, L!TypeOK
  <2>2. job' = Nil \/ job'.step \in DropSteps
    BY <2>1 DEF L!DropKb, L!DropFence, L!DropTombstone, L!DropEntry, L!DropDirectory,
       L!DropRecord, L!DropStep, L!Goto, DropSteps, L!Command
  <2>3. jobs' = jobs
    BY DEF L!DropKb, L!DropFence, L!DropTombstone, L!DropEntry, L!DropDirectory,
       L!DropRecord
  <2> QED
    BY <2>1, <2>2, <2>3 DEF L!Pending, DropSteps, L!Ahead
<1>5. CASE L!DropDirectory
  <2>1. L!Docs(active)' = L!NoFiles
    BY <1>5 DEF L!DropDirectory, L!Docs
  <2>2. L!Served!Erase
    BY <1>3, <1>4, <2>1 DEF L!Served!Erase, L!Served!NoDocuments, L!NoFiles
  <2> QED
    BY <2>2 DEF L!Served!Next
<1>6. CASE ~L!DropDirectory
  <2>1. ~L!SwitchActive
    BY <1>1 DEF L!SwitchActive, L!At, BInv, LInv, LifeInv, DropSteps
  <2>2. L!Docs(active)' = L!Docs(active)
    BY <1>6, <2>1, QuietDocs DEF BInv, L!Next
  <2> QED
    BY <1>3, <1>4, <2>2, QuietServes
<1> QED
  BY <1>5, <1>6

\* What the deletion's fence, its end and a crash make of the lifecycle.
LEMMA LifeServes ==
    ASSUME BInv, L!FenceDelete \/ L!UndoFence \/ L!StartDrop \/ L!Create \/ L!Crash
    PROVE  [L!Served!Next]_(L!Served!vars)
<1>1. /\ record \in [life : {"active", "deleting", "deleted"}, registered : BOOLEAN,
                     lives : 0..MaxLives, asked : BOOLEAN]
      /\ record.asked => record.registered /\ record.life = "deleting"
      /\ ~record.registered => Blank
  BY DEF BInv, LInv, L!TypeOK, LifeInv
<1>2. L!Docs(active)' = L!Docs(active) /\ jobs' = jobs
  <2>1. UNCHANGED <<generations, active, jobs>>
    BY DEF L!FenceDelete, L!UndoFence, L!StartDrop, L!Create, L!Crash
  <2> QED
    BY <2>1, SameDocs DEF BInv
<1>3. CASE L!FenceDelete \/ L!UndoFence
  <2>1. L!Usable /\ L!Usable' /\ job' = job
    BY <1>1, <1>3 DEF L!FenceDelete, L!UndoFence, L!Usable
  <2>2. L!Usable' = L!Usable /\ (L!Pending' => L!Pending)
    BY <2>1 DEF L!Usable, L!Pending
  <2> QED
    BY <1>2, <2>2, QuietServes
<1>4. CASE L!StartDrop \/ L!Crash
  <2>1. (L!Usable' => L!Usable) /\ ~L!Pending'
    BY <1>1, <1>4 DEF L!StartDrop, L!Start, L!Crash, L!Usable, L!Pending, L!Ahead
  <2>2. CASE L!Usable /\ ~L!Usable'
    <3>1. L!Served!GiveUp
      BY <1>2, <2>1, <2>2 DEF L!Served!GiveUp, L!Usable, L!Pending
    <3> QED
      BY <3>1 DEF L!Served!Next
  <2>3. CASE L!Usable' = L!Usable
    BY <1>2, <2>1, <2>3, QuietServes
  <2> QED
    BY <2>1, <2>2, <2>3 DEF L!Usable
<1>5. CASE L!Create
  <2>1. L!Docs(active) = L!NoFiles
    BY <1>1, <1>5 DEF L!Create, Blank, L!Docs
  <2>2. ~L!Usable /\ L!Usable' /\ job' = job
    BY <1>1, <1>5 DEF L!Create, L!Usable
  <2>3. L!Served!Create
    BY <1>2, <2>1, <2>2 DEF L!Served!Create, L!Served!NoDocuments, L!NoFiles, L!Usable,
       L!Pending
  <2> QED
    BY <2>3 DEF L!Served!Next
<1> QED
  BY <1>3, <1>4, <1>5

(***************************************************************************)
(* Every step is a step of ServedDocuments, or changes nothing there.      *)
(***************************************************************************)
LEMMA ServesStep ==
    ASSUME BInv, [L!Next]_(L!vars)
    PROVE  [L!Served!Next]_(L!Served!vars)
<1>1. CASE L!StartUpload \/ L!StartDelete \/ L!StartRebuild
  BY <1>1, StartServes DEF L!Served!Next
<1>2. CASE L!DropKb
  BY <1>2, DropServes
<1>3. CASE L!FenceDelete \/ L!UndoFence \/ L!StartDrop \/ L!Create \/ L!Crash
  BY <1>3, LifeServes
<1>4. CASE L!SwitchActive /\ active' = job.id
  BY <1>4, SwitchServes
<1>5. ASSUME record' = record, L!Docs(active)' = L!Docs(active), jobs' = jobs, L!Pending'
         => L!Pending
      PROVE  [L!Served!Next]_(L!Served!vars)
  <2>1. L!Usable' = L!Usable
    BY <1>5 DEF L!Usable
  <2> QED
    BY <1>5, <2>1, QuietServes
<1>6. CASE L!SwitchActive /\ active' # job.id
  <2>1. L!Docs(active)' = L!Docs(active)
    BY <1>6, DiscardedDocs DEF L!SwitchActive, L!At, L!Ahead, BInv
  <2>2. record' = record /\ jobs' = jobs /\ L!Pending
    BY <1>6 DEF L!SwitchActive, L!At, L!Pending, L!Ahead
  <2> QED
    BY <1>5, <2>1, <2>2
<1>7. CASE L!Begin \/ L!Move \/ L!MarkMoved \/ L!Write \/ L!Build \/ L!Record
  <2>1. record' = record /\ jobs' = jobs /\ L!Pending /\ ~L!SwitchActive /\ ~L!DropDirectory
    <3>1. job # Nil /\ job.step \in {"begin", "move", "mark", "write", "build", "record"}
      BY <1>7 DEF L!Begin, L!Move, L!MarkMoved, L!Write, L!Build, L!Record, L!At
    <3>2. record' = record /\ jobs' = jobs
      BY <1>7 DEF L!Begin, L!Move, L!MarkMoved, L!Write, L!Build, L!Record
    <3> QED
      BY <3>1, <3>2 DEF L!Pending, L!Ahead, L!SwitchActive, L!DropDirectory, L!DropStep,
         L!At
  <2>2. L!Docs(active)' = L!Docs(active)
    BY <2>1, QuietDocs DEF BInv
  <2> QED
    BY <1>5, <2>1, <2>2
<1>8. CASE /\ ~L!StartUpload /\ ~L!StartDelete /\ ~L!StartRebuild /\ ~L!DropKb /\ ~L!SwitchActive
           /\ ~L!Begin /\ ~L!Move /\ ~L!MarkMoved /\ ~L!Write /\ ~L!Build /\ ~L!Record
           /\ record' = record
  <2>1. jobs' = jobs /\ (L!Pending' => L!Pending)
    BY <1>8, AwayStep DEF BInv, L!Pending
  <2>2. L!Docs(active)' = L!Docs(active)
    BY <1>8, QuietDocs DEF BInv, L!DropKb
  <2> QED
    BY <1>5, <1>8, <2>1, <2>2
<1>9. record' = record \/ ~(\/ L!CollectGeneration \/ L!Recovery \/ UNCHANGED L!vars
                            \/ L!MarkCommitted \/ L!Sweep \/ L!Clear
                            \/ L!Undo \/ L!UndoMark \/ L!UndoClear)
  BY DEF L!CollectGeneration, L!Recovery, L!MarkCommitted, L!Sweep, L!Clear, L!Undo,
     L!UndoMark, L!UndoClear, L!Restart, L!RecoverNext, L!RecoverForward, L!RecoverBack,
     L!RecoverDone, L!RecoverWrite, L!RecoverRemove, L!Started, L!disk, L!vars
<1> QED
  BY <1>1, <1>2, <1>3, <1>4, <1>6, <1>7, <1>8, <1>9 DEF L!Next, L!JobStep

LEMMA BInit == L!Init => BInv
<1> SUFFICES ASSUME L!Init PROVE BInv
  OBVIOUS
<1>1. BatchInv
  BY DEF L!Init, BatchInv, L!Pending
<1> QED
  BY <1>1, LocalInitInv DEF BInv

\* ServedDocuments, seen from L and from LocalState.
LEMMA SameServed ==
    /\ L!Served!Init <=> Served!Init
    /\ [L!Served!Next]_(L!Served!vars) <=> [Served!Next]_(Served!vars)
<1>1. /\ L!Paths = Paths /\ L!Docs(active) = Docs(active)
      /\ L!Usable = Usable /\ L!Pending = Pending
  BY DEF Docs, NoFiles, Paths, Usable, Pending, Ahead,
     L!Docs, L!NoFiles, L!Paths, L!Usable, L!Pending, L!Ahead
<1>2. /\ (L!Docs(active) = Docs(active))'
      /\ (L!Usable = Usable)' /\ (L!Pending = Pending)'
  BY DEF Docs, NoFiles, Paths, Usable, Pending, Ahead,
     L!Docs, L!NoFiles, L!Paths, L!Usable, L!Pending, L!Ahead
<1>3. L!Served!Init <=> Served!Init
  BY <1>1 DEF Served!Init, Served!NoDocuments, L!Served!Init, L!Served!NoDocuments
<1>4. L!Served!Next <=> Served!Next
  <2>1. L!Served!Begin <=> Served!Begin
    BY <1>1, <1>2 DEF Served!Begin, L!Served!Begin
  <2>2. L!Served!End <=> Served!End
    BY <1>1, <1>2 DEF Served!End, L!Served!End
  <2>3. ASSUME NEW batch PROVE L!Served!Upload(batch) <=> Served!Upload(batch)
    BY <1>1, <1>2, <2>2 DEF Served!Upload, L!Served!Upload
  <2>4. ASSUME NEW p PROVE L!Served!Remove(p) <=> Served!Remove(p)
    BY <1>1, <1>2, <2>2 DEF Served!Remove, L!Served!Remove
  <2>5. L!Served!Keep <=> Served!Keep
    BY <1>1, <1>2, <2>2 DEF Served!Keep, L!Served!Keep
  <2>6. L!Served!GiveUp <=> Served!GiveUp
    BY <1>1, <1>2 DEF Served!GiveUp, L!Served!GiveUp
  <2>7. L!Served!Erase <=> Served!Erase
    BY <1>1, <1>2 DEF Served!Erase, L!Served!Erase, Served!NoDocuments, L!Served!NoDocuments
  <2>8. L!Served!Create <=> Served!Create
    BY <1>1, <1>2 DEF Served!Create, L!Served!Create, Served!NoDocuments,
       L!Served!NoDocuments
  <2> QED
    BY <1>1, <2>1, <2>3, <2>4, <2>5, <2>6, <2>7, <2>8 DEF Served!Next, L!Served!Next
<1>5. L!Served!vars = Served!vars /\ (L!Served!vars = Served!vars)'
  BY <1>1, <1>2 DEF Served!vars, L!Served!vars
<1> QED
  BY <1>3, <1>4, <1>5

(***************************************************************************)
(* The knowledge base on a single node implements ServedDocuments: through *)
(* every failure of api/ingest.py, every rollback, crash and recovery, and *)
(* every deletion of the knowledge base that is begun, taken back or       *)
(* carried out, the documents that answers are drawn from change by a      *)
(* whole batch of uploads, by the one document of a deletion, or by the    *)
(* erasure of a knowledge base that was given up, and a version that was   *)
(* replaced or taken away never comes back.                                *)
(***************************************************************************)
THEOREM ServesWholeJobs == L!Spec => ImplementsDocuments
<1>1. L!Init => Served!Init
  <2>1. L!Init => L!Served!Init
    BY DEF L!Init, L!Served!Init, L!Served!NoDocuments, L!Docs, L!NoFiles, L!Usable,
       L!Pending
  <2> QED
    BY <2>1, SameServed
<1>2. BInv /\ [L!Next]_(L!vars) => [Served!Next]_(Served!vars)
  BY ServesStep, SameServed
<1>3. BInv /\ [L!Next]_(L!vars) => BInv'
  BY BStep
<1> QED
  BY <1>1, <1>2, <1>3, BInit, PTL DEF L!Spec, ImplementsDocuments, Served!Spec
=============================================================================
