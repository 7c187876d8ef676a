------------------------- MODULE IndexPipelineProofs -------------------------
(***************************************************************************)
(* Proofs about IndexPipeline, for any numbers of jobs, generations, workers *)
(* and producers and any bounds.  The pipeline is shown to implement both     *)
(* the queue and the generation store, so that what JobQueueProofs and        *)
(* IndexGenerationProofs prove holds of it as well; PInv adds                 *)
(*   BuildInv  a generation that was begun has a build and a token in range;  *)
(*   TaskInv   what a worker carries agrees with the row it claimed and with  *)
(*             the generation it works on.                                    *)
(***************************************************************************)
EXTENDS IndexPipeline, TLAPS

QP == INSTANCE JobQueueProofs WITH
         Keys <- Builds, Payloads <- Handoff

GP == INSTANCE IndexGenerationProofs WITH
         Readers <- {}, Collectors <- {}, ReaderLease <- 1

\* A generation row, and what a builder carries.
RowBuilt(row) ==
    row.status # "unborn" => row.build \in Builds /\ row.token \in 1..MaxTokens

Carries(v) == v.gen # None => v.token \in 1..MaxTokens

BuildInv ==
    /\ \A g \in Gens : RowBuilt(gens[g])
    /\ \A b \in Builders : Carries(work[b])

Task == [step : Steps, gen : Gens \union {None}, token : 0..MaxTokens]

LocalTypes ==
    /\ task \in [Workers -> Task]
    /\ faults \in 0..MaxFaults
    /\ reruns \in 0..MaxReruns

TaskOK(w) ==
    /\ task[w].step # "none" => task[w].gen \in Gens
    /\ held[w] # None /\ jobs[held[w].job].status # "pruned" =>
          task[w].gen = jobs[held[w].job].payload.gen
    /\ task[w].step = "run" => work[w].gen = task[w].gen
    /\ task[w].step \in {"done", "replayed"} =>
          gens[task[w].gen].status = "published"

TaskInv == \A w \in Workers : TaskOK(w)

PInv ==
    /\ QP!IInv
    /\ GP!IInv
    /\ LocalTypes
    /\ BuildInv
    /\ TaskInv
    /\ SucceededPublished

-----------------------------------------------------------------------------
(* The two instances of the queue, Q and the one under QP, are the same ... *)

LEMMA SameInit == Q!Init => QP!Init
  BY DEF Q!Init, QP!Init, Q!Absent, QP!Absent, Q!AllKeys, QP!AllKeys,
         Q!ReplayIds, QP!ReplayIds

LEMMA SameType == QP!TypeOK => Q!TypeOK
  BY DEF Q!TypeOK, QP!TypeOK, Q!Row, QP!Row, Q!KeyRow, QP!KeyRow, Q!Holding, QP!Holding,
         Q!AllKeys, QP!AllKeys, Q!ReplayIds, QP!ReplayIds, Q!InTable, QP!InTable,
         Q!Waiting, QP!Waiting, Q!Terminal, QP!Terminal, Q!Clocks, QP!Clocks

LEMMA SameProduce == Q!Produce => QP!Produce
<1>1. \A j, k, p, src, ready : Q!Insert(j, k, p, src, ready) => QP!Insert(j, k, p, src, ready)
  BY ZenonT(30) DEF Q!Insert, QP!Insert, Q!NewRow, QP!NewRow, Q!Absent, QP!Absent
<1>2. \A i : Q!Stored(i) <=> QP!Stored(i)
  BY DEF Q!Stored, QP!Stored, Q!InTable, QP!InTable, Q!Waiting, QP!Waiting,
         Q!Terminal, QP!Terminal
<1>3. \A j, k, p, ready : Q!Enqueue(j, k, p, ready) => QP!Enqueue(j, k, p, ready)
  BY <1>1, <1>2, Zenon DEF Q!Enqueue, QP!Enqueue
<1>4. \A j, p, ready : Q!EnqueueUnkeyed(j, p, ready) => QP!EnqueueUnkeyed(j, p, ready)
  BY <1>1, Zenon DEF Q!EnqueueUnkeyed, QP!EnqueueUnkeyed
<1>5. \A j, s, rk : Q!ReplayDeadLetter(j, s, rk) => QP!ReplayDeadLetter(j, s, rk)
  BY <1>1, <1>2, Zenon DEF Q!ReplayDeadLetter, QP!ReplayDeadLetter
<1>6. \A j : Q!RequestCancel(j) => QP!RequestCancel(j)
  BY Zenon DEF Q!RequestCancel, QP!RequestCancel, Q!Waiting, QP!Waiting, Q!Finished, QP!Finished
<1> QED
  BY <1>3, <1>4, <1>5, <1>6, ZenonT(30) DEF Q!Produce, QP!Produce

LEMMA SameClaim == Q!ClaimSome => QP!ClaimSome
  BY ZenonT(30)
  DEF Q!ClaimSome, QP!ClaimSome, Q!Claim, QP!Claim, Q!Claimable, QP!Claimable,
      Q!NewToken, QP!NewToken, Q!Past, QP!Past, Q!Delays, QP!Delays, Q!Waiting, QP!Waiting

LEMMA SameWorker ==
    ASSUME NEW w \in Workers
    PROVE  /\ Q!Work(w) => QP!Work(w)
           /\ Q!Drop(w) => QP!Drop(w)
           /\ Q!HeartbeatLost(w) => QP!HeartbeatLost(w)
           /\ \A d \in Q!Delays : Q!Heartbeat(w, d) => d \in QP!Delays /\ QP!Heartbeat(w, d)
<1>1. Q!Work(w) => QP!Work(w)
  BY ZenonT(30)
  DEF Q!Work, QP!Work, Q!Complete, QP!Complete, Q!Fail, QP!Fail, Q!Finish, QP!Finish,
      Q!FinishStatus, QP!FinishStatus, Q!Released, QP!Released, Q!Finished, QP!Finished,
      Q!Owns, QP!Owns, Q!Past, QP!Past, Q!Delays, QP!Delays, Q!Terminal, QP!Terminal
<1>2. Q!Drop(w) => QP!Drop(w)
  BY Zenon DEF Q!Drop, QP!Drop
<1>3. Q!HeartbeatLost(w) => QP!HeartbeatLost(w)
  BY Zenon DEF Q!HeartbeatLost, QP!HeartbeatLost
<1>4. \A d \in Q!Delays : Q!Heartbeat(w, d) => d \in QP!Delays /\ QP!Heartbeat(w, d)
  BY Zenon DEF Q!Heartbeat, QP!Heartbeat, Q!Owns, QP!Owns, Q!Past, QP!Past, Q!Delays, QP!Delays
<1> QED
  BY <1>1, <1>2, <1>3, <1>4

LEMMA SameReap == Q!ReapSome => QP!ReapSome
<1> SUFFICES ASSUME NEW S \in SUBSET Jobs, NEW d \in Q!Delays, Q!ReapExpired(S, d)
             PROVE  d \in QP!Delays /\ QP!ReapExpired(S, d)
  BY DEF Q!ReapSome, QP!ReapSome
<1>1. Q!Expired(d) = QP!Expired(d)
  BY DEF Q!Expired, QP!Expired, Q!Past, QP!Past
<1>2. \A j \in Jobs :
         /\ Q!ReapStatus(jobs[j]) = QP!ReapStatus(jobs[j])
         /\ Q!Released(jobs[j], Q!ReapStatus(jobs[j]), -d)
               = QP!Released(jobs[j], QP!ReapStatus(jobs[j]), -d)
  BY DEF Q!Released, QP!Released, Q!Finished, QP!Finished, Q!Terminal, QP!Terminal,
         Q!ReapStatus, QP!ReapStatus
<1>3. Q!Terminal = QP!Terminal /\ d \in QP!Delays
  BY DEF Q!Terminal, QP!Terminal, Q!Delays, QP!Delays
<1> QED
  BY <1>1, <1>2, <1>3, SMT
  DEF Q!ReapExpired, QP!ReapExpired, Q!IsBatch, QP!IsBatch, Q!Cardinality, QP!Cardinality

LEMMA SamePrune == Q!PruneSome => QP!PruneSome
<1> SUFFICES ASSUME NEW S \in SUBSET Jobs, Q!PruneTerminal(S)
             PROVE  QP!PruneTerminal(S)
  BY DEF Q!PruneSome, QP!PruneSome
<1>1. Q!Stale = QP!Stale
  BY DEF Q!Stale, QP!Stale, Q!Past, QP!Past, Q!Terminal, QP!Terminal
<1>2. Q!Absent("pruned") = QP!Absent("pruned")
  BY DEF Q!Absent, QP!Absent
<1>3. \A k : Q!Tombstone(k, S) = QP!Tombstone(k, S)
  BY Zenon DEF Q!Tombstone, QP!Tombstone
<1>4. Q!AllKeys = QP!AllKeys
  BY DEF Q!AllKeys, QP!AllKeys, Q!ReplayIds, QP!ReplayIds
<1> QED
  BY <1>1, <1>2, <1>3, <1>4, SMT
  DEF Q!PruneTerminal, QP!PruneTerminal, Q!IsBatch, QP!IsBatch,
      Q!Cardinality, QP!Cardinality, Q!PruneOrder, QP!PruneOrder

LEMMA SameTick == Q!Tick => QP!Tick
  BY ZenonT(30)
  DEF Q!Tick, QP!Tick, Q!Elapse, QP!Elapse, Q!Nearer, QP!Nearer,
      Q!Waiting, QP!Waiting, Q!Terminal, QP!Terminal

LEMMA SameNext == Q!Next => QP!Next
  BY SameProduce, SameClaim, SameWorker, SameReap, SamePrune, SameTick, Zenon
  DEF Q!Next, QP!Next

\* What the proofs about the queue show of its steps, for this instance.
LEMMA QueueInit == Q!Init => QP!IInv
  BY SameInit, PipelineAssumption, QP!InitInv
  DEF QP!ReplayIds, QP!Holding, QP!AllKeys, QP!KeyRow, Q!Holding, Q!KeyRow,
      Q!Terminal, QP!Terminal

LEMMA QueueStep ==
    ASSUME QP!IInv, [Q!Next]_qvars
    PROVE  QP!IInv'
<1>1. [QP!Next]_(QP!vars)
  BY SameNext DEF qvars, QP!vars
<1> QED
  BY <1>1, PipelineAssumption, QP!NextInv
  DEF QP!ReplayIds, QP!Holding, QP!AllKeys, QP!KeyRow, Q!Holding, Q!KeyRow,
      Q!Terminal, QP!Terminal

-----------------------------------------------------------------------------
(* ... and so are the two instances of the generation store. *)

LEMMA SameGenInit == G!Init => GP!Init
  BY Zenon DEF G!Init, GP!Init, G!NoRow, GP!NoRow, G!Idle, GP!Idle, G!Resting, GP!Resting

LEMMA SameGenType == GP!TypeOK => G!TypeOK
  BY DEF G!TypeOK, GP!TypeOK, G!Row, GP!Row, G!Work, GP!Work, G!ReaderRow, GP!ReaderRow,
         G!Collection, GP!Collection, G!Statuses, GP!Statuses, G!Open, GP!Open,
         G!Closed, GP!Closed, G!Clocks, GP!Clocks, G!Floor, GP!Floor, G!Owners, GP!Owners

LEMMA SameBegin ==
    ASSUME NEW b \in Builders, G!Begin(b)
    PROVE  GP!Begin(b)
  BY ZenonT(30)
  DEF G!Begin, GP!Begin, G!BeginNew, GP!BeginNew, G!BeginAgain, GP!BeginAgain,
      G!BeginExpired, GP!BeginExpired, G!Resume, GP!Resume, G!HandOver, GP!HandOver,
      G!Carry, GP!Carry, G!Rotated, GP!Rotated, G!Existing, GP!Existing, G!NoRow, GP!NoRow,
      G!Idle, GP!Idle, G!Past, GP!Past, G!Open, GP!Open, G!Delays, GP!Delays

LEMMA SameBuild ==
    ASSUME NEW b \in Builders, G!Build(b)
    PROVE  GP!Build(b)
  BY ZenonT(30)
  DEF G!Build, GP!Build, G!Prepare, GP!Prepare, G!Check, GP!Check, G!Publish, GP!Publish,
      G!Publishable, GP!Publishable, G!Verified, GP!Verified, G!Live, GP!Live,
      G!Rebuild, GP!Rebuild, G!Adopt, GP!Adopt, G!Upload, GP!Upload,
      G!PutMarker, GP!PutMarker, G!Idle, GP!Idle, G!Past, GP!Past, G!Open, GP!Open,
      G!Delays, GP!Delays

LEMMA SameKeep ==
    ASSUME NEW b \in Builders, NEW d \in G!Delays
    PROVE  /\ G!Heartbeat(b, d) => d \in GP!Delays /\ GP!Heartbeat(b, d)
           /\ G!Abort(b, d) => d \in GP!Delays /\ GP!Abort(b, d)
           /\ G!Quit(b) => GP!Quit(b)
  BY ZenonT(30)
  DEF G!Heartbeat, GP!Heartbeat, G!Abort, GP!Abort, G!Quit, GP!Quit, G!Live, GP!Live,
      G!Idle, GP!Idle, G!Past, GP!Past, G!Open, GP!Open, G!Delays, GP!Delays

LEMMA SameGenTick == G!Tick => GP!Tick
  BY ZenonT(30)
  DEF G!Tick, GP!Tick, G!Elapse, GP!Elapse, G!Nearer, GP!Nearer, G!Floor, GP!Floor,
      G!Open, GP!Open, G!Closed, GP!Closed

LEMMA SameGenNext == G!Next => GP!Next
<1> SUFFICES ASSUME G!Next PROVE GP!Next
  OBVIOUS
<1>1. ASSUME NEW b \in Builders, G!Quit(b)
      PROVE  GP!Quit(b)
  BY <1>1, Zenon DEF G!Quit, GP!Quit, G!Idle, GP!Idle
<1>2. ~(\E d \in G!Delays : G!PruneReaders(d))
  BY DEF G!PruneReaders
<1> QED
  BY <1>1, <1>2, SameBegin, SameBuild, SameKeep, SameGenTick, Zenon DEF G!Next, GP!Next

LEMMA GenAssumptions ==
    /\ Lease \in Nat \ {0} /\ 1 \in Nat \ {0} /\ Retention \in Nat /\ Lag \in Nat
    /\ MaxTokens \in Nat \ {0}
    /\ None \notin Gens \union Contents \union Builds
    /\ None \notin GP!ReaderRow
  BY PipelineAssumption DEF G!ReaderRow, GP!ReaderRow, G!Clocks, GP!Clocks, G!Floor, GP!Floor

\* What the proofs about the generations show of their steps, for this instance.
LEMMA GenInit == G!Init => GP!IInv
  BY SameGenInit, GenAssumptions, GP!InitIInv

LEMMA GenStep ==
    ASSUME GP!IInv, [G!Next]_gvars
    PROVE  GP!IInv'
<1>1. [GP!Next]_(GP!vars)
  BY SameGenNext DEF gvars, GP!vars
<1> QED
  BY <1>1, GenAssumptions, GP!NextIInv

-----------------------------------------------------------------------------
(* Refinement *)

\* A begun generation has the build and the token that a job is keyed by and
\* carries, so a hand-off is a call that the queue offers.
LEMMA HandoffOK ==
    ASSUME GP!IInv, BuildInv, NEW p \in Producers, work[p].pc = "check"
    PROVE  /\ gens[work[p].gen].build \in Builds
           /\ [gen |-> work[p].gen, token |-> work[p].token] \in Handoff
<1>1. p \in Builders /\ work[p] \in GP!Work
  BY DEF GP!IInv, GP!TypeOK, Builders
<1>2. work[p].gen # None /\ work[p].gen \in Gens
  BY <1>1 DEF GP!IInv, GP!WorkInv, GP!WorkOK, GP!Work
<1>3. gens[work[p].gen].status # "unborn"
  BY <1>1, <1>2 DEF GP!IInv, GP!WorkInv, GP!WorkOK
<1> QED
  BY <1>1, <1>2, <1>3 DEF BuildInv, RowBuilt, Carries, Handoff

\* Every step of the pipeline is a step of the queue or leaves it alone.
LEMMA StepIsQueue ==
    ASSUME GP!IInv, BuildInv, [Next]_vars
    PROVE  [Q!Next]_qvars
<1>1. ASSUME NEW p \in Producers, Produce(p)
      PROVE  [Q!Next]_qvars
  <2>1. ASSUME NEW j \in Jobs, Enqueue(p, j)
        PROVE  [Q!Next]_qvars
    <3> DEFINE body == [gen |-> work[p].gen, token |-> work[p].token]
    <3>1. gens[work[p].gen].build \in Builds /\ body \in Handoff
      BY <2>1, HandoffOK DEF Enqueue
    <3>2. Q!Enqueue(j, gens[work[p].gen].build, body, 0) \/ UNCHANGED qvars
      BY <2>1 DEF Enqueue
    <3>3. 0 \in 0..MaxBackoff
      BY PipelineAssumption
    <3> HIDE DEF body
    <3> QED
      BY <3>1, <3>2, <3>3 DEF Q!Next, Q!Produce
  <2> QED
    BY <1>1, <2>1 DEF Produce, PrepareGeneration, Rerun, GiveUp
<1>2. CASE ClaimSome
  BY <1>2 DEF ClaimSome, Claim, Q!Next, Q!ClaimSome, Q!Delays
<1>3. ASSUME NEW w \in Workers, Execute(w)
      PROVE  [Q!Next]_qvars
  <2>1. ASSUME NEW d \in 0..Lag, Finish(w, d)
        PROVE  Q!Next
    BY <2>1 DEF Finish, Q!Next, Q!Work, Q!Delays
  <2> QED
    BY <1>3, <2>1 DEF Execute, Get, Renew, Resume, Verify, Publish, Refused
<1>4. ASSUME NEW w \in Workers, NEW d \in 0..Lag,
             KeepJob(w, d) \/ KeepGeneration(w, d) \/ KeepFails(w, d)
      PROVE  [Q!Next]_qvars
  BY <1>4 DEF KeepJob, KeepGeneration, KeepFails, Q!Next, Q!Delays
<1>5. ASSUME NEW w \in Workers, Fault(w)
      PROVE  [Q!Next]_qvars
  BY <1>5 DEF Fault, Q!Next
<1>6. CASE Operate \/ Reap \/ Prune
  BY <1>6 DEF Operate, Reap, Prune, Q!Next, Q!Produce
<1>7. CASE Tick
  BY <1>7 DEF Tick, Q!Next, Q!Tick, Q!Elapse, qvars
<1>8. CASE UNCHANGED vars
  BY <1>8 DEF vars
<1> QED
  BY <1>1, <1>2, <1>3, <1>4, <1>5, <1>6, <1>7, <1>8 DEF Next, Keep

\* Every step of the pipeline is a step of the generation store or leaves it
\* alone.
LEMMA StepIsGeneration ==
    ASSUME GP!IInv, TaskInv, [Next]_vars
    PROVE  [G!Next]_gvars
<1>1. ASSUME NEW b \in Builders, G!Begin(b) \/ G!Build(b) \/ G!Quit(b)
      PROVE  G!Next
  BY <1>1 DEF G!Next
<1>2. Workers \subseteq Builders /\ Producers \subseteq Builders
  BY DEF Builders
<1>3. ASSUME NEW p \in Producers, Produce(p)
      PROVE  G!Next
  <2>1. CASE PrepareGeneration(p)
    BY <1>1, <1>2, <2>1 DEF PrepareGeneration, G!Begin, G!Build, G!Delays
  <2>2. CASE Rerun(p)
    BY <1>1, <1>2, <2>2 DEF Rerun, G!Begin, G!Delays
  <2>3. CASE GiveUp(p) \/ \E j \in Jobs : Enqueue(p, j)
    BY <1>1, <1>2, <2>3 DEF GiveUp, Enqueue
  <2> QED
    BY <1>3, <2>1, <2>2, <2>3 DEF Produce
<1>4. CASE ClaimSome
  BY <1>4 DEF ClaimSome, Claim
<1>5. ASSUME NEW w \in Workers, Execute(w)
      PROVE  [G!Next]_gvars
  <2>1. CASE Get(w)
    BY <2>1 DEF Get
  <2>2. ASSUME NEW d \in 0..Lag, Renew(w, d) \/ Resume(w, d)
        PROVE  [G!Next]_gvars
    <3>1. /\ task[w].step # "none"
          /\ \/ UNCHANGED gvars
             \/ G!HandOver(w, task[w].gen, d) \/ G!Resume(w, task[w].gen, d)
      BY <2>2 DEF Renew, Resume
    <3>2. task[w].gen \in Gens
      BY <3>1 DEF TaskInv, TaskOK
    <3> QED
      BY <1>1, <1>2, <3>1, <3>2 DEF G!Begin, G!Delays
  <2>3. ASSUME NEW d \in 0..Lag, Verify(w, d) \/ Publish(w, d)
        PROVE  G!Next
    BY <1>1, <1>2, <2>3 DEF Verify, Publish, G!Build, G!Delays
  <2>4. ASSUME NEW d \in 0..Lag, Refused(w, d)
        PROVE  G!Next
    BY <1>1, <1>2, <2>4 DEF Refused
  <2>5. ASSUME NEW d \in 0..Lag, Finish(w, d)
        PROVE  UNCHANGED gvars
    BY <2>5 DEF Finish
  <2> QED
    BY <1>5, <2>1, <2>2, <2>3, <2>4, <2>5 DEF Execute
<1>6. ASSUME NEW w \in Workers, NEW d \in 0..Lag,
             KeepJob(w, d) \/ KeepGeneration(w, d) \/ KeepFails(w, d)
      PROVE  [G!Next]_gvars
  BY <1>2, <1>6 DEF KeepJob, KeepGeneration, KeepFails, G!Next, G!Delays
<1>7. ASSUME NEW w \in Workers, Fault(w)
      PROVE  [G!Next]_gvars
  BY <1>1, <1>2, <1>7 DEF Fault
<1>8. CASE Operate \/ Reap \/ Prune
  BY <1>8 DEF Operate, Reap, Prune
<1>9. CASE Tick
  <2>1. G!Elapse
    BY <1>9 DEF Tick
  <2>2. readers' = readers
    BY <2>1 DEF G!Elapse, GP!IInv, GP!TypeOK
  <2>3. G!Elapse => UNCHANGED <<head, files, marker, work, gc>>
    BY DEF G!Elapse
  <2>4. CASE gens' = gens
    BY <2>1, <2>2, <2>3, <2>4 DEF gvars
  <2>5. CASE gens' # gens
    BY <2>1, <2>5 DEF G!Next, G!Tick
  <2> QED
    BY <2>4, <2>5
<1>10. CASE UNCHANGED vars
  BY <1>10 DEF vars
<1> QED
  BY <1>3, <1>4, <1>5, <1>6, <1>7, <1>8, <1>9, <1>10 DEF Next, Keep

-----------------------------------------------------------------------------
(* Steps of the generation store *)

\* Without collectors a published generation stays published.
Kept == \A g \in Gens : gens[g].status = "published" => gens'[g].status = "published"

LEMMA RowPatch ==
    ASSUME GP!TypeOK, BuildInv, NEW g \in Gens, NEW row,
           gens' = [gens EXCEPT ![g] = row], RowBuilt(row),
           gens[g].status = "published" => row.status = "published"
    PROVE  (\A h \in Gens : RowBuilt(gens'[h])) /\ Kept
<1>1. \A h \in Gens : gens'[h] = IF h = g THEN row ELSE gens[h]
  BY DEF GP!TypeOK
<1> QED
  BY <1>1 DEF BuildInv, Kept

LEMMA WorkPatch ==
    ASSUME GP!TypeOK, BuildInv, NEW b \in Builders, NEW v,
           work' = [work EXCEPT ![b] = v], Carries(v)
    PROVE  \A c \in Builders : Carries(work'[c])
<1>1. \A c \in Builders : work'[c] = IF c = b THEN v ELSE work[c]
  BY DEF GP!TypeOK
<1> QED
  BY <1>1 DEF BuildInv

LEMMA CarryPatch ==
    ASSUME GP!TypeOK, BuildInv, NEW b \in Builders, NEW g, NEW row,
           G!Carry(b, g, row), row.token \in 1..MaxTokens
    PROVE  \A c \in Builders : Carries(work'[c])
<1> DEFINE v == [G!Idle EXCEPT !.pc = "begun", !.gen = g, !.token = row.token,
                               !.manifest = row.manifest]
<1>1. v.token = row.token
  BY DEF G!Idle
<1>2. work' = [work EXCEPT ![b] = v]
  BY DEF G!Carry
<1>3. Carries(v)
  BY <1>1 DEF Carries
<1> HIDE DEF v
<1> QED
  BY <1>2, <1>3, WorkPatch

LEMMA BeginBuilds ==
    ASSUME GP!TypeOK, BuildInv, NEW b \in Builders, G!Begin(b)
    PROVE  BuildInv' /\ Kept
<1>0. /\ gens \in [Gens -> GP!Row] /\ 1 \in 1..MaxTokens
      /\ \A g \in Gens : gens[g] \in GP!Row /\ RowBuilt(gens[g])
  BY PipelineAssumption DEF GP!TypeOK, BuildInv
<1>1. ASSUME NEW g \in Gens, NEW build \in Builds, NEW d \in G!Delays,
             G!BeginNew(b, g, build, d)
      PROVE  BuildInv' /\ Kept
  <2> DEFINE row == [G!NoRow("building") EXCEPT
                       !.build = build, !.base = head.current,
                       !.fence = head.fence + 1, !.owner = OwnerOf[b],
                       !.token = 1, !.lease = Lease - d]
  <2>1. gens[g].status = "unborn" /\ gens' = [gens EXCEPT ![g] = row] /\ G!Carry(b, g, row)
    BY <1>1 DEF G!BeginNew
  <2>2. row.build = build /\ row.token = 1
    BY DEF G!NoRow
  <2> HIDE DEF row
  <2>3. RowBuilt(row)
    BY <1>0, <2>2 DEF RowBuilt
  <2> QED
    BY <1>0, <2>1, <2>2, <2>3, RowPatch, CarryPatch DEF BuildInv
<1>2. ASSUME NEW g \in Gens, NEW d, G!BeginAgain(b, g, d)
      PROVE  BuildInv' /\ Kept
  <2>1. gens[g].status # "unborn" /\ G!Carry(b, g, gens[g]) /\ gens' = gens
    BY <1>2 DEF G!BeginAgain, G!Open
  <2> QED
    BY <1>0, <2>1, CarryPatch DEF BuildInv, RowBuilt, Kept
<1>3. ASSUME NEW g \in Gens, NEW d, G!BeginExpired(b, g, d) \/ G!Resume(b, g, d)
      PROVE  BuildInv' /\ Kept
  <2> DEFINE row == G!Rotated(gens[g], OwnerOf[b], d)
  <2>1. /\ gens[g].status \in G!Open \union {"aborted"} /\ gens[g].token < MaxTokens
        /\ gens' = [gens EXCEPT ![g] = row] /\ G!Carry(b, g, row)
    BY <1>3 DEF G!BeginExpired, G!Resume
  <2>2. /\ row.status = gens[g].status /\ row.build = gens[g].build
        /\ row.token = gens[g].token + 1
    BY <1>0 DEF G!Rotated, GP!Row
  <2> HIDE DEF row
  <2>3. row.build \in Builds /\ row.token \in 1..MaxTokens
    BY <1>0, <2>1, <2>2, PipelineAssumption DEF RowBuilt, G!Open
  <2>4. RowBuilt(row)
    BY <2>3 DEF RowBuilt
  <2> QED
    BY <2>1, <2>2, <2>3, <2>4, RowPatch, CarryPatch DEF BuildInv, G!Open
<1>4. ASSUME NEW g \in Gens, NEW d, G!HandOver(b, g, d)
      PROVE  BuildInv' /\ Kept
  <2> DEFINE row == [gens[g] EXCEPT !.lease = Lease - d]
  <2>1. gens[g].status # "unborn" /\ gens' = [gens EXCEPT ![g] = row] /\ G!Carry(b, g, row)
    BY <1>4 DEF G!HandOver, G!Open
  <2>2. /\ row.status = gens[g].status /\ row.build = gens[g].build
        /\ row.token = gens[g].token
    BY <1>0 DEF GP!Row
  <2> HIDE DEF row
  <2>3. RowBuilt(row) /\ row.token \in 1..MaxTokens
    BY <1>0, <2>1, <2>2 DEF RowBuilt
  <2> QED
    BY <2>1, <2>2, <2>3, RowPatch, CarryPatch DEF BuildInv
<1> QED
  BY <1>1, <1>2, <1>3, <1>4 DEF G!Begin

\* The other steps of a builder keep the build, the token and the generation.
LEMMA BuilderKeeps ==
    ASSUME GP!IInv, BuildInv, NEW b \in Builders,
           \/ G!Build(b) \/ G!Quit(b)
           \/ \E d \in G!Delays : G!Heartbeat(b, d) \/ G!Abort(b, d)
    PROVE  BuildInv' /\ Kept
<1> DEFINE g == work[b].gen
<1>0. /\ GP!TypeOK /\ gens \in [Gens -> GP!Row] /\ work[b] \in GP!Work /\ Carries(work[b])
      /\ \A h \in Gens : gens[h] \in GP!Row /\ RowBuilt(gens[h])
  BY DEF GP!IInv, GP!TypeOK, BuildInv
<1>1. gens' = gens \/ \E row : /\ g \in Gens /\ gens' = [gens EXCEPT ![g] = row]
                               /\ row.build = gens[g].build /\ row.token = gens[g].token
                               /\ gens[g].status \in G!Open
  <2>1. ASSUME NEW d, G!Live(b, G!Open, d) PROVE g \in Gens /\ gens[g].status \in G!Open
    BY <1>0, <2>1 DEF G!Live, GP!Work
  <2>2. ASSUME NEW d, G!Heartbeat(b, d)
        PROVE  /\ g \in Gens /\ gens[g].status \in G!Open
               /\ gens' = [gens EXCEPT ![g] = [gens[g] EXCEPT !.lease = Lease - d]]
    BY <2>1, <2>2 DEF G!Heartbeat
  <2>3. ASSUME NEW d, G!Abort(b, d)
        PROVE  /\ g \in Gens /\ gens[g].status \in G!Open
               /\ gens' = [gens EXCEPT ![g] = [gens[g] EXCEPT !.status = "aborted",
                                                 !.lease = -d, !.ended = -d]]
    BY <1>0, <2>1, <2>3 DEF G!Abort
  <2>4. ASSUME NEW c, NEW d, G!Prepare(b, c, d)
        PROVE  /\ g \in Gens /\ gens[g].status \in G!Open
               /\ \/ gens' = gens
                  \/ gens' = [gens EXCEPT ![g] = [gens[g] EXCEPT !.status = "prepared",
                                                                 !.manifest = c]]
    BY <2>1, <2>4 DEF G!Prepare
  <2>5. ASSUME NEW d, G!Publish(b, d)
        PROVE  /\ g \in Gens /\ gens[g].status \in G!Open
               /\ gens' = [gens EXCEPT ![g] = [gens[g] EXCEPT !.status = "published",
                                                 !.lease = -d, !.ended = -d]]
    BY <1>0, <2>5 DEF G!Publish, G!Publishable, G!Live, G!Open, GP!Work
  <2>6. G!Quit(b) \/ G!Adopt(b) \/ G!PutMarker(b) \/ (\E d \in G!Delays : G!Check(b, d))
        \/ (\E c \in Contents : G!Rebuild(b, c)) \/ (\E f \in Files : G!Upload(b, f))
        => gens' = gens
    BY DEF G!Quit, G!Adopt, G!PutMarker, G!Check, G!Rebuild, G!Upload
  <2>7. \A st, l, e : g \in Gens =>
           LET row == [gens[g] EXCEPT !.status = st, !.lease = l, !.ended = e]
           IN  row.build = gens[g].build /\ row.token = gens[g].token
    BY <1>0 DEF GP!Row
  <2>8. \A l : g \in Gens =>
           LET row == [gens[g] EXCEPT !.lease = l]
           IN  row.build = gens[g].build /\ row.token = gens[g].token
    BY <1>0 DEF GP!Row
  <2>9. \A st, c : g \in Gens =>
           LET row == [gens[g] EXCEPT !.status = st, !.manifest = c]
           IN  row.build = gens[g].build /\ row.token = gens[g].token
    BY <1>0 DEF GP!Row
  <2> HIDE DEF g
  <2>10. ASSUME NEW d, G!Heartbeat(b, d)
         PROVE  \E row : /\ g \in Gens /\ gens' = [gens EXCEPT ![g] = row]
                         /\ row.build = gens[g].build /\ row.token = gens[g].token
                         /\ gens[g].status \in G!Open
    BY <2>2, <2>8, <2>10
  <2>11. ASSUME NEW d, G!Abort(b, d) \/ G!Publish(b, d)
         PROVE  \E row : /\ g \in Gens /\ gens' = [gens EXCEPT ![g] = row]
                         /\ row.build = gens[g].build /\ row.token = gens[g].token
                         /\ gens[g].status \in G!Open
    <3>1. PICK st : /\ g \in Gens /\ gens[g].status \in G!Open
                    /\ gens' = [gens EXCEPT ![g] = [gens[g] EXCEPT !.status = st,
                                                      !.lease = -d, !.ended = -d]]
      BY <2>3, <2>5, <2>11
    <3> DEFINE row == [gens[g] EXCEPT !.status = st, !.lease = -d, !.ended = -d]
    <3>2. row.build = gens[g].build /\ row.token = gens[g].token
      BY <2>7, <3>1
    <3>3. gens' = [gens EXCEPT ![g] = row]
      BY <3>1
    <3> HIDE DEF row
    <3> QED
      BY <3>1, <3>2, <3>3
  <2>12. ASSUME NEW c, NEW d, G!Prepare(b, c, d)
         PROVE  \/ gens' = gens
                \/ \E row : /\ g \in Gens /\ gens' = [gens EXCEPT ![g] = row]
                            /\ row.build = gens[g].build /\ row.token = gens[g].token
                            /\ gens[g].status \in G!Open
    BY <2>4, <2>9, <2>12
  <2> QED
    BY <2>6, <2>10, <2>11, <2>12, Zenon DEF G!Build
<1>2. work' = work \/ \E v : /\ work' = [work EXCEPT ![b] = v]
                             /\ v.gen = None \/ (v.gen = work[b].gen /\ v.token = work[b].token)
  <2>1. G!Idle.gen = None
    BY DEF G!Idle
  <2>2. ASSUME NEW d, G!Heartbeat(b, d) PROVE work' = work
    BY <2>2 DEF G!Heartbeat
  <2>3. ASSUME NEW d, G!Quit(b) \/ G!Abort(b, d) \/ G!Publish(b, d)
        PROVE  work' = [work EXCEPT ![b] = G!Idle]
    BY <2>3 DEF G!Quit, G!Abort, G!Publish
  <2>4. ASSUME NEW d, G!Adopt(b) \/ G!PutMarker(b) \/ G!Check(b, d)
        PROVE  \E st : work' = [work EXCEPT ![b] = [work[b] EXCEPT !.pc = st]]
    BY <2>4 DEF G!Adopt, G!PutMarker, G!Check
  <2>5. ASSUME NEW c, NEW d, G!Prepare(b, c, d)
        PROVE  work' = [work EXCEPT ![b] = [work[b] EXCEPT !.pc = "upload", !.manifest = c,
                                                           !.content = c]]
    BY <2>5 DEF G!Prepare
  <2>6. ASSUME NEW c, G!Rebuild(b, c)
        PROVE  work' = [work EXCEPT ![b] = [work[b] EXCEPT !.pc = "upload", !.content = c]]
    BY <2>6 DEF G!Rebuild
  <2>7. ASSUME NEW f, G!Upload(b, f)
        PROVE  work' = [work EXCEPT ![b] = [work[b] EXCEPT !.done = work[b].done \union {f}]]
    BY <2>7 DEF G!Upload
  <2> DEFINE Same(v) == v.gen = work[b].gen /\ v.token = work[b].token
  <2>8. /\ \A st : Same([work[b] EXCEPT !.pc = st])
        /\ \A c : Same([work[b] EXCEPT !.pc = "upload", !.manifest = c, !.content = c])
        /\ \A c : Same([work[b] EXCEPT !.pc = "upload", !.content = c])
        /\ \A x : Same([work[b] EXCEPT !.done = x])
    BY <1>0 DEF GP!Work
  <2> HIDE DEF Same
  <2>9. work' = work \/ \E v : work' = [work EXCEPT ![b] = v] /\ (v.gen = None \/ Same(v))
    <3>1. ASSUME NEW d \in G!Delays, G!Heartbeat(b, d) \/ G!Abort(b, d)
          PROVE  work' = work \/ \E v : work' = [work EXCEPT ![b] = v] /\ (v.gen = None \/ Same(v))
      BY <2>1, <2>2, <2>3, <3>1
    <3>2. ASSUME G!Quit(b)
          PROVE  \E v : work' = [work EXCEPT ![b] = v] /\ v.gen = None
      BY <2>1, <2>3, <3>2
    <3>3. ASSUME NEW d \in G!Delays, G!Publish(b, d)
          PROVE  \E v : work' = [work EXCEPT ![b] = v] /\ v.gen = None
      BY <2>1, <2>3, <3>3
    <3>4. ASSUME NEW d \in G!Delays, G!Adopt(b) \/ G!PutMarker(b) \/ G!Check(b, d)
          PROVE  \E v : work' = [work EXCEPT ![b] = v] /\ Same(v)
      BY <2>4, <2>8, <3>4
    <3>5. ASSUME NEW c \in Contents, NEW d \in G!Delays, G!Prepare(b, c, d)
          PROVE  \E v : work' = [work EXCEPT ![b] = v] /\ Same(v)
      BY <2>5, <2>8, <3>5
    <3>6. ASSUME NEW c \in Contents, G!Rebuild(b, c)
          PROVE  \E v : work' = [work EXCEPT ![b] = v] /\ Same(v)
      BY <2>6, <2>8, <3>6
    <3>7. ASSUME NEW f \in Files, G!Upload(b, f)
          PROVE  \E v : work' = [work EXCEPT ![b] = v] /\ Same(v)
      BY <2>7, <2>8, <3>7
    <3>8. 0 \in G!Delays
      BY PipelineAssumption DEF G!Delays
    <3> QED
      BY <3>1, <3>2, <3>3, <3>4, <3>5, <3>6, <3>7, <3>8, Zenon DEF G!Build
  <2> QED
    BY <2>9 DEF Same
<1> HIDE DEF g
<1>3. ASSUME NEW row, g \in Gens, gens' = [gens EXCEPT ![g] = row],
             row.build = gens[g].build, row.token = gens[g].token, gens[g].status \in G!Open
      PROVE  (\A h \in Gens : RowBuilt(gens'[h])) /\ Kept
  <2>1. RowBuilt(row) /\ gens[g].status # "published"
    BY <1>0, <1>3 DEF RowBuilt, G!Open
  <2> QED
    BY <1>0, <1>3, <2>1, RowPatch
<1>4. ASSUME NEW v, work' = [work EXCEPT ![b] = v],
             v.gen = None \/ (v.gen = work[b].gen /\ v.token = work[b].token)
      PROVE  \A c \in Builders : Carries(work'[c])
  <2>1. Carries(v)
    BY <1>0, <1>4 DEF Carries
  <2> QED
    BY <1>0, <1>4, <2>1, WorkPatch
<1>5. (\A h \in Gens : RowBuilt(gens'[h])) /\ Kept
  BY <1>0, <1>1, <1>3 DEF Kept
<1>6. \A c \in Builders : Carries(work'[c])
  BY <1>2, <1>4 DEF BuildInv
<1> QED
  BY <1>5, <1>6 DEF BuildInv

LEMMA GenMoves ==
    ASSUME GP!IInv, BuildInv, [G!Next]_gvars
    PROVE  BuildInv' /\ Kept
<1>1. CASE UNCHANGED gvars
  BY <1>1 DEF gvars, BuildInv, Kept
<1>2. CASE G!Tick
  <2>1. /\ work' = work
        /\ \A g \in Gens : /\ gens'[g].status = gens[g].status
                           /\ gens'[g].build = gens[g].build
                           /\ gens'[g].token = gens[g].token
    BY <1>2, ZenonT(30) DEF G!Tick, G!Elapse, GP!IInv, GP!TypeOK, GP!Row
  <2> QED
    BY <2>1 DEF BuildInv, RowBuilt, Kept
<1>3. ~(\E d \in G!Delays : G!PruneReaders(d))
  BY DEF G!PruneReaders
<1>4. GP!TypeOK
  BY DEF GP!IInv
<1> QED
  BY <1>1, <1>2, <1>3, <1>4, BeginBuilds, BuilderKeeps, Zenon DEF G!Next

\* A builder's step leaves what the others carry alone.
LEMMA OthersKeep ==
    ASSUME GP!TypeOK, NEW b \in Builders, NEW c \in Builders \ {b},
           \/ G!Begin(b) \/ G!Build(b) \/ G!Quit(b)
           \/ \E d \in G!Delays : G!Heartbeat(b, d)
    PROVE  work'[c] = work[c]
<1>1. work \in [Builders -> GP!Work]
  BY DEF GP!TypeOK
<1>3. CASE G!Begin(b)
  <2>1. PICK g, row : G!Carry(b, g, row)
    BY <1>3, ZenonT(30) DEF G!Begin, G!BeginNew, G!BeginAgain, G!BeginExpired, G!Resume,
                       G!HandOver
  <2> QED
    BY <1>1, <2>1 DEF G!Carry
<1>4. CASE G!Build(b)
  BY <1>1, <1>4 DEF G!Build, G!Prepare, G!Check, G!Publish, G!Rebuild, G!Adopt, G!Upload,
                    G!PutMarker
<1>5. CASE G!Quit(b) \/ \E d \in G!Delays : G!Heartbeat(b, d)
  BY <1>1, <1>5 DEF G!Quit, G!Heartbeat
<1> QED
  BY <1>3, <1>4, <1>5

-----------------------------------------------------------------------------
(* Steps of the queue *)

\* A row in the table keeps its payload.
Paid ==
    \A i \in Jobs : jobs'[i].status \in QP!InTable =>
        \/ jobs[i].status = "unborn" /\ jobs'[i].status = "queued"
        \/ jobs[i].status \in QP!InTable /\ jobs'[i].payload = jobs[i].payload

LEMMA QueueRows ==
    ASSUME QP!IInv, [Q!Next]_qvars
    PROVE  /\ Paid
           /\ \A i \in Jobs : jobs'[i].status = "succeeded" =>
                 \/ jobs[i].status = "succeeded"
                 \/ \E w \in Workers, d \in QP!Delays :
                       QP!Complete(w, d) /\ held[w].job = i
<1>1. CASE UNCHANGED qvars
  BY <1>1 DEF qvars, Paid
<1>2. CASE Q!Next
  <2>1. QP!Next
    BY <1>2, SameNext
  <2>2. ASSUME NEW i \in Jobs PROVE QP!RowHistory(i)
    BY <2>1, PipelineAssumption, QP!RowHistories
    DEF QP!ReplayIds, QP!Holding, QP!AllKeys, QP!KeyRow, Q!Holding, Q!KeyRow,
        Q!Terminal, QP!Terminal
  <2> QED
    BY <2>2 DEF QP!RowHistory, Paid
<1> QED
  BY <1>1, <1>2

\* Of the payload of a row in the table.
LEMMA PayloadOK ==
    ASSUME QP!IInv, NEW j \in Jobs, jobs[j].status \in QP!InTable
    PROVE  jobs[j].payload.gen \in Gens /\ jobs[j].payload.token \in 1..MaxTokens
<1>1. jobs[j].payload \in Handoff
  BY DEF QP!IInv, QP!RowInv, QP!RowOK
<1> QED
  BY <1>1 DEF Handoff

\* Only the attempt that has published, or found published, completes its job.
LEMMA SuccessStep ==
    ASSUME PInv, Next, NEW i \in Jobs, NEW w \in Workers, NEW d \in QP!Delays,
           QP!Complete(w, d), held[w].job = i, jobs'[i].status = "succeeded"
    PROVE  /\ task[w].step \in {"done", "replayed"}
           /\ held[w] # None /\ jobs[i].status = "running"
<1>1. /\ jobs \in [Jobs -> QP!Row] /\ held \in [Workers -> QP!Holding \union {None}]
      /\ jobs[i] \in QP!Row
  BY DEF PInv, QP!IInv, QP!TypeOK
<1>2. held[w] # None /\ jobs[i].status = "running" /\ held'[w] = None
  BY <1>1 DEF QP!Complete, QP!Finish, QP!Owns
<1>3. held' # held /\ jobs' # jobs
  BY <1>2
<1>4. ASSUME NEW v \in Workers, NEW e \in 0..Lag, Finish(v, e)
      PROVE  task[w].step \in {"done", "replayed"}
  <2>1. CASE task[v].step \in {"done", "replayed"} /\ Q!Complete(v, e)
    <3>1. held' = [held EXCEPT ![v] = None]
      BY <2>1 DEF Q!Complete, Q!Finish
    <3> QED
      BY <1>1, <1>2, <2>1, <3>1
  <2>2. ASSUME NEW delay \in 0..MaxBackoff, Q!Fail(v, e, TRUE, delay) PROVE FALSE
    <3>1. held' = [held EXCEPT ![v] = None]
      BY <2>2 DEF Q!Fail, Q!Finish
    <3>2. v = w
      BY <1>1, <1>2, <3>1
    <3> DEFINE st == Q!FinishStatus(jobs[i], TRUE, TRUE)
    <3>3. st # "succeeded"
      BY DEF Q!FinishStatus
    <3>4. PICK b : jobs' = [jobs EXCEPT ![i] = Q!Released(jobs[i], st, b)]
      BY <2>2, <3>2 DEF Q!Fail, Q!Finish
    <3> HIDE DEF st
    <3>5. \A row \in QP!Row : Q!Finished(row, st).status = st
      BY DEF Q!Finished, QP!Row
    <3>6. Q!Released(jobs[i], st, b).status = st
      BY <1>1 DEF Q!Released, Q!Finished, QP!Row
    <3> QED
      BY <1>1, <3>3, <3>4, <3>6
  <2>3. ~Q!Drop(v)
    BY <1>3 DEF Q!Drop
  <2> QED
    BY <1>4, <2>1, <2>2, <2>3 DEF Finish
<1>5. ASSUME NEW v \in Workers, NEW j \in Jobs, NEW e \in 0..Lag, Claim(v, j, e) PROVE FALSE
  <2>1. held[v] = None /\ \E h : held' = [held EXCEPT ![v] = h]
    BY <1>5, Zenon DEF Claim, Q!Claim
  <2> QED
    BY <1>1, <1>2, <2>1
<1>6. ASSUME NEW p \in Producers, Produce(p) PROVE FALSE
  <2>1. held' = held
    BY <1>6 DEF Produce, PrepareGeneration, Rerun, Enqueue, GiveUp, Q!Enqueue, qvars
  <2> QED
    BY <1>3, <2>1
<1>7. ASSUME NEW v \in Workers, Execute(v), ~\E e \in 0..Lag : Finish(v, e) PROVE FALSE
  <2>1. held' = held
    BY <1>7 DEF Execute, Get, Renew, Resume, Verify, Publish, Refused, qvars
  <2> QED
    BY <1>3, <2>1
<1>8. ASSUME NEW v \in Workers, NEW e \in 0..Lag,
             KeepJob(v, e) \/ KeepGeneration(v, e) \/ KeepFails(v, e)
      PROVE  FALSE
  <2>1. held' = held \/ jobs' = jobs
    BY <1>8 DEF KeepJob, KeepGeneration, KeepFails, Q!Heartbeat, Q!HeartbeatLost, qvars
  <2> QED
    BY <1>3, <2>1
<1>9. ASSUME NEW v \in Workers, Fault(v) PROVE FALSE
  <2>1. jobs' = jobs
    BY <1>9 DEF Fault, Q!Drop, qvars
  <2> QED
    BY <1>3, <2>1
<1>10. ASSUME Operate \/ Reap \/ Prune \/ Tick PROVE FALSE
  <2>1. held' = held
    BY <1>10 DEF Operate, Reap, Prune, Tick, Q!RequestCancel, Q!ReplayDeadLetter, Q!ReapSome,
                 Q!ReapExpired, Q!PruneSome, Q!PruneTerminal, Q!Elapse
  <2> QED
    BY <1>3, <2>1
<1> QED
  BY <1>2, <1>4, <1>5, <1>6, <1>7, <1>8, <1>9, <1>10 DEF Next, ClaimSome, Keep

LEMMA SuccessSafe ==
    ASSUME PInv, [Next]_vars, Paid, Kept
    PROVE  SucceededPublished'
<1> SUFFICES ASSUME NEW i \in Jobs, jobs'[i].status = "succeeded"
             PROVE  gens'[jobs'[i].payload.gen].status = "published"
  BY DEF SucceededPublished
<1>1. jobs'[i].status \in QP!InTable
  BY DEF QP!InTable, QP!Terminal
<1>2. jobs[i].status \in QP!InTable /\ jobs'[i].payload = jobs[i].payload
  BY <1>1 DEF Paid
<1>3. jobs[i].payload.gen \in Gens
  BY <1>2, PayloadOK DEF PInv
<1>4. CASE jobs[i].status = "succeeded"
  BY <1>2, <1>3, <1>4 DEF PInv, SucceededPublished, Kept
<1>5. CASE jobs[i].status # "succeeded"
  <2>1. [Q!Next]_qvars /\ Next
    BY <1>5, StepIsQueue DEF PInv, vars, qvars
  <2>2. PICK w \in Workers, d \in QP!Delays : QP!Complete(w, d) /\ held[w].job = i
    BY <1>5, <2>1, QueueRows DEF PInv
  <2>3. /\ task[w].step \in {"done", "replayed"} /\ held[w] # None
        /\ jobs[i].status = "running"
    BY <2>1, <2>2, SuccessStep
  <2>4. task[w].gen = jobs[i].payload.gen /\ gens[task[w].gen].status = "published"
    BY <2>2, <2>3 DEF PInv, TaskInv, TaskOK
  <2> QED
    BY <1>2, <1>3, <2>4 DEF Kept
<1> QED
  BY <1>4, <1>5

-----------------------------------------------------------------------------
(* What a worker carries *)

\* A worker that moves on, keeps or loses its claim, or rests.
LEMMA TaskFrame ==
    ASSUME PInv, QP!IInv', Paid, Kept, NEW w \in Workers,
           task'[w].gen = task[w].gen,
           task'[w].step # "none" => task[w].step # "none",
           held'[w] # None => held[w] # None /\ held'[w].job = held[w].job,
           task'[w].step = "run" => work'[w].gen = task[w].gen,
           task'[w].step \in {"done", "replayed"} =>
              task'[w].step = task[w].step \/ gens'[task[w].gen].status = "published"
    PROVE  TaskOK(w)'
<1>1. TaskOK(w)
  BY DEF PInv, TaskInv
<1>2. ASSUME held'[w] # None, jobs'[held'[w].job].status # "pruned"
      PROVE  task'[w].gen = jobs'[held'[w].job].payload.gen
  <2> DEFINE j == held[w].job
  <2>1. /\ held[w] # None /\ held'[w].job = j
        /\ j \in Jobs /\ jobs'[j] \in QP!Row
        /\ jobs[j].status # "unborn" /\ jobs'[j].status # "unborn"
    <3>1. held[w] # None /\ held'[w].job = j
      BY <1>2
    <3>2. j \in Jobs /\ jobs[j].status # "unborn"
      BY <3>1 DEF PInv, QP!IInv, QP!TypeOK, QP!HeldInv, QP!Holding
    <3>3. jobs'[j] \in QP!Row
      BY <3>2 DEF QP!IInv, QP!TypeOK
    <3>4. jobs'[j].status # "unborn"
      BY <1>2, <3>1 DEF QP!IInv, QP!HeldInv
    <3> QED
      BY <3>1, <3>2, <3>3, <3>4
  <2>2. jobs'[j].status \in QP!InTable
    BY <1>2, <2>1 DEF QP!Row
  <2>3. jobs[j].status \in QP!InTable /\ jobs'[j].payload = jobs[j].payload
    BY <2>1, <2>2 DEF Paid
  <2>4. jobs[j].status # "pruned"
    BY <2>3 DEF QP!InTable, QP!Waiting, QP!Terminal
  <2> QED
    BY <1>1, <2>1, <2>3, <2>4 DEF TaskOK
<1>3. task'[w].step # "none" => task'[w].gen \in Gens
  BY <1>1 DEF TaskOK
<1>4. ASSUME task'[w].step \in {"done", "replayed"}
      PROVE  gens'[task'[w].gen].status = "published"
  BY <1>1, <1>3, <1>4 DEF TaskOK, Kept
<1> QED
  BY <1>2, <1>3, <1>4 DEF TaskOK

\* Steps that move no worker on.
LEMMA QuietStep ==
    ASSUME PInv, QP!IInv', Paid, Kept, UNCHANGED <<task, faults>>, reruns' \in 0..MaxReruns,
           \A w \in Workers : held'[w] # None => held[w] # None /\ held'[w].job = held[w].job,
           \A w \in Workers : task[w].step = "run" => work'[w].gen = work[w].gen
    PROVE  LocalTypes' /\ TaskInv'
<1>1. LocalTypes'
  BY DEF PInv, LocalTypes
<1>2. ASSUME NEW w \in Workers PROVE TaskOK(w)'
  <2>1. task[w].step = "run" => work'[w].gen = task[w].gen
    BY DEF PInv, TaskInv, TaskOK
  <2> QED
    BY <2>1, TaskFrame
<1> QED
  BY <1>1, <1>2 DEF TaskInv

\* Steps of one worker: the others keep their task, claim and generation.
LEMMA WorkerStep ==
    ASSUME PInv, QP!IInv', Paid, Kept, NEW w \in Workers, NEW t \in Task,
           task' = [task EXCEPT ![w] = t], faults' \in 0..MaxFaults, reruns' = reruns,
           \A v \in Workers \ {w} : held'[v] = held[v] /\ work'[v] = work[v],
           task'[w] = t => TaskOK(w)'
    PROVE  LocalTypes' /\ TaskInv'
<1>1. \A v \in Workers : task'[v] = IF v = w THEN t ELSE task[v]
  BY DEF PInv, LocalTypes
<1>2. LocalTypes'
  BY DEF PInv, LocalTypes
<1>3. ASSUME NEW v \in Workers \ {w} PROVE TaskOK(v)'
  <2>1. task[v].step = "run" => work'[v].gen = task[v].gen
    BY DEF PInv, TaskInv, TaskOK
  <2> QED
    BY <1>1, <2>1, TaskFrame
<1> QED
  BY <1>1, <1>2, <1>3 DEF TaskInv

\* _execute moves on to another step for the same generation.
LEMMA ToStep ==
    ASSUME PInv, QP!IInv', Paid, Kept, NEW w \in Workers, NEW st \in Steps \ {"none"},
           To(w, st), task[w].step # "none",
           UNCHANGED qvars, faults' \in 0..MaxFaults, reruns' = reruns,
           \A v \in Workers \ {w} : work'[v] = work[v],
           st = "run" => work'[w].gen = task[w].gen,
           st \in {"done", "replayed"} => gens'[task[w].gen].status = "published"
    PROVE  LocalTypes' /\ TaskInv'
<1> DEFINE t == [task[w] EXCEPT !.step = st]
<1>1. task[w] \in Task
  BY DEF PInv, LocalTypes
<1>2. t \in Task
  BY <1>1, Zenon DEF Task
<1>3. t.step = st /\ t.gen = task[w].gen
  BY <1>1 DEF Task
<1>4. task' = [task EXCEPT ![w] = t] /\ held' = held
  BY DEF To, qvars
<1> HIDE DEF t
<1>5. task'[w] = t => TaskOK(w)'
  BY <1>3, <1>4, TaskFrame
<1> QED
  BY <1>2, <1>4, <1>5, WorkerStep

LEMMA ProduceTasks ==
    ASSUME PInv, QP!IInv', Paid, Kept, NEW p \in Producers, Produce(p)
    PROVE  LocalTypes' /\ TaskInv'
<1>1. UNCHANGED <<task, faults>> /\ held' = held /\ reruns' \in 0..MaxReruns
  <2>1. reruns \in 0..MaxReruns
    BY DEF PInv, LocalTypes
  <2>2. CASE Rerun(p)
    BY <2>1, <2>2, PipelineAssumption DEF Rerun, qvars
  <2>3. CASE PrepareGeneration(p) \/ GiveUp(p) \/ \E j \in Jobs : Enqueue(p, j)
    BY <2>1, <2>3 DEF PrepareGeneration, GiveUp, Enqueue, Q!Enqueue, qvars
  <2> QED
    BY <2>2, <2>3 DEF Produce
<1>2. G!Begin(p) \/ G!Build(p) \/ G!Quit(p)
  BY DEF Produce, PrepareGeneration, Rerun, GiveUp, Enqueue, G!Begin, G!Build, G!Delays
<1>3. \A w \in Workers : work'[w] = work[w]
  <2>1. p \in Builders /\ \A w \in Workers : w \in Builders \ {p}
    BY PipelineAssumption DEF Builders
  <2> QED
    BY <1>2, <2>1, OthersKeep DEF PInv, GP!IInv
<1> QED
  BY <1>1, <1>3, QuietStep

LEMMA ClaimTasks ==
    ASSUME PInv, QP!IInv', Paid, Kept, NEW w \in Workers, NEW j \in Jobs, NEW d \in 0..Lag,
           Claim(w, j, d)
    PROVE  LocalTypes' /\ TaskInv'
<1> DEFINE t == [step |-> "get", gen |-> jobs[j].payload.gen,
                 token |-> jobs[j].payload.token]
           h == [job |-> j, token |-> Q!NewToken(j), lost |-> FALSE]
<1>1. /\ jobs[j].status \in QP!InTable /\ jobs[j].status # "unborn"
      /\ jobs[j] \in QP!Row
  BY DEF Claim, Q!Claim, Q!Claimable, Q!Waiting, QP!InTable, QP!Waiting, PInv, QP!IInv, QP!TypeOK
<1>2. t \in Task /\ t.gen \in Gens
  <2>1. jobs[j].payload.gen \in Gens /\ jobs[j].payload.token \in 1..MaxTokens
    BY <1>1, PayloadOK DEF PInv
  <2>2. jobs[j].payload.token \in 0..MaxTokens
    BY <2>1, PipelineAssumption
  <2> QED
    BY <2>1, <2>2 DEF Task, Steps
<1>3. /\ task' = [task EXCEPT ![w] = t] /\ held' = [held EXCEPT ![w] = h]
      /\ UNCHANGED <<gvars, faults, reruns>>
  BY Zenon DEF Claim, Q!Claim
<1>4. /\ t.step = "get" /\ t.gen = jobs[j].payload.gen /\ h.job = j
  OBVIOUS
<1>5. jobs'[j].payload = jobs[j].payload
  <2>1. jobs \in [Jobs -> QP!Row]
    BY DEF PInv, QP!IInv, QP!TypeOK
  <2> QED
    BY <1>1, <2>1 DEF Claim, Q!Claim, QP!Row
<1> HIDE DEF t, h
<1>6. held \in [Workers -> QP!Holding \union {None}]
  BY DEF PInv, QP!IInv, QP!TypeOK
<1>7. held'[w] = h /\ \A v \in Workers \ {w} : held'[v] = held[v]
  BY <1>3, <1>6
<1>8. task'[w] = t => TaskOK(w)'
  BY <1>2, <1>4, <1>5, <1>7 DEF TaskOK
<1> QED
  BY <1>2, <1>3, <1>7, <1>8, WorkerStep DEF PInv, LocalTypes, gvars

LEMMA TakeOverTasks ==
    ASSUME PInv, QP!IInv', Paid, Kept, NEW w \in Workers, NEW d \in 0..Lag,
           Renew(w, d) \/ Resume(w, d)
    PROVE  LocalTypes' /\ TaskInv'
<1>1. /\ w \in Builders /\ task[w].step # "none" /\ task[w].gen \in Gens
      /\ UNCHANGED <<qvars, faults, reruns>> /\ faults' \in 0..MaxFaults
  BY DEF Renew, Resume, PInv, LocalTypes, TaskInv, TaskOK, Builders
<1>2. CASE UNCHANGED gvars /\ (To(w, "resume") \/ To(w, "error"))
  BY <1>1, <1>2, ToStep DEF gvars, Steps
<1>3. CASE /\ G!HandOver(w, task[w].gen, d) \/ G!Resume(w, task[w].gen, d)
           /\ To(w, "run")
  <2>1. \A v \in Workers \ {w} : work'[v] = work[v]
    <3>1. G!Begin(w)
      BY <1>1, <1>3 DEF G!Begin, G!Delays
    <3> QED
      BY <1>1, <3>1, OthersKeep DEF PInv, GP!IInv, Builders
  <2>2. work'[w].gen = task[w].gen
    <3>1. PICK row : G!Carry(w, task[w].gen, row)
      BY <1>3, Zenon DEF G!HandOver, G!Resume
    <3>2. work \in [Builders -> GP!Work]
      BY DEF PInv, GP!IInv, GP!TypeOK
    <3> QED
      BY <1>1, <3>1, <3>2 DEF G!Carry, G!Idle
  <2> QED
    BY <1>1, <1>3, <2>1, <2>2, ToStep DEF Steps
<1> QED
  BY <1>2, <1>3 DEF Renew, Resume

LEMMA RunTasks ==
    ASSUME PInv, QP!IInv', Paid, Kept, NEW w \in Workers, NEW d \in 0..Lag,
           Verify(w, d) \/ Publish(w, d) \/ Refused(w, d)
    PROVE  LocalTypes' /\ TaskInv'
<1>1. /\ w \in Builders /\ task[w].step = "run" /\ task[w].gen \in Gens
      /\ work[w].gen = task[w].gen /\ work[w] \in GP!Work
      /\ work \in [Builders -> GP!Work] /\ gens \in [Gens -> GP!Row]
      /\ faults \in 0..MaxFaults /\ reruns \in 0..MaxReruns
  BY DEF Verify, Publish, Refused, PInv, LocalTypes, TaskInv, TaskOK, Builders,
         GP!IInv, GP!TypeOK
<1>2. \A v \in Workers \ {w} : work'[v] = work[v]
  <2>1. G!Build(w) \/ G!Quit(w)
    BY DEF Verify, Publish, Refused, G!Build, G!Delays
  <2> QED
    BY <1>1, <2>1, OthersKeep DEF PInv, GP!IInv, Builders
<1>3. CASE Verify(w, d)
  <2>1. work'[w].gen = work[w].gen
    BY <1>1, <1>3 DEF Verify, G!Adopt, G!Check, GP!Work
  <2>2. UNCHANGED <<qvars, task, faults, reruns>>
    BY <1>3 DEF Verify
  <2> QED
    BY <1>1, <1>2, <2>1, <2>2, QuietStep DEF qvars
<1>4. CASE Publish(w, d)
  <2>1. gens'[task[w].gen].status = "published"
    BY <1>1, <1>4 DEF Publish, G!Publish, GP!Row
  <2>2. To(w, "done") /\ UNCHANGED <<qvars, faults, reruns>>
    BY <1>4 DEF Publish
  <2> QED
    BY <1>1, <1>2, <2>1, <2>2, ToStep DEF Steps
<1>5. CASE Refused(w, d)
  <2>1. To(w, "error") /\ UNCHANGED <<qvars, faults, reruns>>
    BY <1>5 DEF Refused
  <2> QED
    BY <1>1, <1>2, <2>1, ToStep DEF Steps
<1> QED
  BY <1>3, <1>4, <1>5

\* The attempt is over, one way or another.
LEMMA EndTasks ==
    ASSUME PInv, QP!IInv', Paid, Kept, NEW w \in Workers,
           task' = [task EXCEPT ![w] = NoTask], held' = [held EXCEPT ![w] = None],
           \A v \in Workers \ {w} : work'[v] = work[v],
           faults' \in 0..MaxFaults, reruns' = reruns
    PROVE  LocalTypes' /\ TaskInv'
<1>1. NoTask \in Task /\ NoTask.step = "none"
  BY PipelineAssumption DEF NoTask, Task, Steps
<1>2. held'[w] = None /\ \A v \in Workers \ {w} : held'[v] = held[v]
  BY DEF PInv, QP!IInv, QP!TypeOK
<1>3. task'[w] = NoTask => TaskOK(w)'
  BY <1>1, <1>2 DEF TaskOK
<1> QED
  BY <1>1, <1>2, <1>3, WorkerStep

LEMMA FaultTasks ==
    ASSUME PInv, QP!IInv', Paid, Kept, NEW w \in Workers, Fault(w)
    PROVE  LocalTypes' /\ TaskInv'
<1>1. faults' \in 0..MaxFaults /\ reruns' = reruns
  BY PipelineAssumption DEF Fault, PInv, LocalTypes
<1>2. \A v \in Workers \ {w} : work'[v] = work[v]
  <2>1. w \in Builders /\ \A v \in Workers \ {w} : v \in Builders \ {w}
    BY DEF Builders
  <2>2. work' = work \/ G!Quit(w)
    BY DEF Fault, gvars
  <2> QED
    BY <2>1, <2>2, OthersKeep DEF PInv, GP!IInv
<1>3. CASE Q!Drop(w) /\ task' = [task EXCEPT ![w] = NoTask]
  BY <1>1, <1>2, <1>3, EndTasks DEF Q!Drop
<1>4. CASE /\ task[w].step \in {"get", "renew", "resume", "run"}
           /\ To(w, "error") /\ UNCHANGED qvars
  BY <1>1, <1>2, <1>4, ToStep DEF Steps
<1> QED
  BY <1>3, <1>4 DEF Fault

LEMMA ExecuteTasks ==
    ASSUME PInv, QP!IInv', Paid, Kept, NEW w \in Workers, Execute(w)
    PROVE  LocalTypes' /\ TaskInv'
<1>1. faults \in 0..MaxFaults
  BY DEF PInv, LocalTypes
<1>2. CASE Get(w)
  <2>1. UNCHANGED <<qvars, gvars, faults, reruns>> /\ task[w].step = "get"
    BY <1>2 DEF Get
  <2>2. \/ To(w, "error") \/ To(w, "renew")
        \/ To(w, "replayed") /\ gens[task[w].gen].status = "published"
    BY <1>2 DEF Get
  <2> QED
    BY <1>1, <2>1, <2>2, ToStep DEF Steps, gvars
<1>3. ASSUME NEW d \in 0..Lag, Finish(w, d)
      PROVE  LocalTypes' /\ TaskInv'
  <2>1. /\ task' = [task EXCEPT ![w] = NoTask] /\ held' = [held EXCEPT ![w] = None]
        /\ UNCHANGED <<gvars, faults, reruns>>
    BY <1>3 DEF Finish, Q!Complete, Q!Fail, Q!Finish, Q!Drop
  <2> QED
    BY <1>1, <2>1, EndTasks DEF gvars
<1> QED
  BY <1>2, <1>3, TakeOverTasks, RunTasks DEF Execute

LEMMA OtherTasks ==
    ASSUME PInv, QP!IInv', Paid, Kept,
           \/ \E w \in Workers, d \in 0..Lag :
                 KeepJob(w, d) \/ KeepGeneration(w, d) \/ KeepFails(w, d)
           \/ Operate \/ Reap \/ Prune \/ Tick
    PROVE  LocalTypes' /\ TaskInv'
<1>1. /\ held \in [Workers -> QP!Holding \union {None}] /\ reruns \in 0..MaxReruns
      /\ UNCHANGED <<task, faults, reruns>>
  BY DEF KeepJob, KeepGeneration, KeepFails, Operate, Reap, Prune, Tick, PInv, LocalTypes,
         QP!IInv, QP!TypeOK
<1>2. work' = work
  BY DEF KeepJob, KeepGeneration, KeepFails, Operate, Reap, Prune, Tick, G!Heartbeat,
         G!Elapse, gvars
<1>3. held' = held \/ \E w \in Workers : Q!HeartbeatLost(w)
  BY DEF KeepJob, KeepGeneration, KeepFails, Operate, Reap, Prune, Tick, Q!Heartbeat,
         Q!RequestCancel, Q!ReplayDeadLetter, Q!ReapSome, Q!ReapExpired, Q!PruneSome,
         Q!PruneTerminal, Q!Elapse, qvars
<1>4. ASSUME NEW w \in Workers, Q!HeartbeatLost(w), NEW v \in Workers, held'[v] # None
      PROVE  held[v] # None /\ held'[v].job = held[v].job
  <2>1. held[w] # None /\ held' = [held EXCEPT ![w] = [held[w] EXCEPT !.lost = TRUE]]
    BY <1>4 DEF Q!HeartbeatLost
  <2>2. [held[w] EXCEPT !.lost = TRUE].job = held[w].job
    BY <1>1, <2>1 DEF QP!Holding
  <2> QED
    BY <1>1, <1>4, <2>1, <2>2
<1>5. \A v \in Workers : held'[v] # None => held[v] # None /\ held'[v].job = held[v].job
  BY <1>3, <1>4
<1> QED
  BY <1>1, <1>2, <1>5, QuietStep

-----------------------------------------------------------------------------
(* The theorems *)

LEMMA InitPInv == Init => PInv
<1> SUFFICES ASSUME Init PROVE PInv
  OBVIOUS
<1>1. QP!IInv /\ GP!IInv
  BY QueueInit, GenInit DEF Init
<1>2. LocalTypes
  BY PipelineAssumption DEF Init, LocalTypes, NoTask, Task, Steps
<1>3. BuildInv
  BY DEF Init, G!Init, G!NoRow, G!Idle, BuildInv, RowBuilt, Carries
<1>4. TaskInv
  BY DEF Init, Q!Init, NoTask, TaskInv, TaskOK
<1>5. SucceededPublished
  BY DEF Init, Q!Init, Q!Absent, SucceededPublished
<1> QED
  BY <1>1, <1>2, <1>3, <1>4, <1>5 DEF PInv

LEMMA NextPInv == PInv /\ [Next]_vars => PInv'
<1> SUFFICES ASSUME PInv, [Next]_vars PROVE PInv'
  OBVIOUS
<1>1. [Q!Next]_qvars /\ [G!Next]_gvars
  BY StepIsQueue, StepIsGeneration DEF PInv
<1>2. QP!IInv' /\ GP!IInv'
  BY <1>1, QueueStep, GenStep DEF PInv
<1>3. Paid /\ Kept /\ BuildInv'
  BY <1>1, QueueRows, GenMoves DEF PInv
<1>4. SucceededPublished'
  BY <1>3, SuccessSafe
<1>5. LocalTypes' /\ TaskInv'
  <2>1. CASE UNCHANGED vars
    BY <2>1 DEF vars, qvars, gvars, PInv, LocalTypes, TaskInv, TaskOK
  <2>2. CASE Next
    BY <1>2, <1>3, <2>2, ProduceTasks, ClaimTasks, ExecuteTasks, FaultTasks, OtherTasks,
       Zenon
    DEF Next, ClaimSome, Keep
  <2> QED
    BY <2>1, <2>2
<1> QED
  BY <1>2, <1>3, <1>4, <1>5 DEF PInv

\* The pipeline's invariant, which joins those of the queue and of the
\* generation store.
THEOREM Inductive == Spec => []PInv
BY InitPInv, NextPInv, PTL DEF Spec

\* Every table and every worker's variables keep their types.
THEOREM TypeCorrect == Spec => []TypeOK
<1>1. PInv => TypeOK
  BY SameType, SameGenType DEF PInv, QP!IInv, GP!IInv, LocalTypes, Task, TypeOK
<1> QED
  BY <1>1, Inductive, PTL

\* A job that run_once has reported as succeeded has its generation published,
\* whichever attempt, worker or replay did it and whoever lost a lease meanwhile.
THEOREM SuccessIsPublication == Spec => []SucceededPublished
<1>1. PInv => SucceededPublished
  BY DEF PInv
<1> QED
  BY <1>1, Inductive, PTL

\* The producers and the worker use the queue only through the operations that
\* LeaseJobStore offers.
THEOREM RefinesQueue == Spec => ImplementsQueue
<1>1. Init => Q!Init
  BY DEF Init
<1>2. PInv /\ [Next]_vars => [Q!Next]_(Q!vars)
  BY StepIsQueue DEF PInv, qvars, Q!vars
<1> QED
  BY <1>1, <1>2, Inductive, PTL DEF Spec, ImplementsQueue, Q!Spec

\* Taking a candidate over through a job payload is nothing that
\* IndexGenerationStore does not offer.
THEOREM RefinesGenerations == Spec => ImplementsGenerations
<1>1. Init => G!Init
  BY DEF Init
<1>2. PInv /\ [Next]_vars => [G!Next]_(G!vars)
  BY StepIsGeneration DEF PInv, gvars, G!vars
<1> QED
  BY <1>1, <1>2, Inductive, PTL DEF Spec, ImplementsGenerations, G!Spec
=============================================================================
