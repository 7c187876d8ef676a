---------------------------- MODULE ResearchJobs ----------------------------
(***************************************************************************)
(* One deep-research job in the multi-writer role: its durable record      *)
(* (api/research_job_store.py), the cluster queue that elects who runs its *)
(* current attempt (ha/research.py), the dispatcher and the runs of the    *)
(* nodes (service/research_execution.py, research_control.py) and the      *)
(* calls of users.                                                         *)
(*                                                                         *)
(* A provenance snapshot is the number of the index generation; evidence   *)
(* is the attempt that gathered it and the generation it was read from.    *)
(* A fresh lease id is any id nobody holds, for an id is only ever         *)
(* compared.  A runner is one claim of a node, its worker_id and dispatch  *)
(* token together, so "owner and token match" is "owner is this runner".   *)
(* A terminal dispatch and one that was never inserted, or was pruned, are *)
(* the same to every operation and are both "idle" here.                   *)
(***************************************************************************)
EXTENDS Naturals, FiniteSets

CONSTANTS
    Runners,        \* claims that may be in flight, over all nodes
    NSections,      \* sections of the plan
    MaxAttempts,    \* bound: evidence and report attempts
    MaxGen,         \* bound: index generations
    MaxEvents,      \* bound: user calls, new index generations and, counted
                    \* twice, crashes, shutdowns, stalls, errors and deadlines
    None

ASSUME BoundsAssumption ==
    /\ Runners # {} /\ None \notin Runners
    /\ IsFiniteSet(Runners)
    /\ NSections \in Nat \ {0} /\ MaxAttempts \in Nat \ {0}
    /\ MaxGen \in Nat \ {0} /\ MaxEvents \in Nat

Sections == 1 .. NSections
Attempts == 1 .. MaxAttempts
Gens == 1 .. MaxGen

VARIABLES
    job,        \* the row of research_jobs
    disp,       \* ha_research_dispatches, by attempt
    run,        \* each runner
    call,       \* the user calls in progress
    gen,        \* the index generation that is served
    last,       \* attempts made so far
    calls,      \* user calls so far
    faults      \* faults so far

vars == << job, disp, run, call, gen, last, calls, faults >>

----------------------------------------------------------------------------
(* Records *)

Phases == {"evidence", "report"}
Live == {"running", "generating"}
Status == Live \union {"planned", "paused", "evidence_ready", "completed",
                       "failed", "cancelled"}

\* The run control of a phase.  All its final states are one, "ended"; late
\* says that deadline_at has passed.
NoControl == [att |-> 0, lease |-> 0, drain |-> 0, state |-> "none", late |-> FALSE]

NoEvidence == << 0, 0 >>
NoReport == << >>

NoKey == [phase |-> "evidence", att |-> 0]

Idle == [pc |-> "idle", key |-> NoKey, lease |-> 0, sec |-> 0, gen |-> 0,
         src |-> NoReport, stop |-> "no"]

NoCall == [op |-> "none", pc |-> "idle", saw |-> FALSE, prov |-> 0, key |-> NoKey]

Init ==
    /\ job = [status |-> "planned", exec |-> 0, rexec |-> 0,
              evidence |-> NoControl, report |-> NoControl,
              sec |-> [s \in Sections |-> [st |-> "pending", ev |-> NoEvidence]],
              prov |-> 0, rstat |-> "not_started", rep |-> NoReport,
              review |-> "not_started"]
    /\ disp = [a \in Attempts |-> [st |-> "idle", phase |-> "none",
                                   owner |-> None, lapsed |-> FALSE]]
    /\ run = [w \in Runners |-> Idle]
    /\ call = {}
    /\ gen = 1 /\ last = 0 /\ calls = 0 /\ faults = 0

Room(n) == calls + 2 * faults + (gen - 1) + n <= MaxEvents

Fault == Room(2) /\ faults' = faults + 1

\* uuid4: an id that is in use nowhere.
InUse == {run[w].lease : w \in Runners}
         \union UNION {{job[p].lease, job[p].drain} : p \in Phases}
FreshLease == CHOOSE l \in 1 .. Cardinality(Runners) + 5 : l \notin InUse

NewControl(a) == [att |-> a, lease |-> FreshLease, drain |-> 0,
                  state |-> "running", late |-> FALSE]
Ended(c) == IF c.state = "none" THEN c
            ELSE [c EXCEPT !.state = "ended", !.lease = 0, !.drain = 0]

----------------------------------------------------------------------------
(* The transitions of the durable record.  Each is one transaction; a      *)
(* transition that the record refuses leaves it as it is.                  *)

Reset(sec, from) == [s \in Sections |->
    IF sec[s].st \in from THEN [sec[s] EXCEPT !.st = "pending"] ELSE sec[s]]

MarkRunFailed(j, p) ==
    IF p = "report"
    THEN [j EXCEPT !.status = "failed", !.rstat = "failed", !.report = Ended(@)]
    ELSE [j EXCEPT !.status = "failed", !.evidence = Ended(@),
                   !.sec = [s \in Sections |->
                      IF @[s].st = "running" THEN [@[s] EXCEPT !.st = "failed"] ELSE @[s]]]

\* _start_job; a is a fresh attempt and g the snapshot the caller took.
Restart(j, a, g) ==
    [j EXCEPT !.status = "running", !.exec = a, !.rexec = 0, !.prov = g,
              !.rstat = "not_started", !.rep = NoReport, !.review = "not_started",
              !.evidence = NewControl(a), !.report = NoControl,
              !.sec = Reset(@, {"running", "failed"})]

Unpause(j) ==
    IF j.evidence.late
    THEN MarkRunFailed(j, "evidence")
    ELSE [j EXCEPT !.status = "running",
                   !.evidence = [@ EXCEPT !.lease = FreshLease, !.drain = 0,
                                          !.state = "running"],
                   !.sec = Reset(@, {"running", "failed"})]

RefreshEvidence(j, a, g) ==
    [Restart(j, a, g) EXCEPT !.sec = [s \in Sections |-> [st |-> "pending", ev |-> NoEvidence]]]

BeginReport(j, a) ==
    [j EXCEPT !.status = "generating", !.rstat = "generating", !.rexec = a,
              !.report = NewControl(a), !.rep = NoReport, !.review = "not_started"]

PauseJob(j) ==
    [j EXCEPT !.status = "paused",
              !.evidence = [@ EXCEPT !.drain = j.evidence.lease, !.lease = 0,
                                     !.state = "paused"]]

CancelJob(j) ==
    [j EXCEPT !.status = "cancelled", !.exec = 0, !.rexec = 0,
              !.rstat = IF @ = "generating" THEN "failed" ELSE @,
              !.evidence = Ended(@), !.report = Ended(@),
              !.sec = Reset(@, {"running"})]

CanStart == job.status \in {"planned", "failed"}
CanRefresh == job.status \notin Live /\ job.review # "published"
CanReport ==
    \/ job.status = "evidence_ready"
    \/ job.status = "failed" /\ job.rstat = "failed"
    \/ job.status = "completed" /\ job.review = "changes_requested"

\* The lease a commit of evidence must carry: the current one, or the one
\* that drains while the job is paused.
Holds(w) ==
    LET c == job.evidence
    IN  /\ job.exec = run[w].key.att /\ c.att = run[w].key.att
        /\ \/ job.status = "running" /\ c.lease = run[w].lease
           \/ job.status = "paused" /\ c.drain = run[w].lease

\* What reserve_research_resources, claim_next_section and complete_report
\* ask for: the current lease of a running control.
Current(w) ==
    LET c == job[run[w].key.phase]
    IN  c.att = run[w].key.att /\ c.state = "running" /\ c.lease = run[w].lease

AllGathered(sec) == \A s \in Sections : sec[s].st \notin {"pending", "running"}

EvidenceReady(j) == [j EXCEPT !.status = "evidence_ready", !.evidence = Ended(@)]

\* Mutant of CompleteSection: a commit that asks for the section's state only,
\* and not for the attempt and lease it was claimed under.
CompleteSectionByState(w) ==
    LET s == run[w].sec
    IN  IF job.sec[s].st = "running"
        THEN [job EXCEPT !.sec[s] = [st |-> "completed",
                                     ev |-> << run[w].key.att, run[w].gen >>]]
        ELSE job

CompleteSection(w) ==
    LET s == run[w].sec
        done == [job EXCEPT !.sec[s] = [st |-> "completed",
                                        ev |-> << run[w].key.att, run[w].gen >>]]
    IN  CASE ~Holds(w) -> job
          [] Holds(w) /\ job.evidence.late -> MarkRunFailed(job, "evidence")
          [] Holds(w) /\ ~job.evidence.late /\ job.sec[s].st # "running" -> job
          [] OTHER -> IF job.status = "running" /\ AllGathered(done.sec)
                      THEN EvidenceReady(done) ELSE done

\* Mutant of FailSection: a late failure ends a paused job too.
FailSectionPaused(w) ==
    LET s == run[w].sec
    IN  IF ~Holds(w) \/ job.sec[s].st # "running" THEN job
        ELSE [job EXCEPT !.sec[s].st = "failed", !.status = "failed", !.evidence = Ended(@)]

FailSection(w) ==
    LET s == run[w].sec
    IN  CASE ~Holds(w) \/ job.sec[s].st # "running" -> job
          [] Holds(w) /\ job.sec[s].st = "running" /\ job.status = "paused" ->
                [job EXCEPT !.sec[s].st = "pending"]
          [] OTHER -> [job EXCEPT !.sec[s].st = "failed", !.status = "failed",
                                  !.evidence = Ended(@)]

\* Mutant of CompleteReport: the report is saved whatever became of its attempt.
CompleteReportAnyway(w) ==
    IF job.status \in {"cancelled", "failed"} THEN job
    ELSE [job EXCEPT !.status = "completed", !.rstat = "ready", !.rep = run[w].src,
                     !.review = "pending", !.report = Ended(@)]

CompleteReport(w) ==
    IF job.status # "generating" \/ job.rexec # run[w].key.att \/ ~Current(w)
    THEN job
    ELSE IF job.report.late THEN MarkRunFailed(job, "report")
    ELSE [job EXCEPT !.status = "completed", !.rstat = "ready", !.rep = run[w].src,
                     !.review = "pending", !.report = Ended(@)]

FailReport(w) ==
    IF job.status = "generating" /\ job.rexec = run[w].key.att
       /\ job.report.att = run[w].key.att /\ job.report.lease = run[w].lease
    THEN MarkRunFailed(job, "report") ELSE job

----------------------------------------------------------------------------
(* The dispatch queue *)

\* enqueue: inserts the row, or queues a terminal one again.
Enqueue(k) ==
    disp' = IF disp[k.att].st = "idle"
            THEN [disp EXCEPT ![k.att] = [st |-> "queued", phase |-> k.phase,
                                          owner |-> None, lapsed |-> FALSE]]
            ELSE disp

Owns(w) == LET a == run[w].key.att IN disp[a].st = "running" /\ disp[a].owner = w

\* finish and requeue: nothing happens to the row of another claim.
Release(w, st) ==
    disp' = IF Owns(w)
            THEN [disp EXCEPT ![run[w].key.att].st = st, ![run[w].key.att].owner = None,
                              ![run[w].key.att].lapsed = FALSE]
            ELSE disp

\* cancel_job
CancelDispatches ==
    disp' = [a \in Attempts |-> [disp[a] EXCEPT !.st = "idle", !.owner = None,
                                                !.lapsed = FALSE]]

\* The dispatch of a live job.
KeyOf(j) == IF j.status = "generating" THEN [phase |-> "report", att |-> j.rexec]
            ELSE [phase |-> "evidence", att |-> j.exec]

----------------------------------------------------------------------------
(* User calls: ResearchExecutionManager.start, resume, compile and refresh  *)
(* read, transition and enqueue; pause and cancel transition, cancel the    *)
(* dispatches and signal the node's own runs.                               *)

\* A new call; two that are in progress with the same record are one.
Admit == Room(1) /\ calls' = calls + 1

Becomes(c, C) == call' = (call \ {c}) \union C

\* Of the row it reads, a call keeps what decides it: for start whether the
\* job has failed, for resume whether it is paused, and its provenance then.
Read(op) ==
    /\ Admit
    /\ LET saw == op = "compile" \/ job.status = IF op = "start" THEN "failed" ELSE "paused"
       IN  Becomes(NoCall, {[NoCall EXCEPT !.op = op, !.pc = "act", !.saw = saw,
                                           !.prov = IF saw THEN job.prov ELSE 0]})
    /\ UNCHANGED << job, disp, run, gen, last, faults >>

\* The call's transaction commits j, and its dispatch is still to be queued;
\* an attempt id that is empty raises.
Transition(c, j) ==
    /\ job' = j
    /\ Becomes(c, IF KeyOf(j).att = 0 THEN {}
                  ELSE {[NoCall EXCEPT !.pc = "enqueue", !.key = KeyOf(j)]})

NewAttempt == last < MaxAttempts /\ last' = last + 1

Refuse(c) == Becomes(c, {}) /\ UNCHANGED << job, last >>

\* refresh_evidence, which a failed job whose evidence is stale also takes.
DoRefresh(c) ==
    \/ CanRefresh /\ NewAttempt /\ Transition(c, RefreshEvidence(job, last + 1, gen))
    \/ ~CanRefresh /\ Refuse(c)

DoStart(c) ==
    \/ CanStart /\ NewAttempt /\ Transition(c, Restart(job, last + 1, gen))
    \/ job.status = "paused" /\ Transition(c, Unpause(job)) /\ UNCHANGED last
    \/ job.status = "running" /\ Transition(c, job) /\ UNCHANGED last
    \/ /\ job.status \notin {"planned", "failed", "paused", "running"}
       /\ Refuse(c)

Start(c) ==
    /\ c.op = "start" /\ c.pc = "act"
    /\ IF c.saw /\ c.prov # gen
       THEN DoRefresh(c) ELSE DoStart(c)
    /\ UNCHANGED << disp, run, gen, calls, faults >>

\* A call that did not read "paused" only asks the record, and queues nothing.
Resume(c) ==
    /\ c.op = "resume" /\ c.pc = "act"
    /\ IF ~c.saw
       THEN /\ job' = IF job.status = "paused" THEN Unpause(job) ELSE job
            /\ Becomes(c, {})
       ELSE \/ c.prov # gen /\ Refuse(c)
            \/ /\ c.prov = gen
               /\ \/ job.status = "paused" /\ Transition(c, Unpause(job))
                  \/ job.status = "running" /\ Transition(c, job)
                  \/ job.status \notin {"paused", "running"} /\ Refuse(c)
    /\ UNCHANGED << disp, run, gen, last, calls, faults >>

Compile(c) ==
    /\ c.op = "compile" /\ c.pc = "act"
    /\ \/ c.prov # gen /\ Refuse(c)
       \/ /\ c.prov = gen
          /\ \/ CanReport /\ NewAttempt /\ Transition(c, BeginReport(job, last + 1))
             \/ /\ job.status = "generating"
                /\ Transition(c, IF job.report.late THEN MarkRunFailed(job, "report") ELSE job)
                /\ UNCHANGED last
             \/ ~CanReport /\ job.status # "generating" /\ Refuse(c)
    /\ UNCHANGED << disp, run, gen, calls, faults >>

\* refresh reads the record only to authorise the call.
Refresh ==
    /\ Admit /\ CanRefresh
    /\ DoRefresh(NoCall)
    /\ UNCHANGED << disp, run, gen, faults >>

EnqueueCall(c) ==
    /\ c.pc = "enqueue"
    /\ Enqueue(c.key)
    /\ Becomes(c, {})
    /\ UNCHANGED << job, run, gen, last, calls, faults >>

\* A job that is paused already is left as it is, and so is one that is
\* cancelled.
Pause ==
    /\ Admit /\ job.status \in {"running", "paused"}
    /\ job' = IF job.status = "running" THEN PauseJob(job) ELSE job
    /\ Becomes(NoCall, {[NoCall EXCEPT !.op = "pause", !.pc = "cancel"]})
    /\ UNCHANGED << disp, run, gen, last, faults >>

Cancel ==
    /\ Admit /\ job.status \notin {"evidence_ready", "completed"}
    /\ job' = IF job.status # "cancelled" THEN CancelJob(job) ELSE job
    /\ Becomes(NoCall, {[NoCall EXCEPT !.op = "cancel", !.pc = "cancel"]})
    /\ UNCHANGED << disp, run, gen, last, faults >>

Running == {w \in Runners : run[w].pc \in {"loop", "sec", "ready", "report", "built"}}

\* cancel_job, then _signal_job for the runs of this node, whichever they are.
CancelCall(c) ==
    /\ c.pc = "cancel"
    /\ CancelDispatches
    /\ \E S \in SUBSET Running :
        /\ c.op = "pause" => \A w \in S : run[w].key.phase = "evidence"
        /\ run' = [w \in Runners |->
              IF w \in S
              THEN [run[w] EXCEPT !.stop = IF c.op = "pause" THEN "paused" ELSE "stop"]
              ELSE run[w]]
    /\ Becomes(c, {})
    /\ UNCHANGED << job, gen, last, calls, faults >>

\* review_report and publish_report: the expected revision makes the read,
\* the provenance check and the commit see one record.
Review(d) ==
    /\ job.status = "completed" /\ job.review # "published" /\ job.prov = gen
    /\ job' = [job EXCEPT !.review = d]
    /\ UNCHANGED << disp, run, call, gen, last, calls, faults >>

Publish ==
    /\ job.status = "completed" /\ job.review = "approved" /\ job.prov = gen
    /\ job' = [job EXCEPT !.review = "published", !.rstat = "published"]
    /\ UNCHANGED << disp, run, call, gen, last, calls, faults >>

----------------------------------------------------------------------------
(* The dispatcher of a node: dispatch_once, the heartbeats and              *)
(* reconcile_orphans *)

Goto(w, pc) == run' = [run EXCEPT ![w].pc = pc]

\* The run is over, or never began; only its dispatch is left to settle.
Leave(w, pc) == run' = [run EXCEPT ![w] = [Idle EXCEPT !.pc = pc, !.key = run[w].key]]

\* A claim takes a new runner, and one that does nothing is like another.
Free == CHOOSE w \in Runners : run[w].pc = "idle"

Claim(w, a) ==
    /\ run[w].pc = "idle" /\ w = Free
    /\ disp[a].st = "queued" \/ (disp[a].st = "running" /\ disp[a].lapsed)
    /\ disp' = [disp EXCEPT ![a].st = "running", ![a].owner = w, ![a].lapsed = FALSE]
    /\ run' = [run EXCEPT ![w] = [Idle EXCEPT !.pc = "claimed",
                                              !.key = [phase |-> disp[a].phase, att |-> a]]]
    /\ UNCHANGED << job, call, gen, last, calls, faults >>

\* Mutant of Activated: the sections of the former run stay claimed.
ActivatedKeepsSections(k) ==
    [job EXCEPT ![k.phase].drain = job[k.phase].lease, ![k.phase].lease = FreshLease]

\* activate_distributed_attempt rotates the lease of an attempt that is live
\* and takes back the sections the former run had claimed.
Activated(k) ==
    LET j == [job EXCEPT ![k.phase].drain = job[k.phase].lease, ![k.phase].lease = FreshLease]
    IN  IF k.phase = "report" THEN j ELSE [j EXCEPT !.sec = Reset(@, {"running"})]

IsLive(k) == job.status \in Live /\ KeyOf(job) = k

\* Then the run is scheduled, or the dispatch handed back: the executor is
\* full, or the node shuts down.
Activate(w) ==
    /\ run[w].pc = "claimed"
    /\ LET k == run[w].key
       IN  \/ /\ ~IsLive(k)
              /\ Leave(w, "drop")
              /\ UNCHANGED << job, faults >>
           \/ /\ IsLive(k) /\ run[w].stop = "no"
              /\ job' = Activated(k)
              /\ run' = [run EXCEPT ![w].lease = FreshLease,
                             ![w].pc = IF k.phase = "report" THEN "report" ELSE "loop"]
              /\ UNCHANGED faults
           \/ /\ IsLive(k)
              /\ IF run[w].stop = "no" THEN Fault ELSE UNCHANGED faults
              /\ job' = Activated(k)
              /\ Leave(w, "return")
    /\ UNCHANGED << disp, call, gen, last, calls >>

\* The dispatch of a dead attempt is finished, that of a refused one requeued.
HandBack(w) ==
    /\ run[w].pc \in {"drop", "return"}
    /\ Release(w, IF run[w].pc = "drop" THEN "idle" ELSE "queued")
    /\ run' = [run EXCEPT ![w] = Idle]
    /\ UNCHANGED << job, call, gen, last, calls, faults >>

\* A heartbeat that finds the claim lost or run out stops the run.
Heartbeat(w) ==
    /\ w \in Running /\ run[w].stop # "stop"
    /\ ~Owns(w) \/ disp[run[w].key.att].lapsed
    /\ run' = [run EXCEPT ![w].stop = "stop"]
    /\ UNCHANGED << job, disp, call, gen, last, calls, faults >>

\* _forget, when the run has ended: the dispatch is finished.
Forget(w) ==
    /\ run[w].pc = "end"
    /\ Release(w, "idle")
    /\ run' = [run EXCEPT ![w] = Idle]
    /\ UNCHANGED << job, call, gen, last, calls, faults >>

\* list_dispatchable and enqueue, for the attempt that is live.
ReconcileOrphans ==
    /\ job.status \in Live
    /\ Enqueue(KeyOf(job))
    /\ UNCHANGED << job, run, call, gen, last, calls, faults >>

\* The same by a node that stalled in between: it enqueues an attempt that
\* was live when it listed the job.
ReconcileLate(a) ==
    /\ Fault
    /\ a <= last /\ disp[a].phase # "none" /\ KeyOf(job).att # a
    /\ Enqueue([phase |-> disp[a].phase, att |-> a])
    /\ UNCHANGED << job, run, call, gen, last, calls >>

----------------------------------------------------------------------------
(* An evidence run: _run_job *)

\* control.checkpoint: the local stop first, then the durable record.
Stopped(w) == run[w].stop # "no" \/ ~Current(w)
Overrun(w) == ~Stopped(w) /\ job[run[w].key.phase].late

\* The deadline, found by any checkpoint: it is made durable and the run ends.
Expire(w) ==
    /\ w \in Running /\ Overrun(w)
    /\ job' = MarkRunFailed(job, run[w].key.phase)
    /\ Leave(w, "end")
    /\ UNCHANGED << disp, call, gen, last, calls, faults >>

\* reserve: the budget of the attempt is used up.
OverBudget(w) ==
    /\ run[w].pc \in {"sec", "report"} /\ ~Stopped(w) /\ ~Overrun(w)
    /\ Fault
    /\ job' = MarkRunFailed(job, run[w].key.phase)
    /\ Leave(w, "end")
    /\ UNCHANGED << disp, call, gen, last, calls >>

\* An error outside a section: fail_run, fenced by the lease; a pause wins.
RunFails(w) ==
    /\ run[w].pc = "loop"
    /\ Fault
    /\ job' = IF Current(w) THEN MarkRunFailed(job, "evidence") ELSE job
    /\ Leave(w, "end")
    /\ UNCHANGED << disp, call, gen, last, calls >>

\* A checkpoint that raises.  Before a commit of evidence a pause is ignored,
\* for the section may still be completed on the draining lease.
Stop(w) ==
    /\ w \in Running /\ Stopped(w)
    /\ run[w].pc = "ready" =>
          /\ run[w].stop # "paused"
          /\ run[w].stop = "no" => ~ /\ job.evidence.att = run[w].key.att
                                     /\ job.evidence.state = "paused"
    /\ Leave(w, "end")
    /\ UNCHANGED << job, disp, call, gen, last, calls, faults >>

ClaimNextSection(w) ==
    /\ run[w].pc = "loop" /\ ~Stopped(w) /\ ~Overrun(w)
    /\ LET pending == {s \in Sections : job.sec[s].st = "pending"}
       IN  IF pending # {}
           THEN LET s == CHOOSE s \in pending : \A t \in pending : s <= t
                IN  /\ job' = [job EXCEPT !.sec[s].st = "running"]
                    /\ run' = [run EXCEPT ![w].pc = "sec", ![w].sec = s, ![w].gen = job.prov]
           ELSE /\ job' = IF AllGathered(job.sec) THEN EvidenceReady(job) ELSE job
                /\ Leave(w, "end")
    /\ UNCHANGED << disp, call, gen, last, calls, faults >>

\* The queries of a section, between two checks that the index generation is
\* the one the row was claimed with.
Retrieve(w) ==
    /\ run[w].pc = "sec" /\ ~Stopped(w) /\ ~Overrun(w)
    /\ run[w].gen = gen
    /\ Goto(w, "ready")
    /\ UNCHANGED << job, disp, call, gen, last, calls, faults >>

\* The generation has moved, or a provider fails.
RetrieveFails(w) ==
    /\ run[w].pc \in {"sec", "ready"}
    /\ IF run[w].gen = gen THEN Fault ELSE UNCHANGED faults
    /\ job' = FailSection(w)
    /\ Leave(w, "end")
    /\ UNCHANGED << disp, call, gen, last, calls >>

Commit(w) ==
    /\ run[w].pc = "ready"
    /\ job' = CompleteSection(w)
    /\ run' = [run EXCEPT ![w].pc = "loop", ![w].sec = 0, ![w].gen = 0]
    /\ UNCHANGED << disp, call, gen, last, calls, faults >>

----------------------------------------------------------------------------
(* A report run: _run_report *)

BuildReport(w) ==
    /\ run[w].pc = "report" /\ ~Stopped(w) /\ ~Overrun(w)
    /\ job.prov = gen
    /\ run' = [run EXCEPT ![w].pc = "built",
                          ![w].src = [s \in Sections |-> job.sec[s].ev]]
    /\ UNCHANGED << job, disp, call, gen, last, calls, faults >>

BuildFails(w) ==
    /\ run[w].pc \in {"report", "built"}
    /\ IF job.prov = gen THEN Fault ELSE UNCHANGED faults
    /\ job' = FailReport(w)
    /\ Leave(w, "end")
    /\ UNCHANGED << disp, call, gen, last, calls >>

CommitReport(w) ==
    /\ run[w].pc = "built"
    /\ job' = CompleteReport(w)
    /\ Leave(w, "end")
    /\ UNCHANGED << disp, call, gen, last, calls, faults >>

----------------------------------------------------------------------------
(* The environment *)

SwitchIndex ==
    /\ Room(1) /\ gen < MaxGen
    /\ gen' = gen + 1
    /\ UNCHANGED << job, disp, run, call, last, calls, faults >>

DeadlinePasses(p) ==
    /\ Fault
    /\ job[p].state \in {"running", "paused"} /\ ~job[p].late
    /\ job' = [job EXCEPT ![p].late = TRUE]
    /\ UNCHANGED << disp, run, call, gen, last, calls >>

\* A node dies: nobody knows the token of its claim any more.
Crash(w) ==
    /\ Fault
    /\ run[w].pc # "idle"
    /\ disp' = IF Owns(w) THEN [disp EXCEPT ![run[w].key.att].owner = None] ELSE disp
    /\ run' = [run EXCEPT ![w] = Idle]
    /\ UNCHANGED << job, call, gen, last, calls >>

\* shutdown: release_owned makes the work claimable while the run unwinds.
Shutdown(w) ==
    /\ Fault
    /\ run[w].pc = "claimed" \/ w \in Running
    /\ Release(w, "queued")
    /\ run' = [run EXCEPT ![w].stop = "stop"]
    /\ UNCHANGED << job, call, gen, last, calls >>

\* A dispatch lease runs out: its node is dead, or stalls.
Lapse(a) ==
    /\ disp[a].st = "running" /\ ~disp[a].lapsed
    /\ IF disp[a].owner = None THEN UNCHANGED faults ELSE Fault
    /\ disp' = [disp EXCEPT ![a].lapsed = TRUE]
    /\ UNCHANGED << job, run, call, gen, last, calls >>

\* An API process dies in the middle of a call.
LoseCall(c) ==
    /\ Fault
    /\ c.pc \in {"enqueue", "cancel"}
    /\ Becomes(c, {})
    /\ UNCHANGED << job, disp, run, gen, last, calls >>

----------------------------------------------------------------------------

UserNext ==
    \/ \E op \in {"start", "resume", "compile"} : Read(op)
    \/ \E c \in call : \/ Start(c) \/ Resume(c) \/ Compile(c)
                       \/ EnqueueCall(c) \/ CancelCall(c)
    \/ Refresh \/ Pause \/ Cancel
    \/ \E d \in {"approved", "changes_requested"} : Review(d)
    \/ Publish

RunStep(w) ==
    \/ Activate(w) \/ HandBack(w) \/ Forget(w)
    \/ Expire(w) \/ OverBudget(w) \/ RunFails(w) \/ Stop(w)
    \/ ClaimNextSection(w) \/ Retrieve(w) \/ RetrieveFails(w) \/ Commit(w)
    \/ BuildReport(w) \/ BuildFails(w) \/ CommitReport(w)

RunnerNext == \E w \in Runners :
    RunStep(w) \/ Heartbeat(w) \/ (\E a \in Attempts : Claim(w, a))

EnvNext ==
    \/ SwitchIndex
    \/ \E p \in Phases : DeadlinePasses(p)
    \/ \E w \in Runners : Crash(w) \/ Shutdown(w)
    \/ \E a \in Attempts : Lapse(a) \/ ReconcileLate(a)
    \/ \E c \in call : LoseCall(c)

Next == UserNext \/ RunnerNext \/ ReconcileOrphans \/ EnvNext

Spec == Init /\ [][Next]_vars

\* The dispatch thread polls and reconciles; a run that is not dead goes on;
\* a dead node's lease runs out.
FairSpec ==
    /\ Spec
    /\ \A w \in Runners : WF_vars(RunStep(w))
    /\ WF_vars(\E w \in Runners, a \in Attempts : Claim(w, a))
    /\ WF_vars(ReconcileOrphans)
    /\ WF_vars(\E a \in Attempts : disp[a].owner = None /\ Lapse(a))

----------------------------------------------------------------------------
(* Properties *)

Keys == [phase : Phases, att : 0 .. MaxAttempts]
Evidence == (0 .. MaxAttempts) \X (0 .. MaxGen)
Reports == {NoReport} \union [Sections -> Evidence]
Control == [att : 0 .. MaxAttempts, lease : Nat, drain : Nat, late : BOOLEAN,
            state : {"none", "running", "paused", "ended"}]

\* The type invariant.
TypeOK ==
    /\ job \in [status : Status, exec : 0 .. MaxAttempts, rexec : 0 .. MaxAttempts,
                evidence : Control, report : Control,
                sec : [Sections -> [st : {"pending", "running", "completed", "failed"},
                                    ev : Evidence]],
                prov : 0 .. MaxGen, rep : Reports,
                rstat : {"not_started", "generating", "failed", "ready", "published"},
                review : {"not_started", "pending", "approved", "changes_requested",
                          "published"}]
    /\ disp \in [Attempts -> [st : {"idle", "queued", "running"},
                              phase : Phases \union {"none"},
                              owner : Runners \union {None}, lapsed : BOOLEAN]]
    /\ run \in [Runners -> [pc : {"idle", "claimed", "loop", "sec", "ready", "report",
                                  "built", "drop", "return", "end"},
                            key : Keys, lease : Nat, sec : 0 .. NSections,
                            gen : 0 .. MaxGen, src : Reports, stop : {"no", "paused", "stop"}]]
    /\ call \subseteq [op : {"none", "start", "resume", "compile", "pause", "cancel"},
                       pc : {"act", "enqueue", "cancel"}, saw : BOOLEAN,
                       prov : 0 .. MaxGen, key : Keys]
    /\ gen \in Gens /\ last \in 0 .. MaxAttempts /\ calls \in Nat /\ faults \in Nat

Gathered == {s \in Sections : job.sec[s].st = "completed"}

\* Evidence is added to the record only by the attempt it names, read from the
\* index generation it names: a run that was fenced, paused, resumed, taken over or
\* outlived by a refresh adds none (_complete_section,
\* activate_distributed_attempt, _refresh_evidence).  That all evidence on record
\* is of one generation is more than the code keeps: a start that read the record
\* before the job failed restarts it with the sections of the old generation.
EvidenceOfItsAttempt ==
    [][\A s \in Sections :
         job'.sec[s].ev \notin {job.sec[s].ev, NoEvidence} =>
            /\ job'.sec[s].ev = << job.exec, job.prov >>
            /\ job'.exec = job.exec /\ job'.prov = job.prov]_vars

\* A report is under way or stands only when every section has its evidence,
\* and a report that stands was written from exactly the evidence the record
\* holds now (_begin_report, _complete_report, _refresh_evidence).
ReportMatches ==
    /\ job.status \in {"evidence_ready", "generating", "completed"} => Gathered = Sections
    /\ job.rep # NoReport => job.rep = [s \in Sections |-> job.sec[s].ev]

\* Until a user's call changes it, nothing changes a cancelled job, and in a
\* paused one no section is begun and no late failure of a draining run ends
\* the job; only the deadline may (_pause_job, _cancel_job, _fail_section).
UserWins ==
    [][calls' = calls /\ call' = call =>
        /\ job.status = "cancelled" => job' = job
        /\ job.status = "paused" =>
              /\ job'.status = "paused" \/ (job.evidence.late /\ job'.status = "failed")
              /\ \A s \in Sections :
                    job'.sec[s].st = "running" => job.sec[s].st = "running"]_vars

\* A job that runs, or whose report is being written, does not stay so: a lost
\* dispatch is queued again, a dead run is taken over, a claimed section comes
\* back (reconcile_orphans, claim, activate_distributed_attempt).
EveryRunEnds == job.status \in Live ~> job.status \notin Live
=============================================================================
