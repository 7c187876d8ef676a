------------------------------ MODULE Scheduler ------------------------------
(***************************************************************************)
(* The durable scheduler: ScheduleStore and DistributedScheduler             *)
(* (ha/scheduler.py) on top of the work queue.  Every process runs a poller;  *)
(* materialize_due turns due schedules into rows of a fire ledger, and        *)
(* dispatch_pending turns a snapshot of pending fires into jobs, one by one,  *)
(* in two transactions per fire: enqueue under the fire's idempotency key,    *)
(* then the update of the ledger.  Composes JobQueue.                         *)
(*                                                                         *)
(* Deadlines are relative to now and clock readings may be up to Lag old, as  *)
(* in JobQueue.  LIMITs are not modelled: a batch holds what there is.        *)
(***************************************************************************)
EXTENDS Integers, FiniteSets

CONSTANTS
    Schedules,          \* schedule ids
    Pollers,            \* DistributedScheduler threads, one per process
    MaxFires,           \* bound on fire_sequence
    Interval,           \* schedule_spec of interval schedules, in clock units
    Jobs, Workers,      \* as in JobQueue
    NoKey, None,
    MaxAttempts, Lease, MaxBackoff, Retention, Lag, ReapLimit, PruneLimit,
    MaxCrashes,         \* bound on pollers that stop half-way
    MaxSwitches         \* bound on operator calls of set_enabled

ASSUME ScheduleAssumption ==
    /\ Interval \in Nat \ {0}
    /\ MaxFires \in Nat \ {0}
    /\ MaxCrashes \in Nat
    /\ MaxSwitches \in Nat

VARIABLES
    jobs, keyRows, held, finishes, born,    \* JobQueue
    schedules,  \* table ha_schedules
    fires,      \* table ha_schedule_fires
    polls,      \* where run_once is in each poller
    crashes,    \* pollers stopped half-way so far
    switches    \* calls of set_enabled so far

Fires == Schedules \X (1..MaxFires)     \* fire_id: "<schedule_id>:<sequence>"

Q == INSTANCE JobQueue WITH
        Keys <- Fires, ReplayKeys <- {}, Payloads <- Schedules

\* The constants are such as the queue asks for.
ASSUME QueueAssumption ==
    /\ MaxAttempts \in Nat \ {0}
    /\ Lease \in Nat \ {0}
    /\ MaxBackoff \in Nat
    /\ Retention \in Nat
    /\ Lag \in Nat
    /\ ReapLimit \in Nat \ {0}
    /\ PruneLimit \in Nat \ {0}
    /\ NoKey \notin Fires
    /\ None \notin Jobs \union Schedules \union Q!KeyRow \union Q!Holding

qvars == <<jobs, keyRows, held, finishes, born>>
vars  == <<qvars, schedules, fires, polls, crashes, switches>>

Delays == 0..Lag
Floor  == -(Interval + Lag)

(***************************************************************************)
(* next is next_run_at.  An overdue schedule is followed down to Floor and    *)
(* then in steps of Interval, which is all that catching up can tell apart.   *)
(* A "never" schedule has a cron expression without an occurrence, such as    *)
(* February 31.                                                              *)
(***************************************************************************)
Kinds == {"once", "interval", "cron", "never"}

Schedule == [kind     : Kinds \union {"none"},
             enabled  : BOOLEAN,
             next     : (Floor - Interval)..Interval,
             sequence : 0..MaxFires]

NoSchedule == [kind |-> "none", enabled |-> FALSE, next |-> 0, sequence |-> 0]

\* keep is what is left of the retention of delivered_at.
Fire == [status : {"none", "pending", "delivered", "pruned"}, keep : 0..Retention]

\* run_once: materialize_due, then dispatch_pending reads its snapshot, then for
\* each fire of it enqueue and mark; "raised" when materialize_due has not
\* returned.
Poll == [step : {"idle", "raised", "read", "enqueue", "mark"},
         todo : SUBSET Fires,
         fire : Fires \union {None}]

Idle == [step |-> "idle", todo |-> {}, fire |-> None]

TypeOK ==
    /\ Q!TypeOK
    /\ schedules \in [Schedules -> Schedule]
    /\ fires \in [Fires -> Fire]
    /\ polls \in [Pollers -> Poll]
    /\ crashes \in 0..MaxCrashes
    /\ switches \in 0..MaxSwitches

Init ==
    /\ Q!Init
    /\ schedules = [s \in Schedules |-> NoSchedule]
    /\ fires = [f \in Fires |-> [status |-> "none", keep |-> 0]]
    /\ polls = [p \in Pollers |-> Idle]
    /\ crashes = 0
    /\ switches = 0

-----------------------------------------------------------------------------
(* Operators *)

\* create: first_run_at may be now or later.  The caller that gives it keeps
\* next_after from being asked, which would refuse a "never" schedule.
Create(s, kind, first) ==
    /\ schedules[s].kind = "none"
    /\ schedules' = [schedules EXCEPT ![s] =
                       [kind |-> kind, enabled |-> TRUE, next |-> first, sequence |-> 0]]
    /\ UNCHANGED <<qvars, fires, polls, crashes, switches>>

\* set_enabled with the row's revision; with any other it changes nothing.
SetEnabled(s, enabled) ==
    /\ schedules[s].kind # "none"
    /\ switches < MaxSwitches
    /\ switches' = switches + 1
    /\ schedules' = [schedules EXCEPT ![s].enabled = enabled]
    /\ UNCHANGED <<qvars, fires, polls, crashes>>

-----------------------------------------------------------------------------
(* Pollers *)

\* Mutant: only a schedule whose time is the present one is taken.
DueExactly(d) ==
    {s \in Schedules : /\ schedules[s].enabled
                       /\ schedules[s].next + d = 0
                       /\ schedules[s].sequence < MaxFires}

\* The rows that materialize_due selects.
Due(d) ==
    {s \in Schedules : /\ schedules[s].enabled
                       /\ Q!Past(schedules[s].next, d)
                       /\ schedules[s].sequence < MaxFires}

\* Mutant: the intervals that have passed are counted one short.
NextRunsShort(row, d) ==
    CASE row.kind = "once" -> {row.next}
      [] row.kind = "interval" ->
           LET late   == -d - row.next
               missed == IF late \div Interval > 1 THEN late \div Interval ELSE 1
           IN  {row.next + missed * Interval}
      [] row.kind = "cron" -> {t - d : t \in 1..Interval}
      [] row.kind = "never" -> {}

\* The next run of a due schedule, for a reading that is d old: a single
\* schedule is over, an interval skips what was missed and keeps its phase, a
\* cron expression has its next occurrence after the reading, or next_after
\* raises because it has none.
NextRuns(row, d) ==
    CASE row.kind = "once" -> {row.next}
      [] row.kind = "interval" ->
           LET late   == -d - row.next
               missed == late \div Interval + 1
           IN  {row.next + missed * Interval}
      [] row.kind = "cron" -> {t - d : t \in 1..Interval}
      [] row.kind = "never" -> {}

\* materialize_due: one transaction; SKIP LOCKED may hide due rows.
MaterializeDue(p, S, d) ==
    /\ polls[p].step = "idle"
    /\ S \subseteq Due(d)
    /\ \E next \in [S -> (Floor - Interval)..Interval] :
          /\ \A s \in S : next[s] \in NextRuns(schedules[s], d)
          /\ schedules' = [s \in Schedules |->
                IF s \notin S THEN schedules[s]
                ELSE [schedules[s] EXCEPT !.enabled = (schedules[s].kind # "once"),
                                          !.next = next[s],
                                          !.sequence = @ + 1]]
    /\ fires' = [f \in Fires |->
                   IF f[1] \in S /\ f[2] = schedules[f[1]].sequence + 1
                     THEN [status |-> "pending", keep |-> 0] ELSE fires[f]]
    /\ polls' = [polls EXCEPT ![p].step = "read"]
    /\ UNCHANGED <<qvars, crashes, switches>>

\* materialize_due when one of its rows has no next run: the exception of
\* next_after rolls back the fires of the whole batch and ends run_once before
\* dispatch_pending.
MaterializeFails(p, S, d) ==
    /\ polls[p].step = "idle"
    /\ S \subseteq Due(d)
    /\ \E s \in S : NextRuns(schedules[s], d) = {}
    /\ polls' = [polls EXCEPT ![p].step = "raised"]
    /\ UNCHANGED <<qvars, schedules, fires, crashes, switches>>

\* _run logs the exception, waits and polls again.
Retry(p) ==
    /\ polls[p].step = "raised"
    /\ polls' = [polls EXCEPT ![p] = Idle]
    /\ UNCHANGED <<qvars, schedules, fires, crashes, switches>>

\* dispatch_pending reads the pending fires in a transaction of its own.
ReadPending(p) ==
    /\ polls[p].step = "read"
    /\ LET pending == {f \in Fires : fires[f].status = "pending"}
       IN  polls' = [polls EXCEPT ![p] =
                       IF pending = {} THEN Idle
                       ELSE [step |-> "enqueue", todo |-> pending, fire |-> None]]
    /\ UNCHANGED <<qvars, schedules, fires, crashes, switches>>

\* Mutant: enqueue without the idempotency key's check.
EnqueueBlindly(p, f, j) ==
    /\ polls[p].step = "enqueue"
    /\ f \in polls[p].todo
    /\ jobs[j].status = "unborn"
    /\ jobs' = [jobs EXCEPT ![j] = Q!NewRow(f, f[1], None, 0)]
    /\ born' = [born EXCEPT ![f] = @ \union {j}]
    /\ polls' = [polls EXCEPT ![p].step = "mark", ![p].fire = f]
    /\ UNCHANGED <<keyRows, held, finishes, schedules, fires, crashes, switches>>

\* Mutant: an enqueue that raises is swallowed, and the fire is marked all the
\* same.
EnqueueSwallowed(p, f, j) ==
    /\ polls[p].step = "enqueue"
    /\ f \in polls[p].todo
    /\ Q!Enqueue(j, f, f[1], 0) \/ UNCHANGED qvars
    /\ polls' = [polls EXCEPT ![p].step = "mark", ![p].fire = f]
    /\ UNCHANGED <<schedules, fires, crashes, switches>>

\* jobs.enqueue under the key of the fire, whose due_at has passed: the job that
\* the key stands for, or its tombstone, is returned as it is.
Enqueue(p, f, j) ==
    /\ polls[p].step = "enqueue"
    /\ f \in polls[p].todo
    /\ \/ Q!Enqueue(j, f, f[1], 0)
       \/ keyRows[f] # None /\ UNCHANGED qvars
    /\ polls' = [polls EXCEPT ![p].step = "mark", ![p].fire = f]
    /\ UNCHANGED <<schedules, fires, crashes, switches>>

\* The fire is delivered unless another poller has said so before; the loop goes
\* on with the snapshot.
Mark(p) ==
    /\ polls[p].step = "mark"
    /\ LET f    == polls[p].fire
           rest == polls[p].todo \ {f}
       IN  /\ fires' = IF fires[f].status = "pending"
                         THEN [fires EXCEPT ![f] = [status |-> "delivered",
                                                    keep   |-> Retention]]
                         ELSE fires
           /\ polls' = [polls EXCEPT ![p] =
                          IF rest = {} THEN Idle
                          ELSE [step |-> "enqueue", todo |-> rest, fire |-> None]]
    /\ UNCHANGED <<qvars, schedules, crashes, switches>>

\* An exception ends run_once, or the process dies: the rest of the snapshot is
\* left to later polls of any process.
Crash(p) ==
    /\ polls[p].step # "idle"
    /\ crashes < MaxCrashes
    /\ crashes' = crashes + 1
    /\ polls' = [polls EXCEPT ![p] = Idle]
    /\ UNCHANGED <<qvars, schedules, fires, switches>>

-----------------------------------------------------------------------------
(* Maintenance, the queue and time *)

\* prune_delivered of the ledger.
PruneFires(S) ==
    /\ S # {}
    /\ \A f \in S : fires[f] = [status |-> "delivered", keep |-> 0]
    /\ fires' = [f \in Fires |->
                   IF f \in S THEN [status |-> "pruned", keep |-> 0] ELSE fires[f]]
    /\ UNCHANGED <<qvars, schedules, polls, crashes, switches>>

\* The queue's own steps: workers, reaper and pruning.
RunJobs ==
    /\ \/ Q!ClaimSome
       \/ \E w \in Workers : Q!Work(w) \/ Q!Drop(w)
       \/ Q!ReapSome
       \/ Q!PruneSome
    /\ UNCHANGED <<schedules, fires, polls, crashes, switches>>

Later(t) == IF t > Floor THEN t - 1 ELSE t - 1 + Interval

Tick ==
    /\ Q!Elapse
    /\ schedules' = [s \in Schedules |->
                       IF schedules[s].kind = "none" THEN schedules[s]
                       ELSE [schedules[s] EXCEPT !.next = Later(@)]]
    /\ fires' = [f \in Fires |->
                   [fires[f] EXCEPT !.keep = IF @ > 0 THEN @ - 1 ELSE @]]
    /\ <<jobs, schedules, fires>>' # <<jobs, schedules, fires>>
    /\ UNCHANGED <<polls, crashes, switches>>

Operate ==
    \E s \in Schedules :
        \/ \E kind \in Kinds, first \in 0..Interval : Create(s, kind, first)
        \/ \E enabled \in BOOLEAN : SetEnabled(s, enabled)

RunOnce(p) ==
    \/ \E S \in SUBSET Schedules, d \in Delays :
          MaterializeDue(p, S, d) \/ MaterializeFails(p, S, d)
    \/ Retry(p)
    \/ ReadPending(p)
    \/ \E f \in Fires, j \in Jobs : Enqueue(p, f, j)
    \/ Mark(p)

Next ==
    \/ Operate
    \/ \E p \in Pollers : RunOnce(p) \/ Crash(p)
    \/ \E S \in SUBSET Fires : PruneFires(S)
    \/ RunJobs
    \/ Tick

Spec == Init /\ [][Next]_vars

(***************************************************************************)
(* Fairness: pollers, workers and the maintenance runner loop forever, a      *)
(* poll that finds due schedules takes them when each has a next run, and     *)
(* time passes.                                                              *)
(***************************************************************************)
Fairness ==
    /\ WF_vars(Tick)
    /\ WF_vars(RunJobs)
    /\ \A p \in Pollers :
          /\ WF_vars(RunOnce(p))
          /\ SF_vars(\E d \in Delays : Due(d) # {} /\ MaterializeDue(p, Due(d), d))

FairSpec == Spec /\ Fairness

-----------------------------------------------------------------------------
(* Properties *)

\* One fire never becomes two jobs, however many pollers hold it in a snapshot,
\* crash between enqueue and mark, or come late when fire and job are pruned;
\* and it leaves the pending state only after it has become one.
OneJobPerFire ==
    \A f \in Fires :
        /\ \A i, j \in born[f] : i = j
        /\ fires[f].status \in {"delivered", "pruned"} => born[f] # {}

\* After an outage a schedule catches up with one fire: its next run lies after
\* the reading of the clock that fired it, and an interval keeps its phase.
CatchUp ==
    [][\A s \in Schedules :
         schedules'[s].sequence > schedules[s].sequence /\ schedules[s].kind # "once" =>
            /\ schedules'[s].next > -Lag
            /\ schedules[s].kind = "interval" =>
                  (schedules'[s].next - schedules[s].next) % Interval = 0]_vars

\* The scheduler uses the queue only as the queue allows.
ImplementsQueue == Q!Spec

\* A due schedule without a next run makes materialize_due raise in every poll.
Broken ==
    \E s \in Schedules : /\ schedules[s].kind = "never"
                         /\ schedules[s].enabled
                         /\ Q!Past(schedules[s].next, 0)

\* Every fire that was written to the ledger runs: its job ends, whichever
\* pollers and workers crash in between, unless a broken schedule keeps polls
\* from dispatch_pending.
EveryFireRuns ==
    \A f \in Fires :
        fires[f].status = "pending" ~>
            \/ \E j \in born[f] : jobs[j].status \in Q!Terminal \union {"pruned"}
            \/ Broken

\* A schedule that stays enabled fires, unless a broken schedule, of any tenant,
\* rolls back the batches it is in.
EveryScheduleFires ==
    \A s \in Schedules :
        schedules[s].enabled ~>
            (~schedules[s].enabled \/ schedules[s].sequence = MaxFires \/ Broken)
=============================================================================
