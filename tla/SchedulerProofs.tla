--------------------------- MODULE SchedulerProofs ---------------------------
(***************************************************************************)
(* Proofs about Scheduler, for any numbers of schedules, pollers and jobs    *)
(* and any bounds.  The scheduler is shown to implement JobQueue, so that     *)
(* what JobQueueProofs proves of the queue holds of it as well; SInv adds     *)
(*   TypeOK   the types, in particular the range of next_run_at;             *)
(*   FireInv  a fire about to be marked, or marked, has become a job.         *)
(***************************************************************************)
EXTENDS Scheduler, TLAPS

QP == INSTANCE JobQueueProofs WITH
         Keys <- Fires, ReplayKeys <- {}, Payloads <- Schedules

FireInv ==
    /\ \A s \in Schedules : schedules[s].enabled => schedules[s].kind # "none"
    /\ \A f \in Fires : fires[f].status \in {"delivered", "pruned"} => born[f] # {}
    /\ \A p \in Pollers : polls[p].step = "mark" =>
          polls[p].fire \in Fires /\ born[polls[p].fire] # {}

LocalTypes ==
    /\ schedules \in [Schedules -> Schedule]
    /\ fires \in [Fires -> Fire]
    /\ polls \in [Pollers -> Poll]
    /\ crashes \in 0..MaxCrashes
    /\ switches \in 0..MaxSwitches

SInv == QP!IInv /\ LocalTypes /\ FireInv

-----------------------------------------------------------------------------
(* The two instances of the queue, Q and the one under QP, are the same. *)

LEMMA SameInit == Q!Init => QP!Init
  BY DEF Q!Init, QP!Init, Q!Absent, QP!Absent, Q!AllKeys, QP!AllKeys,
         Q!ReplayIds, QP!ReplayIds

LEMMA SameType == QP!TypeOK => Q!TypeOK
  BY DEF Q!TypeOK, QP!TypeOK, Q!Row, QP!Row, Q!KeyRow, QP!KeyRow, Q!Holding, QP!Holding,
         Q!AllKeys, QP!AllKeys, Q!ReplayIds, QP!ReplayIds, Q!InTable, QP!InTable,
         Q!Waiting, QP!Waiting, Q!Terminal, QP!Terminal, Q!Clocks, QP!Clocks

LEMMA SameProduce == Q!Produce => QP!Produce
  BY ZenonT(30)
  DEF Q!Produce, QP!Produce, Q!EnqueueUnkeyed, QP!EnqueueUnkeyed, Q!Enqueue, QP!Enqueue,
      Q!ReplayDeadLetter, QP!ReplayDeadLetter, Q!RequestCancel, QP!RequestCancel,
      Q!Insert, QP!Insert, Q!NewRow, QP!NewRow, Q!Absent, QP!Absent, Q!Stored, QP!Stored,
      Q!InTable, QP!InTable, Q!Waiting, QP!Waiting, Q!Terminal, QP!Terminal,
      Q!Finished, QP!Finished

LEMMA SameClaim == Q!ClaimSome => QP!ClaimSome
  BY ZenonT(30)
  DEF Q!ClaimSome, QP!ClaimSome, Q!Claim, QP!Claim, Q!Claimable, QP!Claimable,
      Q!NewToken, QP!NewToken, Q!Past, QP!Past, Q!Delays, QP!Delays, Q!Waiting, QP!Waiting

LEMMA SameWorker ==
    ASSUME NEW w \in Workers
    PROVE  /\ Q!Work(w) => QP!Work(w)
           /\ Q!Drop(w) => QP!Drop(w)
           /\ Q!HeartbeatLost(w) => QP!HeartbeatLost(w)
           /\ \A d \in Q!Delays : Q!Heartbeat(w, d) => d \in QP!Delays /\ QP!Heartbeat(w, d)
<1>1. Q!Work(w) => QP!Work(w)
  BY ZenonT(30)
  DEF Q!Work, QP!Work, Q!Complete, QP!Complete, Q!Fail, QP!Fail, Q!Finish, QP!Finish,
      Q!FinishStatus, QP!FinishStatus, Q!Released, QP!Released, Q!Finished, QP!Finished,
      Q!Owns, QP!Owns, Q!Past, QP!Past, Q!Delays, QP!Delays, Q!Terminal, QP!Terminal
<1>2. Q!Drop(w) => QP!Drop(w)
  BY Zenon DEF Q!Drop, QP!Drop
<1>3. Q!HeartbeatLost(w) => QP!HeartbeatLost(w)
  BY Zenon DEF Q!HeartbeatLost, QP!HeartbeatLost
<1>4. \A d \in Q!Delays : Q!Heartbeat(w, d) => d \in QP!Delays /\ QP!Heartbeat(w, d)
  BY Zenon DEF Q!Heartbeat, QP!Heartbeat, Q!Owns, QP!Owns, Q!Past, QP!Past, Q!Delays, QP!Delays
<1> QED
  BY <1>1, <1>2, <1>3, <1>4

LEMMA SameReap == Q!ReapSome => QP!ReapSome
<1> SUFFICES ASSUME NEW S \in SUBSET Jobs, NEW d \in Q!Delays, Q!ReapExpired(S, d)
             PROVE  d \in QP!Delays /\ QP!ReapExpired(S, d)
  BY DEF Q!ReapSome, QP!ReapSome
<1>1. Q!Expired(d) = QP!Expired(d)
  BY DEF Q!Expired, QP!Expired, Q!Past, QP!Past
<1>2. \A j \in Jobs :
         /\ Q!ReapStatus(jobs[j]) = QP!ReapStatus(jobs[j])
         /\ Q!Released(jobs[j], Q!ReapStatus(jobs[j]), -d)
               = QP!Released(jobs[j], QP!ReapStatus(jobs[j]), -d)
  BY DEF Q!Released, QP!Released, Q!Finished, QP!Finished, Q!Terminal, QP!Terminal,
         Q!ReapStatus, QP!ReapStatus
<1>3. Q!Terminal = QP!Terminal /\ d \in QP!Delays
  BY DEF Q!Terminal, QP!Terminal, Q!Delays, QP!Delays
<1> QED
  BY <1>1, <1>2, <1>3, SMT
  DEF Q!ReapExpired, QP!ReapExpired, Q!IsBatch, QP!IsBatch, Q!Cardinality, QP!Cardinality

LEMMA SamePrune == Q!PruneSome => QP!PruneSome
<1> SUFFICES ASSUME NEW S \in SUBSET Jobs, Q!PruneTerminal(S)
             PROVE  QP!PruneTerminal(S)
  BY DEF Q!PruneSome, QP!PruneSome
<1>1. Q!Stale = QP!Stale
  BY DEF Q!Stale, QP!Stale, Q!Past, QP!Past, Q!Terminal, QP!Terminal
<1>2. Q!Absent("pruned") = QP!Absent("pruned")
  BY DEF Q!Absent, QP!Absent
<1>3. \A k : Q!Tombstone(k, S) = QP!Tombstone(k, S)
  BY Zenon DEF Q!Tombstone, QP!Tombstone
<1>4. Q!AllKeys = QP!AllKeys
  BY DEF Q!AllKeys, QP!AllKeys, Q!ReplayIds, QP!ReplayIds
<1> QED
  BY <1>1, <1>2, <1>3, <1>4, SMT
  DEF Q!PruneTerminal, QP!PruneTerminal, Q!IsBatch, QP!IsBatch,
      Q!Cardinality, QP!Cardinality, Q!PruneOrder, QP!PruneOrder

LEMMA SameTick == Q!Tick => QP!Tick
  BY ZenonT(30)
  DEF Q!Tick, QP!Tick, Q!Elapse, QP!Elapse, Q!Nearer, QP!Nearer,
      Q!Waiting, QP!Waiting, Q!Terminal, QP!Terminal

LEMMA SameNext == Q!Next => QP!Next
  BY SameProduce, SameClaim, SameWorker, SameReap, SamePrune, SameTick, Zenon
  DEF Q!Next, QP!Next

\* What the proofs about the queue show of its steps, for this instance.
LEMMA QueueInit == Q!Init => QP!IInv
  BY SameInit, QueueAssumption, QP!InitInv
  DEF QP!ReplayIds, QP!Holding, QP!AllKeys, QP!KeyRow, Q!Holding, Q!KeyRow,
      Q!Terminal, QP!Terminal

LEMMA QueueStep ==
    ASSUME QP!IInv, [Q!Next]_qvars
    PROVE  QP!IInv'
<1>1. [QP!Next]_(QP!vars)
  BY SameNext DEF qvars, QP!vars
<1> QED
  BY <1>1, QueueAssumption, QP!NextInv
  DEF QP!ReplayIds, QP!Holding, QP!AllKeys, QP!KeyRow, Q!Holding, Q!KeyRow,
      Q!Terminal, QP!Terminal

-----------------------------------------------------------------------------
(* Refinement *)

\* Every step of the scheduler is a step of the queue or leaves it alone.
LEMMA StepRefines ==
    ASSUME [Next]_vars
    PROVE  [Q!Next]_qvars
<1>1. CASE UNCHANGED qvars
  BY <1>1
<1>2. ASSUME NEW p \in Pollers, NEW f \in Fires, NEW j \in Jobs, Q!Enqueue(j, f, f[1], 0)
      PROVE  Q!Next
  <2>1. f[1] \in Schedules /\ 0 \in 0..MaxBackoff
    BY QueueAssumption DEF Fires
  <2> QED
    BY <1>2, <2>1 DEF Q!Next, Q!Produce
<1>3. CASE RunJobs
  BY <1>3 DEF RunJobs, Q!Next
<1>4. CASE Tick
  <2>1. Q!Elapse /\ UNCHANGED <<keyRows, held, finishes, born>>
    BY <1>4 DEF Tick, Q!Elapse
  <2> QED
    BY <2>1 DEF Q!Next, Q!Tick, qvars
<1>5. CASE Operate
  BY <1>5 DEF Operate, Create, SetEnabled
<1>6. ASSUME NEW p \in Pollers, RunOnce(p) \/ Crash(p)
      PROVE  [Q!Next]_qvars
  BY <1>2, <1>6
  DEF RunOnce, Crash, MaterializeDue, MaterializeFails, Retry, ReadPending, Enqueue, Mark
<1>7. ASSUME NEW S \in SUBSET Fires, PruneFires(S)
      PROVE  UNCHANGED qvars
  BY <1>7 DEF PruneFires
<1>8. CASE UNCHANGED vars
  BY <1>8 DEF vars
<1> QED
  BY <1>3, <1>4, <1>5, <1>6, <1>7, <1>8 DEF Next

\* The scheduler implements the queue: run_once only ever uses it through
\* LeaseJobStore.enqueue, under the key of a fire.
THEOREM Refines == Spec => ImplementsQueue
<1>1. Init => Q!Init
  BY DEF Init
<1>2. [Next]_vars => [Q!Next]_(Q!vars)
  BY StepRefines DEF qvars, Q!vars
<1> QED
  BY <1>1, <1>2, PTL DEF Spec, ImplementsQueue, Q!Spec

-----------------------------------------------------------------------------
(* The invariant *)

LEMMA ScheduleTypes ==
    ASSUME LocalTypes
    PROVE  /\ \A s \in Schedules :
                 /\ schedules[s].next \in Int /\ schedules[s].sequence \in Nat
                 /\ schedules[s].enabled \in BOOLEAN
                 /\ schedules[s].kind \in Kinds \union {"none"}
           /\ Interval \in Nat /\ Interval > 0 /\ Lag \in Nat /\ Floor \in Int
           /\ MaxFires \in Nat
<1>1. /\ Interval \in Nat /\ Interval > 0 /\ Lag \in Nat /\ Floor \in Int
      /\ MaxFires \in Nat
  BY ScheduleAssumption, QueueAssumption DEF Floor
<1>2. \A row \in Schedule : /\ row.next \in (Floor - Interval)..Interval
                            /\ row.sequence \in 0..MaxFires
                            /\ row.enabled \in BOOLEAN
                            /\ row.kind \in Kinds \union {"none"}
  BY Zenon DEF Schedule
<1>3. \A row \in Schedule : row.next \in Int /\ row.sequence \in Nat
  BY <1>1, <1>2
<1> QED
  BY <1>1, <1>2, <1>3 DEF LocalTypes

\* Steps that leave the ledger and the pollers to the others.
LEMMA QuietFires ==
    ASSUME SInv, LocalTypes', UNCHANGED <<fires, polls>>,
           \A f \in Fires : born[f] # {} => born'[f] # {},
           \A s \in Schedules : schedules'[s].enabled => schedules'[s].kind # "none"
    PROVE  FireInv'
  BY DEF SInv, FireInv, LocalTypes

LEMMA OperateStep ==
    ASSUME SInv, Operate
    PROVE  LocalTypes' /\ FireInv'
<1>1. /\ schedules \in [Schedules -> Schedule]
      /\ UNCHANGED <<qvars, fires, polls, crashes>>
  BY DEF SInv, LocalTypes, Operate, Create, SetEnabled
<1>2. ASSUME NEW s \in Schedules, NEW kind \in Kinds,
             NEW first \in 0..Interval, Create(s, kind, first)
      PROVE  LocalTypes' /\ FireInv'
  <2> DEFINE new == [kind |-> kind, enabled |-> TRUE, next |-> first, sequence |-> 0]
  <2>1. new \in Schedule
    <3>1. first \in (Floor - Interval)..Interval /\ 0 \in 0..MaxFires
      BY ScheduleAssumption, QueueAssumption DEF Floor
    <3> QED
      BY <3>1 DEF Schedule
  <2>2. schedules' = [schedules EXCEPT ![s] = new] /\ UNCHANGED switches
    BY <1>2 DEF Create
  <2>3. new.kind # "none"
    BY DEF Kinds
  <2> HIDE DEF new
  <2>4. LocalTypes'
    BY <1>1, <2>1, <2>2 DEF SInv, LocalTypes
  <2>5. \A q \in Schedules : schedules'[q].enabled => schedules'[q].kind # "none"
    BY <1>1, <2>2, <2>3 DEF SInv, FireInv
  <2> QED
    BY <1>1, <2>4, <2>5, QuietFires DEF qvars
<1>3. ASSUME NEW s \in Schedules, NEW enabled \in BOOLEAN, SetEnabled(s, enabled)
      PROVE  LocalTypes' /\ FireInv'
  <2> DEFINE new == [schedules[s] EXCEPT !.enabled = enabled]
  <2>1. new \in Schedule
    BY <1>1, Zenon DEF Schedule
  <2>2. schedules' = [schedules EXCEPT ![s] = new]
    BY <1>3 DEF SetEnabled
  <2>3. new.kind # "none"
    BY <1>1, <1>3 DEF SetEnabled, Schedule
  <2>4. switches' \in 0..MaxSwitches
    BY <1>3, ScheduleAssumption DEF SetEnabled, SInv, LocalTypes
  <2> HIDE DEF new
  <2>5. LocalTypes'
    BY <1>1, <2>1, <2>2, <2>4 DEF SInv, LocalTypes
  <2>6. \A q \in Schedules : schedules'[q].enabled => schedules'[q].kind # "none"
    BY <1>1, <2>2, <2>3 DEF SInv, FireInv
  <2> QED
    BY <1>1, <2>5, <2>6, QuietFires DEF qvars
<1> QED
  BY <1>2, <1>3 DEF Operate

LEMMA MaterializeStep ==
    ASSUME SInv, NEW p \in Pollers, NEW S \in SUBSET Schedules, NEW d \in Delays,
           MaterializeDue(p, S, d)
    PROVE  LocalTypes' /\ FireInv'
<1>1. /\ schedules \in [Schedules -> Schedule] /\ fires \in [Fires -> Fire]
      /\ polls \in [Pollers -> Poll]
  BY DEF SInv, LocalTypes
<1>2. PICK next \in [S -> (Floor - Interval)..Interval] :
         schedules' = [s \in Schedules |->
            IF s \notin S THEN schedules[s]
            ELSE [schedules[s] EXCEPT !.enabled = (schedules[s].kind # "once"),
                                      !.next = next[s],
                                      !.sequence = @ + 1]]
  BY DEF MaterializeDue
<1> DEFINE new(s) == [schedules[s] EXCEPT !.enabled = (schedules[s].kind # "once"),
                                          !.next = next[s],
                                          !.sequence = @ + 1]
<1>3. \A s \in S : /\ new(s) \in Schedule
                   /\ new(s).kind = schedules[s].kind
                   /\ schedules[s].kind # "none"
  <2> SUFFICES ASSUME NEW s \in S
               PROVE  /\ new(s) \in Schedule /\ new(s).kind = schedules[s].kind
                      /\ schedules[s].kind # "none"
    OBVIOUS
  <2>1. s \in Due(d)
    BY DEF MaterializeDue
  <2>2. schedules[s].enabled /\ schedules[s].sequence < MaxFires /\ schedules[s] \in Schedule
    BY <1>1, <2>1 DEF Due
  <2>3. schedules[s].sequence + 1 \in 0..MaxFires
    BY <1>1, <2>2, ScheduleTypes DEF SInv
  <2>4. (schedules[s].kind # "once") \in BOOLEAN /\ next[s] \in (Floor - Interval)..Interval
    OBVIOUS
  <2> DEFINE e == (schedules[s].kind # "once")
             n == next[s]
             q == schedules[s].sequence + 1
  <2>5. new(s) = [schedules[s] EXCEPT !.enabled = e, !.next = n, !.sequence = q]
    BY <2>2 DEF Schedule
  <2>6. e \in BOOLEAN /\ n \in (Floor - Interval)..Interval /\ q \in 0..MaxFires
    BY <2>3, <2>4
  <2> HIDE DEF new, e, n, q
  <2>7. [schedules[s] EXCEPT !.enabled = e, !.next = n, !.sequence = q] \in Schedule
    BY <2>2, <2>6, Zenon DEF Schedule
  <2>8. [schedules[s] EXCEPT !.enabled = e, !.next = n, !.sequence = q].kind = schedules[s].kind
    BY <2>2 DEF Schedule
  <2> QED
    BY <2>2, <2>5, <2>7, <2>8 DEF SInv, FireInv
<1>4. schedules' = [s \in Schedules |-> IF s \in S THEN new(s) ELSE schedules[s]]
  BY <1>2
<1> HIDE DEF new
<1>5. schedules' \in [Schedules -> Schedule]
  BY <1>1, <1>3, <1>4
<1>6. /\ fires' \in [Fires -> Fire]
      /\ \A f \in Fires : fires'[f].status \in {"delivered", "pruned"} => fires'[f] = fires[f]
  <2>1. [status |-> "pending", keep |-> 0] \in Fire
    BY QueueAssumption DEF Fire
  <2>2. fires' = [f \in Fires |->
                    IF f[1] \in S /\ f[2] = schedules[f[1]].sequence + 1
                      THEN [status |-> "pending", keep |-> 0] ELSE fires[f]]
    BY DEF MaterializeDue
  <2> QED
    BY <1>1, <2>1, <2>2
<1>7. /\ polls' \in [Pollers -> Poll]
      /\ \A q \in Pollers : polls'[q].step = "mark" => polls'[q] = polls[q]
  <2>1. [polls[p] EXCEPT !.step = "read"] \in Poll
    BY <1>1, Zenon DEF Poll
  <2>2. polls' = [polls EXCEPT ![p] = [polls[p] EXCEPT !.step = "read"]]
    BY DEF MaterializeDue
  <2>3. [polls[p] EXCEPT !.step = "read"].step = "read"
    BY <1>1 DEF Poll
  <2> QED
    BY <1>1, <2>1, <2>2, <2>3
<1>8. UNCHANGED <<born, crashes, switches>>
  BY DEF MaterializeDue, qvars
<1>9. LocalTypes'
  BY <1>5, <1>6, <1>7, <1>8 DEF SInv, LocalTypes
<1>10. \A s \in Schedules : schedules'[s].enabled => schedules'[s].kind # "none"
  BY <1>3, <1>4 DEF SInv, FireInv
<1> QED
  BY <1>6, <1>7, <1>8, <1>9, <1>10 DEF SInv, FireInv

LEMMA IdleIsPoll == Idle \in Poll /\ Idle.step = "idle"
  BY DEF Idle, Poll

\* A poller that goes on to a step other than mark.
LEMMA PollMoves ==
    ASSUME SInv, NEW p \in Pollers, NEW new \in Poll, new.step # "mark",
           polls' = [polls EXCEPT ![p] = new],
           fires' \in [Fires -> Fire],
           \A f \in Fires : fires'[f].status \in {"delivered", "pruned"} => born[f] # {},
           UNCHANGED <<born, schedules, switches>>, crashes' \in 0..MaxCrashes
    PROVE  LocalTypes' /\ FireInv'
<1>1. polls' \in [Pollers -> Poll]
  BY DEF SInv, LocalTypes
<1>2. \A q \in Pollers : polls'[q].step = "mark" => polls'[q] = polls[q]
  BY DEF SInv, LocalTypes
<1> QED
  BY <1>1, <1>2 DEF SInv, LocalTypes, FireInv

LEMMA FailStep ==
    ASSUME SInv, NEW p \in Pollers,
           \/ Retry(p)
           \/ \E S \in SUBSET Schedules, d \in Delays : MaterializeFails(p, S, d)
    PROVE  LocalTypes' /\ FireInv'
<1> DEFINE raised == [polls[p] EXCEPT !.step = "raised"]
<1>1. polls[p] \in Poll
  BY DEF SInv, LocalTypes
<1>2. raised \in Poll
  BY <1>1, Zenon DEF Poll
<1>3. raised.step = "raised"
  BY <1>1 DEF Poll
<1>4. /\ polls' = [polls EXCEPT ![p] = raised] \/ polls' = [polls EXCEPT ![p] = Idle]
      /\ UNCHANGED <<born, fires, schedules, crashes, switches>>
  BY DEF Retry, MaterializeFails, qvars
<1>5. PICK new \in {raised, Idle} : polls' = [polls EXCEPT ![p] = new]
  BY <1>4
<1> HIDE DEF raised
<1>6. new \in Poll /\ new.step # "mark"
  BY <1>2, <1>3, IdleIsPoll
<1> QED
  BY <1>4, <1>5, <1>6, PollMoves DEF SInv, LocalTypes, FireInv

LEMMA ReadStep ==
    ASSUME SInv, NEW p \in Pollers, ReadPending(p)
    PROVE  LocalTypes' /\ FireInv'
<1> DEFINE pending == {f \in Fires : fires[f].status = "pending"}
           next == IF pending = {} THEN Idle
                   ELSE [step |-> "enqueue", todo |-> pending, fire |-> None]
<1>1. next \in Poll /\ next.step # "mark"
  <2>1. [step |-> "enqueue", todo |-> pending, fire |-> None] \in Poll
    BY DEF Poll
  <2> QED
    BY <2>1, IdleIsPoll
<1>2. polls' = [polls EXCEPT ![p] = next] /\ UNCHANGED <<born, fires, schedules, crashes, switches>>
  BY DEF ReadPending, qvars
<1> HIDE DEF next
<1> QED
  BY <1>1, <1>2, PollMoves DEF SInv, LocalTypes, FireInv

LEMMA MarkStep ==
    ASSUME SInv, NEW p \in Pollers, Mark(p)
    PROVE  LocalTypes' /\ FireInv'
<1> DEFINE f    == polls[p].fire
           rest == polls[p].todo \ {f}
           next == IF rest = {} THEN Idle
                   ELSE [step |-> "enqueue", todo |-> rest, fire |-> None]
<1>1. /\ polls[p].step = "mark"
      /\ fires' = IF fires[f].status = "pending"
                    THEN [fires EXCEPT ![f] = [status |-> "delivered", keep |-> Retention]]
                    ELSE fires
      /\ polls' = [polls EXCEPT ![p] = next]
      /\ UNCHANGED <<born, schedules, crashes, switches>>
  BY DEF Mark, qvars
<1>2. f \in Fires /\ born[f] # {}
  BY <1>1 DEF SInv, FireInv
<1>3. next \in Poll /\ next.step # "mark"
  <2>1. rest \subseteq Fires
    BY DEF SInv, LocalTypes, Poll
  <2>2. [step |-> "enqueue", todo |-> rest, fire |-> None] \in Poll
    BY <2>1 DEF Poll
  <2> QED
    BY <2>2, IdleIsPoll
<1> HIDE DEF next, f
<1>4. [status |-> "delivered", keep |-> Retention] \in Fire
  BY QueueAssumption DEF Fire
<1>5. fires' \in [Fires -> Fire]
  BY <1>1, <1>4 DEF SInv, LocalTypes
<1>6. \A i \in Fires : i # f => fires'[i] = fires[i]
  BY <1>1 DEF SInv, LocalTypes
<1>7. \A i \in Fires : fires'[i].status \in {"delivered", "pruned"} => born[i] # {}
  BY <1>2, <1>6 DEF SInv, FireInv
<1> QED
  BY <1>1, <1>3, <1>5, <1>7, PollMoves DEF SInv, LocalTypes

LEMMA CrashStep ==
    ASSUME SInv, NEW p \in Pollers, Crash(p)
    PROVE  LocalTypes' /\ FireInv'
<1>1. polls' = [polls EXCEPT ![p] = Idle] /\ UNCHANGED <<born, fires, schedules, switches>>
  BY DEF Crash, qvars
<1>2. crashes' \in 0..MaxCrashes
  BY ScheduleAssumption DEF Crash, SInv, LocalTypes
<1> QED
  BY <1>1, <1>2, IdleIsPoll, PollMoves DEF SInv, LocalTypes, FireInv

\* Whether the queue inserts a job or answers from its key table, the fire has
\* become a job when it comes to be marked.
LEMMA EnqueueStep ==
    ASSUME SInv, QP!IInv', NEW p \in Pollers, NEW f \in Fires, NEW j \in Jobs,
           Enqueue(p, f, j)
    PROVE  LocalTypes' /\ FireInv'
<1>1. UNCHANGED <<schedules, fires, crashes, switches>>
  BY DEF Enqueue
<1> DEFINE new == [polls[p] EXCEPT !.step = "mark", !.fire = f]
<1>2. polls[p] \in Poll /\ polls \in [Pollers -> Poll]
  BY DEF SInv, LocalTypes
<1>3. polls' = [polls EXCEPT ![p] = new]
  BY <1>2 DEF Enqueue, Poll
<1>4. new \in Poll /\ new.fire = f
  <2>1. new \in Poll
    BY <1>2, Zenon DEF Poll
  <2>2. new.fire = f
    BY <1>2 DEF Poll
  <2> QED
    BY <2>1, <2>2
<1>5. keyRows'[f] # None /\ \A i \in Fires : born[i] # {} => born'[i] # {}
  <2>1. CASE Q!Enqueue(j, f, f[1], 0)
    <3>1. f \in QP!AllKeys /\ f # NoKey
      BY QueueAssumption DEF QP!AllKeys
    <3>2. /\ keyRows \in [QP!AllKeys -> QP!KeyRow \union {None}]
          /\ born \in [QP!AllKeys -> SUBSET Jobs]
      BY DEF SInv, QP!IInv, QP!TypeOK
    <3> DEFINE row == [job |-> j, fingerprint |-> f[1], terminal |-> None]
    <3>3. /\ keyRows' = [keyRows EXCEPT ![f] = row]
          /\ born' = [born EXCEPT ![f] = @ \union {j}]
      BY <2>1, <3>1 DEF Q!Enqueue, Q!Insert
    <3>4. row # None
      <4>1. row \in Q!KeyRow
        BY DEF Q!KeyRow, Fires
      <4> QED
        BY <4>1, QueueAssumption
    <3>5. Fires \subseteq QP!AllKeys
      BY DEF QP!AllKeys
    <3> HIDE DEF row
    <3> QED
      BY <3>1, <3>2, <3>3, <3>4, <3>5
  <2>2. CASE keyRows[f] # None /\ UNCHANGED qvars
    BY <2>2 DEF qvars
  <2> QED
    BY <2>1, <2>2 DEF Enqueue
<1>6. born'[f] # {}
  BY <1>5 DEF QP!IInv, QP!KeyInv
<1> HIDE DEF new
<1>7. polls' \in [Pollers -> Poll] /\ \A q \in Pollers : q # p => polls'[q] = polls[q]
  BY <1>2, <1>3, <1>4
<1>8. polls'[p] = new
  BY <1>2, <1>3
<1>9. LocalTypes'
  BY <1>1, <1>7 DEF SInv, LocalTypes
<1>10. \A q \in Pollers : polls'[q].step = "mark" =>
          polls'[q].fire \in Fires /\ born'[polls'[q].fire] # {}
  BY <1>4, <1>5, <1>6, <1>7, <1>8 DEF SInv, FireInv
<1> QED
  BY <1>1, <1>5, <1>9, <1>10 DEF SInv, FireInv

LEMMA PruneStep ==
    ASSUME SInv, NEW S \in SUBSET Fires, PruneFires(S)
    PROVE  LocalTypes' /\ FireInv'
<1>1. UNCHANGED <<born, schedules, polls, crashes, switches>>
  BY DEF PruneFires, qvars
<1>2. [status |-> "pruned", keep |-> 0] \in Fire
  BY QueueAssumption DEF Fire
<1>3. fires' \in [Fires -> Fire]
  BY <1>2 DEF PruneFires, SInv, LocalTypes
<1>4. \A f \in Fires : fires'[f].status \in {"delivered", "pruned"} =>
         fires[f].status \in {"delivered", "pruned"}
  BY DEF PruneFires
<1>5. LocalTypes'
  BY <1>1, <1>3 DEF SInv, LocalTypes
<1> QED
  BY <1>1, <1>4, <1>5 DEF SInv, FireInv

LEMMA TickStep ==
    ASSUME SInv, Tick
    PROVE  LocalTypes' /\ FireInv'
<1>1. UNCHANGED <<born, polls, crashes, switches>>
  BY DEF Tick, Q!Elapse
<1>2. schedules \in [Schedules -> Schedule] /\ fires \in [Fires -> Fire]
  BY DEF SInv, LocalTypes
<1>3. \A s \in Schedules : /\ schedules'[s] \in Schedule
                           /\ schedules'[s].enabled = schedules[s].enabled
                           /\ schedules'[s].kind = schedules[s].kind
  <2> SUFFICES ASSUME NEW s \in Schedules
               PROVE  /\ schedules'[s] \in Schedule
                      /\ schedules'[s].enabled = schedules[s].enabled
                      /\ schedules'[s].kind = schedules[s].kind
    OBVIOUS
  <2> DEFINE t == Later(schedules[s].next)
  <2>1. schedules[s] \in Schedule /\ schedules[s].next \in (Floor - Interval)..Interval
    BY <1>2 DEF Schedule
  <2>2. t \in (Floor - Interval)..Interval
    BY <2>1, ScheduleTypes DEF Later, SInv, Floor
  <2>3. schedules'[s] = schedules[s] \/ schedules'[s] = [schedules[s] EXCEPT !.next = t]
    BY DEF Tick
  <2> HIDE DEF t
  <2>4. [schedules[s] EXCEPT !.next = t] \in Schedule
    BY <2>1, <2>2, Zenon DEF Schedule
  <2>5. /\ [schedules[s] EXCEPT !.next = t].enabled = schedules[s].enabled
        /\ [schedules[s] EXCEPT !.next = t].kind = schedules[s].kind
    BY <2>1 DEF Schedule
  <2> QED
    BY <2>1, <2>3, <2>4, <2>5
<1>4. \A f \in Fires : fires'[f] \in Fire /\ fires'[f].status = fires[f].status
  <2> SUFFICES ASSUME NEW f \in Fires
               PROVE  fires'[f] \in Fire /\ fires'[f].status = fires[f].status
    OBVIOUS
  <2> DEFINE k == IF fires[f].keep > 0 THEN fires[f].keep - 1 ELSE fires[f].keep
  <2>1. fires[f] \in Fire /\ k \in 0..Retention
    BY <1>2, QueueAssumption DEF Fire
  <2>2. fires'[f] = [fires[f] EXCEPT !.keep = k]
    BY DEF Tick
  <2> HIDE DEF k
  <2>3. [fires[f] EXCEPT !.keep = k] \in Fire
    BY <2>1, Zenon DEF Fire
  <2>4. [fires[f] EXCEPT !.keep = k].status = fires[f].status
    BY <2>1 DEF Fire
  <2> QED
    BY <2>2, <2>3, <2>4
<1>5. schedules' \in [Schedules -> Schedule] /\ fires' \in [Fires -> Fire]
  BY <1>3, <1>4 DEF Tick
<1>6. LocalTypes'
  BY <1>1, <1>5 DEF SInv, LocalTypes
<1> QED
  BY <1>1, <1>3, <1>4, <1>6 DEF SInv, FireInv

LEMMA RunJobsStep ==
    ASSUME SInv, RunJobs
    PROVE  LocalTypes' /\ FireInv'
<1>1. UNCHANGED <<born, schedules, fires, polls, crashes, switches>>
  BY DEF RunJobs, Q!ClaimSome, Q!Claim, Q!Work, Q!Complete, Q!Fail, Q!Finish, Q!Drop,
         Q!ReapSome, Q!ReapExpired, Q!PruneSome, Q!PruneTerminal
<1> QED
  BY <1>1 DEF SInv, LocalTypes, FireInv

LEMMA NextSInv == SInv /\ [Next]_vars => SInv'
<1> SUFFICES ASSUME SInv, [Next]_vars PROVE SInv'
  OBVIOUS
<1>1. QP!IInv'
  BY StepRefines, QueueStep DEF SInv
<1>2. CASE UNCHANGED vars
  BY <1>1, <1>2 DEF vars, qvars, SInv, LocalTypes, FireInv
<1>3. ASSUME NEW p \in Pollers, RunOnce(p) \/ Crash(p)
      PROVE  LocalTypes' /\ FireInv'
  BY <1>1, <1>3, MaterializeStep, FailStep, ReadStep, EnqueueStep, MarkStep, CrashStep
  DEF RunOnce
<1> QED
  BY <1>1, <1>2, <1>3, OperateStep, PruneStep, RunJobsStep, TickStep DEF Next, SInv

LEMMA InitSInv == Init => SInv
<1> SUFFICES ASSUME Init PROVE SInv
  OBVIOUS
<1>1. NoSchedule \in Schedule /\ ~NoSchedule.enabled
  <2>1. 0 \in (Floor - Interval)..Interval /\ 0 \in 0..MaxFires
    BY ScheduleAssumption, QueueAssumption DEF Floor
  <2> QED
    BY <2>1 DEF NoSchedule, Schedule
<1>2. [status |-> "none", keep |-> 0] \in Fire
  BY QueueAssumption DEF Fire
<1>3. LocalTypes
  BY <1>1, <1>2, IdleIsPoll, ScheduleAssumption DEF Init, LocalTypes
<1>4. FireInv
  BY <1>1, IdleIsPoll DEF Init, FireInv
<1>5. QP!IInv
  BY QueueInit DEF Init
<1> QED
  BY <1>3, <1>4, <1>5 DEF SInv

-----------------------------------------------------------------------------
(* Theorems *)

\* The strengthened invariant holds in every reachable state.
THEOREM Inductive == Spec => []SInv
  BY InitSInv, NextSInv, PTL DEF Spec

\* Every variable keeps its type: next_run_at stays within reach of the present,
\* however long a schedule was overdue.
THEOREM TypeCorrect == Spec => []TypeOK
<1>1. SInv => TypeOK
  BY SameType DEF SInv, QP!IInv, LocalTypes, TypeOK
<1> QED
  BY <1>1, Inductive, PTL

\* A fire becomes at most one job, and one before it counts as delivered: the
\* idempotency key of the fire carries dispatch_pending across crashes between
\* its two transactions and across pruning.
THEOREM FiresSafe == Spec => []OneJobPerFire
<1>1. SInv => OneJobPerFire
  BY DEF SInv, QP!IInv, QP!KeyInv, FireInv, OneJobPerFire
<1> QED
  BY <1>1, Inductive, PTL

\* What materialize_due computes for a due interval lies after the reading of the
\* clock and a whole number of intervals after the run that was due.
LEMMA IntervalSkips ==
    ASSUME NEW t \in Int, NEW d \in Nat, Interval \in Nat \ {0}
    PROVE  LET n == t + ((-d - t) \div Interval + 1) * Interval
           IN  n \in Int /\ n > -d /\ (n - t) % Interval = 0
<1> DEFINE q == (-d - t) \div Interval + 1
<1>1. q \in Int
  OBVIOUS
<1>2. q * Interval > -d - t
  OBVIOUS
<1> HIDE DEF q
<1>3. q * Interval \in Int /\ (q * Interval) % Interval = 0
  BY <1>1
<1>4. (t + q * Interval) - t = q * Interval
  BY <1>3
<1>5. t + q * Interval \in Int /\ t + q * Interval > -d
  BY <1>2, <1>3
<1>6. t + q * Interval = t + ((-d - t) \div Interval + 1) * Interval
  BY DEF q
<1>7. ((t + q * Interval) - t) % Interval = 0
  BY <1>3, <1>4
<1> QED
  BY <1>5, <1>6, <1>7

\* A schedule that was overdue by any number of intervals fires once and is next
\* due after the clock reading that fired it, in the phase it had
\* (materialize_due).
THEOREM CatchesUp == Spec => CatchUp
<1> DEFINE A == \A s \in Schedules :
         schedules'[s].sequence > schedules[s].sequence /\ schedules[s].kind # "once" =>
            /\ schedules'[s].next > -Lag
            /\ schedules[s].kind = "interval" =>
                  (schedules'[s].next - schedules[s].next) % Interval = 0
<1>1. SInv /\ [Next]_vars => [A]_vars
  <2> SUFFICES ASSUME SInv, Next, NEW s \in Schedules,
                      schedules'[s].sequence > schedules[s].sequence,
                      schedules[s].kind # "once"
               PROVE  /\ schedules'[s].next > -Lag
                      /\ schedules[s].kind = "interval" =>
                            (schedules'[s].next - schedules[s].next) % Interval = 0
    OBVIOUS
  <2>1. /\ schedules \in [Schedules -> Schedule] /\ schedules[s] \in Schedule
        /\ schedules[s].sequence \in Nat /\ schedules[s].next \in Int
    BY ScheduleTypes DEF SInv, LocalTypes
  <2>2. schedules'[s] # schedules[s] /\ schedules'[s].sequence # schedules[s].sequence
    BY <2>1
  <2>3. ~Tick
    BY <2>1, <2>2 DEF Tick, Schedule
  <2>4. ~Operate
    <3>1. ASSUME NEW q \in Schedules, NEW kind, NEW first, Create(q, kind, first)
          PROVE  FALSE
      <4>1. schedules'[q].sequence = 0 /\ (q # s => schedules'[s] = schedules[s])
        BY <2>1, <3>1 DEF Create
      <4>2. q = s
        BY <2>2, <4>1
      <4> QED
        BY <2>1, <4>1, <4>2
    <3>2. ASSUME NEW q \in Schedules, NEW enabled, SetEnabled(q, enabled)
          PROVE  FALSE
      BY <2>1, <2>2, <3>2 DEF SetEnabled, Schedule
    <3> QED
      BY <3>1, <3>2 DEF Operate
  <2>5. PICK p \in Pollers, S \in SUBSET Schedules, d \in Delays : MaterializeDue(p, S, d)
    BY <2>2, <2>3, <2>4
    DEF Next, RunOnce, MaterializeFails, Retry, Crash, ReadPending, Enqueue, Mark, PruneFires,
        RunJobs
  <2>6. PICK next \in [S -> (Floor - Interval)..Interval] :
           /\ \A q \in S : next[q] \in NextRuns(schedules[q], d)
           /\ schedules' = [q \in Schedules |->
                 IF q \notin S THEN schedules[q]
                 ELSE [schedules[q] EXCEPT !.enabled = (schedules[q].kind # "once"),
                                           !.next = next[q],
                                           !.sequence = @ + 1]]
    BY <2>5 DEF MaterializeDue
  <2>7. s \in S
    BY <2>2, <2>6
  <2>8. schedules'[s].next = next[s]
    BY <2>1, <2>6, <2>7 DEF Schedule
  <2>9. next[s] \in NextRuns(schedules[s], d)
    BY <2>6, <2>7
  <2>10. schedules[s].kind \in {"interval", "cron"}
    <3>1. s \in Due(d)
      BY <2>5, <2>7 DEF MaterializeDue
    <3> QED
      BY <2>1, <2>9, <3>1 DEF Due, SInv, FireInv, Schedule, Kinds, NextRuns
  <2>11. d \in Nat /\ d <= Lag /\ Lag \in Nat /\ Interval \in Nat \ {0}
    BY QueueAssumption, ScheduleAssumption DEF Delays
  <2>12. CASE schedules[s].kind = "interval"
    <3>1. next[s] = schedules[s].next + ((-d - schedules[s].next) \div Interval + 1) * Interval
      BY <2>9, <2>12 DEF NextRuns
    <3>2. /\ next[s] \in Int /\ next[s] > -d
          /\ (next[s] - schedules[s].next) % Interval = 0
      BY <2>1, <2>11, <3>1, IntervalSkips
    <3>3. next[s] > -Lag
      BY <2>11, <3>2
    <3> QED
      BY <2>8, <3>2, <3>3
  <2>13. CASE schedules[s].kind = "cron"
    <3>1. PICK t \in 1..Interval : next[s] = t - d
      BY <2>9, <2>13 DEF NextRuns
    <3>2. next[s] > -Lag
      BY <2>11, <3>1
    <3> QED
      BY <2>8, <2>13, <3>2
  <2> QED
    BY <2>10, <2>12, <2>13
<1> QED
  BY <1>1, Inductive, PTL DEF Spec, CatchUp
==============================================================================
