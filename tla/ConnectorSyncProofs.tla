------------------------ MODULE ConnectorSyncProofs ------------------------
(***************************************************************************)
(* Proofs about ConnectorSync, for any numbers of nodes, jobs, changes,    *)
(* attempts, index jobs, switches and faults.  SInv is inductive by itself *)
(* and gives what holds of the jobs' outcomes; CInv is about contents and  *)
(* cursors, and is inductive as long as every hand-off is kept.            *)
(***************************************************************************)
EXTENDS ConnectorSync, WellFoundedInduction, TLAPS

-----------------------------------------------------------------------------
(* The invariants *)

Crossed == {"committing", "succeeded"}
Before == {"paging", "prepare", "upload", "insert", "cross"}
After == {"commit", "submit", "record", "poll", "complete"}

OneActive == \A i, k \in Jobs : Active(i) /\ Active(k) => i = k

\* What a worker's place in the code says of its row: a token before the
\* boundary is of a job that has not crossed, one after it of a job that has,
\* and a worker with authority over the commit can only preserve it.
WorkerOK(n) ==
    LET w == wk[n]
    IN  /\ w.pc = "idle" => ~w.tok /\ ~w.kb /\ ~w.auth /\ w.job = 0
        /\ w.pc # "idle" => w.job \in Jobs /\ job[w.job].status # "unborn"
        /\ w.pc = "entered" => ~w.tok /\ ~w.auth
        /\ w.pc \in Before => ~w.auth
        /\ w.pc \in After => w.auth
        /\ w.pc = "finalize" => w.auth /\ ~w.tok /\ job[w.job].status = "succeeded"
        /\ w.pc \in {"abort", "settle"} => (w.auth <=> w.out = "preserve")
        /\ w.pc \in {"abort", "settle"} => w.out # "none"
        /\ w.pc = "record" => w.ix < MaxIndexJobs
        /\ w.pc \in {"poll", "complete"} => w.ix > 0
        /\ w.tok /\ ~w.auth => job[w.job].status \in {"running", "cancelled"}
        /\ w.auth => job[w.job].status \in Crossed
        /\ w.tok /\ w.auth => job[w.job].status = "committing"

OneToken == \A m, n \in Nodes : wk[m].tok /\ wk[n].tok /\ wk[m].job = wk[n].job => m = n

\* Nothing of a job is visible before it crossed.
Visible ==
    /\ \A j \in Jobs, i \in 1 .. MaxIndexJobs :
          index[j][i].status # "none" => job[j].status \in Crossed
    /\ \A j \in published : job[j].status \in Crossed

\* A switch that has begun can be counted.
SwitchOK == conn.leaving => conn.rev < MaxSwitches

SInv ==
    /\ TypeOK
    /\ SwitchOK
    /\ CancelHolds
    /\ OneActive
    /\ \A n \in Nodes : WorkerOK(n)
    /\ OneToken
    /\ Visible

-----------------------------------------------------------------------------
(* Types *)

\* The job that a new row takes.
LEMMA FreshJob ==
    ASSUME TypeOK, \E j \in Jobs : job[j].status = "unborn"
    PROVE  FreshId \in Jobs /\ job[FreshId].status = "unborn"
<1> DEFINE R == {ss \in Nat \X Nat : ss[1] < ss[2]}
           S == {j \in Jobs : job[j].status = "unborn"}
<1>1. S \in SUBSET Nat /\ S # {}
  BY BoundsAssumption DEF Jobs
<1>2. \E m \in S : \A t \in S : << t, m >> \notin OpToRel(<, Nat)
  BY <1>1, NatLessThanWellFounded, WFMin
<1>3. OpToRel(<, Nat) = R
  BY DEF OpToRel
<1>4. \A x, y \in Nat : x < y => << x, y >> \in R
  OBVIOUS
<1> HIDE DEF R
<1>5. PICK m \in S : \A t \in S : << t, m >> \notin R
  BY <1>2, <1>3
<1>6. m \in Jobs /\ m \in Nat /\ \A t \in S : t \in Nat /\ ~(t < m)
  BY <1>1, <1>4, <1>5
<1>7. \A i \in 1 .. (m - 1) : i \in Jobs /\ i < m
  BY <1>6, BoundsAssumption DEF Jobs
<1>8. job[m].status = "unborn" /\ \A i \in 1 .. (m - 1) : job[i].status # "unborn"
  BY <1>6, <1>7
<1>9. QED
  BY <1>6, <1>8 DEF FreshId

LEMMA InitType == Init => TypeOK
  BY BoundsAssumption DEF Init, TypeOK, Unborn, NoHand, NoIndex, Idle, JobRow, HandRow,
     IndexRow, Worker, ManifestType, Cursors, Contents, Status, ActiveStatus

LEMMA IdleType == Idle \in Worker
  BY BoundsAssumption DEF Idle, Worker, Cursors, Contents

LEMMA RaisedType ==
    ASSUME NEW w \in Worker, NEW out \in {"cancel", "retry", "dead", "fail", "preserve"}
    PROVE  Raised(w, out) \in Worker
<1> DEFINE a == [Idle EXCEPT !.pc = "abort", !.job = w.job]
           b == [a EXCEPT !.tok = w.tok, !.kb = w.kb]
           c == [b EXCEPT !.auth = w.auth, !.out = out]
<1>1. a \in Worker
  BY IdleType DEF Worker
<1>2. b \in Worker
  <2> HIDE DEF a
  <2> QED BY <1>1 DEF Worker
<1>3. c \in Worker
  <2> HIDE DEF b
  <2> QED BY <1>2 DEF Worker
<1>4. Raised(w, out) = c
  BY DEF Raised
<1>5. QED
  BY <1>3, <1>4

LEMMA RaisedFields ==
    ASSUME NEW w, NEW out
    PROVE  LET r == Raised(w, out)
           IN  /\ r.pc = "abort" /\ r.job = w.job /\ r.tok = w.tok /\ r.kb = w.kb
               /\ r.auth = w.auth /\ r.out = out /\ r.cur = 0
  BY DEF Raised, Idle

LEMMA CancelledType == ASSUME NEW r \in JobRow PROVE CancelledRow(r) \in JobRow
  BY DEF CancelledRow, JobRow, Status

LEMMA CreatedType ==
    ASSUME NEW cursor \in Cursors, NEW rev \in 0 .. MaxSwitches
    PROVE  Created(cursor, rev) \in JobRow
  BY BoundsAssumption DEF Created, Unborn, JobRow, Status, ActiveStatus, Cursors

LEMMA AcquiredType == ASSUME NEW r \in JobRow PROVE Acquired(r) \in JobRow
<1>1. CASE r.status = "committing"
  BY <1>1 DEF Acquired, JobRow
<1>2. CASE r.status # "committing"
  <2>1. Acquired(r) = [status |-> "running", cancel |-> r.cancel, live |-> TRUE,
                       attempt |-> r.attempt + 1, cursor |-> r.start, start |-> r.start,
                       rev |-> r.rev, cleanup |-> r.cleanup]
    BY <1>2 DEF Acquired, JobRow
  <2>2. QED
    BY <2>1 DEF JobRow, Status, ActiveStatus
<1>3. QED
  BY <1>1, <1>2

LEMMA WorkerTypes ==
    ASSUME TypeOK, NEW n \in Nodes
    PROVE  /\ wk[n] \in Worker
           /\ \A pc \in {"upload", "insert", "cross", "commit", "submit", "record", "poll",
                         "complete", "settle"} :
                 Goto(n, pc) => wk' \in [Nodes -> Worker]
           /\ \A out \in {"cancel", "retry", "dead", "fail", "preserve"} :
                 Raise(n, out) => wk' \in [Nodes -> Worker]
           /\ Left(n) => wk' \in [Nodes -> Worker]
<1>1. wk[n] \in Worker
  BY DEF TypeOK
<1>2. ASSUME NEW pc \in {"upload", "insert", "cross", "commit", "submit", "record", "poll",
                         "complete", "settle"}, Goto(n, pc)
      PROVE  wk' \in [Nodes -> Worker]
  <2>1. [wk[n] EXCEPT !.pc = pc] \in Worker
    BY <1>1 DEF Worker
  <2>2. QED
    BY <1>2, <2>1 DEF Goto, TypeOK
<1>3. ASSUME NEW out \in {"cancel", "retry", "dead", "fail", "preserve"}, Raise(n, out)
      PROVE  wk' \in [Nodes -> Worker]
  BY <1>1, <1>3, RaisedType DEF Raise, TypeOK
<1>4. ASSUME Left(n)
      PROVE  wk' \in [Nodes -> Worker]
  BY <1>4, IdleType DEF Left, TypeOK
<1>5. QED
  BY <1>1, <1>2, <1>3, <1>4

\* The control plane and the leases.
Control ==
    \/ Change \/ ReadCheckpoint \/ CreateIfIdle \/ CancelConnection
    \/ \E enabled \in BOOLEAN : SetEnabled(enabled)
    \/ ExpireKb
    \/ \E j \in Jobs : Replay(j) \/ RequestCancel(j) \/ CleanTerminal(j) \/ ExpireJob(j)
    \/ \E n \in Nodes, j \in Jobs : Refuse(n, j)

LEMMA ControlType == ASSUME TypeOK, SwitchOK, kept' \in BOOLEAN, Control PROVE TypeOK'
<1>1. CASE Change
  BY <1>1, BoundsAssumption DEF Change, TypeOK, Cursors
<1>2. CASE ReadCheckpoint
  BY <1>2 DEF ReadCheckpoint, TypeOK
<1>3. ASSUME \E j \in Jobs : job[j].status = "unborn",
             NEW c \in Cursors, NEW r \in 0 .. MaxSwitches,
             job' = [job EXCEPT ![FreshId] = Created(c, r)]
      PROVE  job' \in [Jobs -> JobRow]
  BY <1>3, FreshJob, CreatedType DEF TypeOK
<1>4. CASE CreateIfIdle
  <2>1. req.cursor \in Cursors /\ req.rev \in 0 .. MaxSwitches
    BY <1>4 DEF CreateIfIdle, TypeOK
  <2>2. job' \in [Jobs -> JobRow]
    BY <1>3, <1>4, <2>1 DEF CreateIfIdle, TypeOK
  <2>3. QED
    BY <1>4, <2>2 DEF CreateIfIdle, TypeOK
<1>5. CASE \E j \in Jobs : Replay(j)
  <2>1. job' \in [Jobs -> JobRow]
    BY <1>3, <1>5 DEF Replay, TypeOK
  <2>2. QED
    BY <1>5, <2>1 DEF Replay, TypeOK
<1>6. CASE CancelConnection
  <2>1. job' \in [Jobs -> JobRow]
    BY <1>6, CancelledType DEF CancelConnection, TypeOK
  <2>2. QED
    BY <1>6, <2>1 DEF CancelConnection, TypeOK
<1>7. CASE \E enabled \in BOOLEAN : SetEnabled(enabled)
  <2>1. PICK e \in BOOLEAN : SetEnabled(e)
    BY <1>7
  <2>2. conn.rev < MaxSwitches /\ conn.rev \in 0 .. MaxSwitches
    BY <2>1 DEF SetEnabled, SwitchOK, TypeOK
  <2>3. QED
    BY <2>1, <2>2, BoundsAssumption DEF SetEnabled, TypeOK
<1>8. CASE ExpireKb
  BY <1>8 DEF ExpireKb, TypeOK
<1>9. ASSUME NEW j \in Jobs, RequestCancel(j) \/ \E n \in Nodes : Refuse(n, j)
      PROVE  TypeOK'
  <2>1. job' \in [Jobs -> JobRow]
    BY <1>9, CancelledType DEF RequestCancel, Refuse, TypeOK
  <2>2. QED
    BY <1>9, <2>1 DEF RequestCancel, Refuse, TypeOK
<1>10. ASSUME NEW j \in Jobs, CleanTerminal(j) \/ ExpireJob(j)
       PROVE  TypeOK'
  <2>1. job[j] \in JobRow /\ hand[j] \in HandRow
    BY DEF TypeOK
  <2>2. [job[j] EXCEPT !.cleanup = FALSE] \in JobRow /\ [job[j] EXCEPT !.live = FALSE] \in JobRow
    BY <2>1 DEF JobRow
  <2>3. Collected(hand[j]) \in HandRow
    BY <2>1, BoundsAssumption DEF Collected, NoHand, HandRow, ManifestType
  <2>4. CASE CleanTerminal(j)
    <3>1. job' \in [Jobs -> JobRow] /\ hand' \in [Jobs -> HandRow]
      BY <2>2, <2>3, <2>4 DEF CleanTerminal, TypeOK
    <3>2. QED
      BY <2>4, <3>1 DEF CleanTerminal, TypeOK
  <2>5. CASE ExpireJob(j)
    <3>1. job' \in [Jobs -> JobRow]
      BY <2>2, <2>5 DEF ExpireJob, TypeOK
    <3>2. QED
      BY <2>5, <3>1 DEF ExpireJob, TypeOK
  <2>6. QED
    BY <1>10, <2>4, <2>5
<1>11. QED
  BY <1>1, <1>2, <1>4, <1>5, <1>6, <1>7, <1>8, <1>9, <1>10 DEF Control

LEMMA EnterType ==
    ASSUME TypeOK, kept' \in BOOLEAN, NEW n \in Nodes, NEW j \in Jobs, Enter(n, j)
    PROVE  TypeOK'
<1>1. [Idle EXCEPT !.pc = "entered", !.job = j, !.kb = TRUE, !.stage = head] \in Worker
  <2> DEFINE a == [Idle EXCEPT !.pc = "entered", !.job = j]
             b == [a EXCEPT !.kb = TRUE, !.stage = head]
  <2>1. a \in Worker
    <3>1. j \in 0 .. MaxJobs
      BY BoundsAssumption DEF Jobs
    <3>2. QED
      BY <3>1, IdleType DEF Worker
  <2>2. head \in Contents
    BY DEF TypeOK
  <2>3. b \in Worker
    <3> HIDE DEF a
    <3> QED BY <2>1, <2>2 DEF Worker
  <2>4. QED
    BY <2>3
<1>2. \A m \in Nodes : [wk[m] EXCEPT !.kb = FALSE] \in Worker
  <2>1. \A w \in Worker : [w EXCEPT !.kb = FALSE] \in Worker
    BY DEF Worker
  <2>2. QED
    BY <2>1 DEF TypeOK
<1>3. wk' \in [Nodes -> Worker]
  BY <1>1, <1>2 DEF Enter
<1>4. \A x \in IndexRow : [x EXCEPT !.kb = FALSE] \in IndexRow
  BY DEF IndexRow
<1>5. index' \in [Jobs -> [1 .. MaxIndexJobs -> IndexRow]]
  BY <1>4 DEF Enter, TypeOK
<1>6. QED
  BY <1>3, <1>5 DEF Enter, TypeOK

LEMMA AcquireType ==
    ASSUME TypeOK, kept' \in BOOLEAN, NEW n \in Nodes, WorkerOK(n), Acquire(n)
    PROVE  TypeOK'
<1> DEFINE j == wk[n].job
           r == Acquired(job[j])
<1>1. j \in Jobs /\ wk[n] \in Worker /\ job[j] \in JobRow /\ hand[j] \in HandRow
  BY DEF TypeOK, Acquire, At, WorkerOK
<1>2. r \in JobRow
  BY <1>1, AcquiredType
<1>3. job' \in [Jobs -> JobRow]
  BY <1>1, <1>2 DEF Acquire, TypeOK
<1>4. \A w \in Worker : [w EXCEPT !.tok = FALSE] \in Worker
  BY DEF Worker
<1>5. \A rec \in Worker : TakeToken(n, rec) => wk' \in [Nodes -> Worker]
  BY <1>4 DEF TakeToken, TypeOK
<1>6. r.cursor \in Cursors /\ r.attempt \in Nat
  BY <1>2 DEF JobRow
<1>7. [wk[n] EXCEPT !.pc = "paging", !.tok = TRUE, !.cur = r.cursor, !.att = r.attempt] \in Worker
  <2> HIDE DEF r
  <2>1. QED
    BY <1>1, <1>6 DEF Worker
<1>8. Intact(j) =>
        [wk[n] EXCEPT !.pc = "commit", !.tok = TRUE, !.cur = r.cursor, !.auth = TRUE,
                      !.ix = hand[j].ix, !.stage = hand[j].row.content] \in Worker
  <2>1. Intact(j) => hand[j].row.content \in Contents
    BY <1>1 DEF Intact, HandRow, ManifestType
  <2>2. hand[j].ix \in 0 .. MaxIndexJobs
    BY <1>1 DEF HandRow
  <2> DEFINE a == [wk[n] EXCEPT !.pc = "commit", !.tok = TRUE, !.cur = r.cursor]
             b == [a EXCEPT !.auth = TRUE, !.ix = hand[j].ix, !.stage = hand[j].row.content]
  <2> HIDE DEF r
  <2>3. a \in Worker
    BY <1>1, <1>6 DEF Worker
  <2>4. Intact(j) => b \in Worker
    <3> HIDE DEF a
    <3> QED BY <2>1, <2>2, <2>3 DEF Worker
  <2>5. QED
    BY <2>4
<1>9. Raised([wk[n] EXCEPT !.tok = TRUE, !.auth = TRUE], "preserve") \in Worker
  <2>1. [wk[n] EXCEPT !.tok = TRUE, !.auth = TRUE] \in Worker
    BY <1>1 DEF Worker
  <2>2. QED
    BY <2>1, RaisedType
<1>10. wk' \in [Nodes -> Worker]
  <2> HIDE DEF r
  <2>1. CASE job[j].status # "committing"
    BY <1>5, <1>7, <2>1 DEF Acquire, r
  <2>2. CASE job[j].status = "committing" /\ Intact(j) /\ KbLive(n)
    BY <1>5, <1>8, <2>2 DEF Acquire, r
  <2>3. CASE job[j].status = "committing" /\ ~(Intact(j) /\ KbLive(n))
    BY <1>5, <1>9, <2>3 DEF Acquire, r
  <2>4. QED
    BY <2>1, <2>2, <2>3
<1>11. QED
  BY <1>3, <1>10 DEF Acquire, TypeOK

LEMMA ReleasedType ==
    ASSUME TypeOK, NEW n, Released(n)
    PROVE  kb' \in {"free", "held", "lapsed"}
  BY DEF TypeOK, Released

LEMMA TurnAwayType ==
    ASSUME TypeOK, kept' \in BOOLEAN, NEW n \in Nodes, TurnAway(n)
    PROVE  TypeOK'
<1>1. \A r \in JobRow : [r EXCEPT !.status = "cancelled"] \in JobRow
  BY DEF JobRow, Status
<1>2. job' \in [Jobs -> JobRow]
  <2>1. job' \in {job, [job EXCEPT ![wk[n].job].status = "cancelled"],
                  [job EXCEPT ![wk[n].job] = CancelledRow(@)]}
    BY DEF TurnAway
  <2>2. QED
    BY <1>1, <2>1, CancelledType DEF TypeOK
<1>3. QED
  BY <1>2, WorkerTypes, ReleasedType DEF TurnAway, TypeOK

\* A worker before the commit boundary.
LEMMA PrepareType ==
    ASSUME TypeOK, kept' \in BOOLEAN, NEW n \in Nodes, WorkerOK(n), Prepare(n) \/ Err(n)
    PROVE  TypeOK'
<1> DEFINE j == wk[n].job
<1>1. j \in Jobs /\ wk[n] \in Worker /\ job[j] \in JobRow /\ hand[j] \in HandRow
  BY DEF TypeOK, WorkerOK, Prepare, Page, Guarded, CheckLease, Upload, Insert, Cross, Err, At
<1>2. CASE Page(n)
  <2> DEFINE next == IF wk[n].cur < avail THEN wk[n].cur + 1 ELSE wk[n].cur
             stage == IF next = wk[n].cur THEN wk[n].stage ELSE wk[n].stage \union {next}
             pc == IF next = avail THEN "prepare" ELSE "paging"
  <2>1. wk[n].cur \in Cursors /\ avail \in Cursors /\ wk[n].stage \in Contents
    BY <1>1 DEF Worker, TypeOK
  <2>2. next \in Cursors /\ (next # wk[n].cur => next \in 1 .. MaxChanges)
    BY <2>1, BoundsAssumption DEF Cursors
  <2>3. stage \in Contents
    BY <2>1, <2>2 DEF Contents
  <2>4. job' = [job EXCEPT ![j].cursor = next]
        /\ wk' = [wk EXCEPT ![n].cur = next, ![n].stage = stage, ![n].pc = pc]
    BY <1>2 DEF Page
  <2>5. pc \in {"prepare", "paging"}
    OBVIOUS
  <2> HIDE DEF next, stage, pc
  <2>6. [job[j] EXCEPT !.cursor = next] \in JobRow
    BY <1>1, <2>2 DEF JobRow
  <2>7. [wk[n] EXCEPT !.cur = next, !.stage = stage, !.pc = pc] \in Worker
    BY <1>1, <2>2, <2>3, <2>5 DEF Worker
  <2>8. job' \in [Jobs -> JobRow] /\ wk' \in [Nodes -> Worker]
    BY <2>4, <2>6, <2>7 DEF TypeOK
  <2>9. QED
    BY <1>2, <2>8 DEF Page, TypeOK
<1>3. CASE Guarded(n)
  BY <1>3, WorkerTypes DEF Guarded, TypeOK
<1>4. CASE Err(n)
  <2>1. wk' \in [Nodes -> Worker]
    BY <1>4, WorkerTypes DEF Err
  <2>2. faults' \in 0 .. MaxFaults
    BY <1>4, BoundsAssumption DEF Err, TypeOK
  <2>3. QED
    BY <1>4, <2>1, <2>2 DEF Err, TypeOK
<1>5. CASE CheckLease(n)
  BY <1>5, WorkerTypes DEF CheckLease, TypeOK
<1>6. Manifest(n) \in ManifestType
  BY <1>1 DEF Manifest, ManifestType, Worker
<1>7. CASE Upload(n)
  <2>1. [hand[j] EXCEPT !.obj = Manifest(n)] \in HandRow
    BY <1>1, <1>6 DEF HandRow
  <2>2. hand' \in [Jobs -> HandRow]
    BY <1>7, <2>1 DEF Upload, TypeOK
  <2>3. QED
    BY <1>7, <2>2, WorkerTypes DEF Upload, TypeOK
<1>8. CASE Insert(n)
  <2> DEFINE row == IF hand[j].row = None THEN Manifest(n) ELSE hand[j].row
  <2>1. row \in ManifestType
    BY <1>1, <1>6 DEF HandRow
  <2>2. hand' = [hand EXCEPT ![j].row = row]
    BY <1>8 DEF Insert
  <2> HIDE DEF row
  <2>3. [hand[j] EXCEPT !.row = row] \in HandRow
    BY <1>1, <2>1 DEF HandRow
  <2>4. hand' \in [Jobs -> HandRow]
    BY <2>2, <2>3 DEF TypeOK
  <2>5. Goto(n, "cross") \/ Raise(n, "fail")
    BY <1>8 DEF Insert
  <2>6. QED
    BY <1>8, <2>4, <2>5, WorkerTypes DEF Insert, TypeOK
<1>9. CASE Cross(n)
  <2>1. job' \in [Jobs -> JobRow]
    <3>1. [job[j] EXCEPT !.status = "committing"] \in JobRow
      BY <1>1 DEF JobRow, Status, ActiveStatus
    <3>2. QED
      BY <1>9, <3>1 DEF Cross, TypeOK
  <2>2. wk' \in [Nodes -> Worker]
    <3>1. [wk[n] EXCEPT !.pc = "commit", !.auth = TRUE] \in Worker
      BY <1>1 DEF Worker
    <3>2. QED
      BY <1>9, <3>1, WorkerTypes DEF Cross, TypeOK
  <2>3. QED
    BY <1>9, <2>1, <2>2 DEF Cross, TypeOK
<1>10. QED
  BY <1>2, <1>3, <1>4, <1>5, <1>7, <1>8, <1>9 DEF Prepare

\* A worker past it.
LEMMA CommitType ==
    ASSUME TypeOK, kept' \in BOOLEAN, NEW n \in Nodes, WorkerOK(n),
           Commit(n) \/ Fail(n) \/ Abort(n) \/ Settle(n)
    PROVE  TypeOK'
<1> DEFINE j == wk[n].job
<1>1. j \in Jobs /\ wk[n] \in Worker /\ job[j] \in JobRow /\ hand[j] \in HandRow
  BY DEF TypeOK, WorkerOK, Commit, Materialize, SubmitIndex, RecordIndex, Poll, Timeout,
         Complete, Finalize, Fail, Abort, Settle, At
<1>2. CASE Materialize(n)
  BY <1>2, WorkerTypes DEF Materialize, TypeOK
<1>3. CASE Poll(n)
  BY <1>3, WorkerTypes DEF Poll, TypeOK
<1>4. CASE Timeout(n)
  BY <1>4, WorkerTypes DEF Timeout, TypeOK
<1>5. CASE Fail(n)
  <2>1. wk' \in [Nodes -> Worker]
    BY <1>5, WorkerTypes DEF Fail
  <2>2. faults' \in 0 .. MaxFaults
    BY <1>5, BoundsAssumption DEF Fail, TypeOK
  <2>3. QED
    BY <1>5, <2>1, <2>2 DEF Fail, TypeOK
<1>6. CASE SubmitIndex(n)
  <2> DEFINE i == wk[n].ix + 1
             new == [status |-> "pending", node |-> n, kb |-> TRUE, content |-> wk[n].stage]
  <2>1. i \in 1 .. MaxIndexJobs
    BY <1>1, <1>6, BoundsAssumption DEF SubmitIndex, Worker
  <2>2. new \in IndexRow
    BY <1>1 DEF IndexRow, Worker
  <2>3. index' \in [Jobs -> [1 .. MaxIndexJobs -> IndexRow]]
    <3>1. index' = index \/ index' = [index EXCEPT ![j][i] = new]
      BY <1>6 DEF SubmitIndex
    <3> HIDE DEF new, i
    <3>2. [index[j] EXCEPT ![i] = new] \in [1 .. MaxIndexJobs -> IndexRow]
      BY <1>1, <2>1, <2>2 DEF TypeOK
    <3>3. QED
      BY <1>1, <3>1, <3>2 DEF TypeOK
  <2>4. Goto(n, "record") \/ Raise(n, "preserve")
    BY <1>6 DEF SubmitIndex
  <2>5. QED
    BY <1>6, <2>3, <2>4, WorkerTypes DEF SubmitIndex, TypeOK
<1>7. CASE RecordIndex(n)
  <2>1. wk[n].ix + 1 \in 0 .. MaxIndexJobs
    BY <1>1, <1>7, BoundsAssumption DEF RecordIndex, WorkerOK, At, Worker
  <2>2. [hand[j] EXCEPT !.ix = wk[n].ix + 1] \in HandRow
    BY <1>1, <2>1 DEF HandRow
  <2>3. [wk[n] EXCEPT !.pc = "poll", !.ix = @ + 1, !.sub = TRUE] \in Worker
    BY <1>1, <2>1 DEF Worker
  <2>4. hand' \in [Jobs -> HandRow] /\ wk' \in [Nodes -> Worker]
    BY <1>7, <2>2, <2>3, WorkerTypes DEF RecordIndex, TypeOK
  <2>5. QED
    BY <1>7, <2>4 DEF RecordIndex, TypeOK
<1>8. CASE Complete(n)
  <2>1. wk[n].cur \in Cursors
    BY <1>1 DEF Worker
  <2>2. [job[j] EXCEPT !.status = "succeeded", !.live = FALSE, !.cursor = wk[n].cur,
                       !.cleanup = TRUE] \in JobRow
    BY <1>1, <2>1 DEF JobRow, Status
  <2>3. [wk[n] EXCEPT !.pc = "finalize", !.tok = FALSE] \in Worker
    BY <1>1 DEF Worker
  <2>4. job' \in [Jobs -> JobRow] /\ wk' \in [Nodes -> Worker] /\ ckpt' \in Cursors
    <3>1. CASE wk[n].tok /\ job[j].status = "committing"
      <4> DEFINE r == [job[j] EXCEPT !.status = "succeeded", !.live = FALSE,
                                     !.cursor = wk[n].cur, !.cleanup = TRUE]
                 w == [wk[n] EXCEPT !.pc = "finalize", !.tok = FALSE]
      <4>1. job' = [job EXCEPT ![j] = r] /\ wk' = [wk EXCEPT ![n] = w] /\ ckpt' = wk[n].cur
        BY <1>8, <3>1 DEF Complete
      <4>2. r \in JobRow /\ w \in Worker
        BY <2>2, <2>3
      <4> HIDE DEF r, w
      <4>3. QED
        BY <2>1, <4>1, <4>2 DEF TypeOK
    <3>2. CASE ~(wk[n].tok /\ job[j].status = "committing")
      BY <1>8, <3>2, WorkerTypes DEF Complete, TypeOK
    <3>3. QED
      BY <3>1, <3>2
  <2>5. QED
    BY <1>8, <2>4 DEF Complete, TypeOK
<1>9. Collected(hand[j]) \in HandRow
  BY <1>1, BoundsAssumption DEF Collected, NoHand, HandRow, ManifestType
<1>10. CASE Finalize(n)
  <2>1. [job[j] EXCEPT !.cleanup = FALSE] \in JobRow
    BY <1>1 DEF JobRow
  <2>2. job' \in [Jobs -> JobRow] /\ hand' \in [Jobs -> HandRow]
    BY <1>9, <1>10, <2>1 DEF Finalize, TypeOK
  <2>3. QED
    BY <1>10, <2>2, WorkerTypes, ReleasedType DEF Finalize, TypeOK
<1>11. CASE Abort(n)
  <2>1. hand' \in [Jobs -> HandRow]
    BY <1>9, <1>11 DEF Abort, TypeOK
  <2>2. QED
    BY <1>11, <2>1, WorkerTypes DEF Abort, TypeOK
<1>12. CASE Settle(n)
  <2>1. Outcome(wk[n].out) \in Status
    BY <1>1, <1>12 DEF Settle, At, WorkerOK, Worker, Outcome, Status, ActiveStatus
  <2>2. \A s \in Status, c \in BOOLEAN :
            [job[j] EXCEPT !.status = s, !.live = FALSE, !.cancel = c] \in JobRow
    BY <1>1 DEF JobRow
  <2>3. (job[j].cancel \/ wk[n].out = "cancel") \in BOOLEAN
    BY <1>1 DEF JobRow
  <2>4. \/ job' = job
        \/ job' = [job EXCEPT ![j].status = Outcome(wk[n].out), ![j].live = FALSE,
                              ![j].cancel = @ \/ wk[n].out = "cancel"]
    BY <1>12 DEF Settle
  <2>5. job' \in [Jobs -> JobRow]
    <3> DEFINE o == Outcome(wk[n].out)
               c == job[j].cancel \/ wk[n].out = "cancel"
               r == [job[j] EXCEPT !.status = o, !.live = FALSE, !.cancel = c]
    <3>1. job' = job \/ job' = [job EXCEPT ![j] = r]
      BY <2>4
    <3>2. r \in JobRow
      BY <2>1, <2>2, <2>3
    <3> HIDE DEF r
    <3>3. QED
      BY <3>1, <3>2 DEF TypeOK
  <2>6. QED
    BY <1>12, <2>5, WorkerTypes, ReleasedType DEF Settle, TypeOK
<1>13. QED
  BY <1>2, <1>3, <1>4, <1>5, <1>6, <1>7, <1>8, <1>10, <1>11, <1>12 DEF Commit

\* One step of an index job.
LEMMA IndexStepType ==
    ASSUME TypeOK, NEW j \in Jobs, NEW i \in 1 .. MaxIndexJobs,
           NEW status \in {"running", "built", "succeeded", "failed"}, IndexStep(j, i, status)
    PROVE  index' \in [Jobs -> [1 .. MaxIndexJobs -> IndexRow]]
<1> DEFINE new == IF status \in {"succeeded", "failed"}
                  THEN [NoIndex EXCEPT !.status = status]
                  ELSE [index[j][i] EXCEPT !.status = status]
<1>1. index[j] \in [1 .. MaxIndexJobs -> IndexRow] /\ index[j][i] \in IndexRow
  BY DEF TypeOK
<1>2. new \in IndexRow
  <2>1. CASE status \in {"succeeded", "failed"}
    BY <2>1 DEF NoIndex, IndexRow, Contents
  <2>2. CASE status \notin {"succeeded", "failed"}
    BY <1>1, <2>2 DEF IndexRow
  <2>3. QED
    BY <2>1, <2>2
<1>3. index' = [index EXCEPT ![j][i] = new]
  BY DEF IndexStep
<1> HIDE DEF new
<1>4. [index[j] EXCEPT ![i] = new] \in [1 .. MaxIndexJobs -> IndexRow]
  BY <1>1, <1>2
<1>5. QED
  BY <1>3, <1>4 DEF TypeOK

LEMMA ExecutorType ==
    ASSUME TypeOK, kept' \in BOOLEAN, NEW j \in Jobs, NEW i \in 1 .. MaxIndexJobs, Executor(j, i)
    PROVE  TypeOK'
<1>1. index' \in [Jobs -> [1 .. MaxIndexJobs -> IndexRow]]
  BY IndexStepType DEF Executor, ClaimIndex, PublishIndex, ReportIndex, ReconcileIndex
<1>2. index[j][i].content \in Contents
  <2>1. index[j] \in [1 .. MaxIndexJobs -> IndexRow]
    BY DEF TypeOK
  <2>2. index[j][i] \in IndexRow
    BY <2>1
  <2>3. QED
    BY <2>2 DEF IndexRow
<1>3. head' \in Contents /\ published' \subseteq Jobs
  BY <1>2 DEF TypeOK, Executor, ClaimIndex, PublishIndex, ReportIndex, ReconcileIndex
<1>4. QED
  BY <1>1, <1>3 DEF TypeOK, Executor, ClaimIndex, PublishIndex, ReportIndex, ReconcileIndex

LEMMA FaultType ==
    ASSUME TypeOK, kept' \in BOOLEAN, NEW n \in Nodes, Crash(n) \/ Stall(n)
    PROVE  TypeOK'
<1>1. faults' \in 0 .. MaxFaults
  BY BoundsAssumption DEF Crash, Stall, TypeOK
<1>2. CASE Crash(n)
  <2>1. wk' \in [Nodes -> Worker]
    BY <1>2, IdleType DEF Crash, TypeOK
  <2>2. \A x \in IndexRow : [x EXCEPT !.node = None] \in IndexRow
    BY DEF IndexRow
  <2>3. index' \in [Jobs -> [1 .. MaxIndexJobs -> IndexRow]]
    BY <1>2, <2>2 DEF Crash, TypeOK
  <2>4. QED
    BY <1>1, <1>2, <2>1, <2>3 DEF Crash, TypeOK
<1>3. CASE Stall(n)
  <2>1. \A r \in JobRow : [r EXCEPT !.live = FALSE] \in JobRow
    BY DEF JobRow
  <2>2. job' \in [Jobs -> JobRow] /\ kb' \in {"free", "held", "lapsed"}
    <3>1. /\ job' \in {job, [job EXCEPT ![wk[n].job].live = FALSE]}
          /\ kb' \in {kb, "lapsed"}
      BY <1>3 DEF Stall
    <3>2. QED
      BY <2>1, <3>1 DEF TypeOK
  <2>3. QED
    BY <1>1, <1>3, <2>2 DEF Stall, TypeOK
<1>4. QED
  BY <1>2, <1>3

LEMMA StepType == ASSUME SInv, Next PROVE TypeOK'
<1>1. kept' \in BOOLEAN
  BY DEF SInv, TypeOK, Next
<1>2. TypeOK /\ SwitchOK /\ \A n \in Nodes : WorkerOK(n)
  BY DEF SInv
<1>3. CASE Control
  BY <1>1, <1>2, <1>3, ControlType
<1>4. CASE \E n \in Nodes, j \in Jobs : Enter(n, j)
  BY <1>1, <1>2, <1>4, EnterType
<1>5. CASE \E n \in Nodes : Work(n) \/ Err(n) \/ Fail(n) \/ Crash(n) \/ Stall(n)
  BY <1>1, <1>2, <1>5, AcquireType, TurnAwayType, PrepareType, CommitType, FaultType DEF Work
<1>6. CASE \E j \in Jobs, i \in 1 .. MaxIndexJobs : Executor(j, i)
  BY <1>1, <1>2, <1>6, ExecutorType
<1>7. QED
  BY <1>3, <1>4, <1>5, <1>6 DEF Next, Step, Control

-----------------------------------------------------------------------------
(* SInv is inductive.  A step of worker n, or of nobody (None), may only do   *)
(* to a row what Smooth says.                                                 *)

Owns(n, j) == n \in Nodes /\ wk[n].tok /\ wk[n].job = j

Smooth(n, j) ==
    LET s == job[j].status
        t == job'[j].status
    IN  /\ s # "unborn" => t # "unborn"
        /\ s \in Crossed => t \in Crossed
        /\ s = "succeeded" => t = "succeeded"
        /\ s \in {"running", "cancelled"} => t \in {"running", "cancelled"} \/ Owns(n, j)
        /\ s = "committing" => t = "committing" \/ Owns(n, j)
        /\ t \in ActiveStatus => s \in ActiveStatus
        /\ job'[j].cancel => t \notin Crossed

\* Another worker at most loses a token or a lease.
Keeps(m) == wk'[m] \in {wk[m], [wk[m] EXCEPT !.kb = FALSE], [wk[m] EXCEPT !.tok = FALSE]}

LEMMA KeepsFields ==
    ASSUME TypeOK, NEW m \in Nodes, Keeps(m)
    PROVE  /\ wk'[m].pc = wk[m].pc /\ wk'[m].job = wk[m].job /\ wk'[m].cur = wk[m].cur
           /\ wk'[m].stage = wk[m].stage /\ wk'[m].att = wk[m].att
           /\ wk'[m].auth = wk[m].auth /\ wk'[m].ix = wk[m].ix /\ wk'[m].out = wk[m].out
           /\ wk'[m].kb \in BOOLEAN /\ wk'[m].tok \in BOOLEAN
           /\ wk'[m].kb => wk[m].kb
           /\ wk'[m].tok => wk[m].tok
<1>1. wk[m] \in Worker
  BY DEF TypeOK
<1>2. CASE wk'[m] = wk[m]
  BY <1>1, <1>2 DEF Worker
<1>3. CASE wk'[m] = [wk[m] EXCEPT !.kb = FALSE]
  BY <1>1, <1>3 DEF Worker
<1>4. CASE wk'[m] = [wk[m] EXCEPT !.tok = FALSE]
  BY <1>1, <1>4 DEF Worker
<1>5. QED
  BY <1>2, <1>3, <1>4 DEF Keeps

LEMMA OthersOK ==
    ASSUME SInv, NEW n \in Nodes \union {None}, \A j \in Jobs : Smooth(n, j),
           NEW m \in Nodes, m # n, Keeps(m)
    PROVE  WorkerOK(m)'
<1>1. WorkerOK(m) /\ TypeOK
  BY DEF SInv
<1>2. wk[m].pc # "idle" => wk[m].job \in Jobs /\ Smooth(n, wk[m].job)
  BY <1>1 DEF WorkerOK
<1>3. wk[m].tok => ~Owns(n, wk[m].job)
  BY DEF SInv, OneToken, Owns
<1>4. wk[m].tok \/ wk[m].auth => wk[m].pc # "idle"
  BY <1>1 DEF WorkerOK
<1>5. QED
  BY <1>1, <1>2, <1>3, <1>4, KeepsFields DEF WorkerOK, Smooth

LEMMA SafeStep ==
    ASSUME SInv, TypeOK', SwitchOK', NEW n \in Nodes \union {None},
           \A j \in Jobs : Smooth(n, j),
           \A m \in Nodes \ {n} : Keeps(m),
           n \in Nodes =>
              /\ WorkerOK(n)'
              /\ wk'[n].tok => \/ wk[n].tok /\ wk'[n].job = wk[n].job
                               \/ \A m \in Nodes \ {n} :
                                     wk'[m].job = wk'[n].job => ~wk'[m].tok,
           \A j \in Jobs, i \in 1 .. MaxIndexJobs :
              index'[j][i].status # "none" =>
                 index[j][i].status # "none" \/ job'[j].status \in Crossed,
           \A j \in published' : j \in published \/ job'[j].status \in Crossed
    PROVE  SInv'
<1>1. CancelHolds'
  BY DEF CancelHolds, Smooth, Crossed
<1>2. OneActive'
  BY DEF SInv, OneActive, Active, Smooth
<1>3. \A m \in Nodes : WorkerOK(m)'
  BY OthersOK
<1>4. OneToken'
  <2>1. ASSUME NEW a \in Nodes, NEW b \in Nodes, wk'[a].tok, wk'[b].tok,
               wk'[a].job = wk'[b].job, a # b
        PROVE  FALSE
    <3>1. \A m \in Nodes \ {n} : (wk'[m].tok => wk[m].tok) /\ wk'[m].job = wk[m].job
      BY KeepsFields DEF SInv
    <3>2. CASE a # n /\ b # n
      BY <2>1, <3>1, <3>2 DEF SInv, OneToken
    <3>3. CASE a = n
      BY <2>1, <3>1, <3>3 DEF SInv, OneToken
    <3>4. CASE b = n
      BY <2>1, <3>1, <3>4 DEF SInv, OneToken
    <3>5. QED
      BY <3>2, <3>3, <3>4
  <2>2. QED
    BY <2>1 DEF OneToken
<1>5. Visible'
  <2>1. \A j \in Jobs : job[j].status \in Crossed => job'[j].status \in Crossed
    BY DEF Smooth
  <2>2. published' \subseteq Jobs
    BY DEF TypeOK
  <2>3. QED
    BY <2>1, <2>2 DEF SInv, Visible
<1>6. QED
  BY <1>1, <1>2, <1>3, <1>4, <1>5 DEF SInv

\* A row whose status and cancellation stay is smooth.
LEMMA StillSmooth ==
    ASSUME SInv, NEW n \in Nodes \union {None}, NEW j \in Jobs,
           job'[j].status = job[j].status, job'[j].cancel = job[j].cancel
    PROVE  Smooth(n, j)
  BY DEF SInv, CancelHolds, Smooth, Crossed

\* So is one that a cancellation reaches.
LEMMA CancelledSmooth ==
    ASSUME SInv, NEW n \in Nodes \union {None}, NEW j \in Jobs,
           job'[j] = CancelledRow(job[j])
    PROVE  Smooth(n, j)
<1>1. job[j] \in JobRow
  BY DEF SInv, TypeOK
<1>2. \/ job'[j].status = job[j].status /\ job'[j].cancel = job[j].cancel
      \/ /\ job[j].status \in {"pending", "retry_wait", "running"}
         /\ job'[j].status = "cancelled"
      \/ job[j].status = "running" /\ job'[j].status = "running"
  BY <1>1 DEF CancelledRow, JobRow
<1>3. QED
  BY <1>2, StillSmooth DEF Smooth, Crossed, ActiveStatus

\* A new job starts when none is active.
LEMMA BornSafe ==
    ASSUME SInv, TypeOK', CreateIfIdle \/ \E j \in Jobs : Replay(j)
    PROVE  SInv'
<1>1. CASE job' = job
  <2>1. \A j \in Jobs : Smooth(None, j)
    BY <1>1, StillSmooth
  <2>2. None \notin Nodes
    BY BoundsAssumption
  <2>3. UNCHANGED << wk, index, published, conn >>
    BY DEF CreateIfIdle, Replay
  <2>4. QED
    BY <2>1, <2>2, <2>3, SafeStep DEF Keeps, SInv, SwitchOK
<1>2. CASE job' # job
  <2>1. /\ ~AnyActive
        /\ FreshId \in Jobs /\ job[FreshId].status = "unborn"
    BY <1>2, FreshJob DEF SInv, CreateIfIdle, Replay
  <2>2. PICK c \in Cursors, r \in 0 .. MaxSwitches :
            job' = [job EXCEPT ![FreshId] = Created(c, r)]
    BY <1>2 DEF SInv, TypeOK, CreateIfIdle, Replay
  <2>3. job'[FreshId].status = "pending" /\ ~job'[FreshId].cancel
    BY <2>1, <2>2 DEF Created, Unborn, SInv, TypeOK
  <2>4. \A j \in Jobs \ {FreshId} : job'[j] = job[j]
    BY <2>1, <2>2 DEF SInv, TypeOK
  <2>5. UNCHANGED << wk, index, published, conn >>
    BY DEF CreateIfIdle, Replay
  <2>6. CancelHolds' /\ OneActive'
    BY <2>1, <2>3, <2>4 DEF SInv, CancelHolds, OneActive, Active, AnyActive
  <2>7. Visible'
    BY <2>1, <2>4, <2>5 DEF SInv, Visible, Crossed, TypeOK
  <2>8. ASSUME NEW n \in Nodes PROVE WorkerOK(n)'
    <3>1. WorkerOK(n)
      BY DEF SInv
    <3>2. wk[n].pc # "idle" => job'[wk[n].job] = job[wk[n].job]
      BY <2>1, <2>4, <3>1 DEF WorkerOK
    <3>3. wk[n].tok \/ wk[n].auth => wk[n].pc # "idle"
      BY <3>1 DEF WorkerOK
    <3>4. QED
      BY <2>5, <3>1, <3>2, <3>3 DEF WorkerOK
  <2>9. OneToken' /\ SwitchOK'
    BY <2>5 DEF SInv, OneToken, SwitchOK
  <2>10. QED
    BY <2>6, <2>7, <2>8, <2>9 DEF SInv
<1>3. QED
  BY <1>1, <1>2

LEMMA ControlSafe == ASSUME SInv, TypeOK', Control PROVE SInv'
<1>1. CASE CreateIfIdle \/ \E j \in Jobs : Replay(j)
  BY <1>1, BornSafe
<1>2. SUFFICES ASSUME ~(CreateIfIdle \/ \E j \in Jobs : Replay(j)) PROVE SInv'
  BY <1>1
<1>3. UNCHANGED << wk, index, published >>
  BY <1>2 DEF Control, Change, ReadCheckpoint, CancelConnection, SetEnabled, ExpireKb,
     RequestCancel, CleanTerminal, ExpireJob, Refuse
<1>4. SwitchOK'
  BY <1>2 DEF SInv, SwitchOK, TypeOK, Control, Change, ReadCheckpoint, CancelConnection,
     SetEnabled, ExpireKb, RequestCancel, CleanTerminal, ExpireJob, Refuse
<1>5. ASSUME NEW j \in Jobs PROVE Smooth(None, j)
  <2>1. \/ job'[j] = job[j] \/ job'[j] = CancelledRow(job[j])
        \/ job'[j] = [job[j] EXCEPT !.cleanup = FALSE]
        \/ job'[j] = [job[j] EXCEPT !.live = FALSE]
    BY <1>2 DEF SInv, TypeOK, Control, Change, ReadCheckpoint, CancelConnection,
       SetEnabled, ExpireKb, RequestCancel, CleanTerminal, ExpireJob, Refuse
  <2>2. job[j] \in JobRow
    BY DEF SInv, TypeOK
  <2>3. \/ job'[j] = CancelledRow(job[j])
        \/ job'[j].status = job[j].status /\ job'[j].cancel = job[j].cancel
    BY <2>1, <2>2 DEF JobRow
  <2>4. QED
    BY <2>3, StillSmooth, CancelledSmooth
<1>6. QED
  BY <1>3, <1>4, <1>5, SafeStep, BoundsAssumption DEF Keeps

LEMMA EnterSafe ==
    ASSUME SInv, TypeOK', NEW n \in Nodes, NEW j \in Jobs, Enter(n, j)
    PROVE  SInv'
<1>1. \A k \in Jobs : Smooth(n, k)
  BY StillSmooth DEF Enter
<1>2. \A m \in Nodes \ {n} : Keeps(m)
  BY DEF Enter, Keeps
<1>3. /\ wk'[n].pc = "entered" /\ wk'[n].job = j
      /\ wk'[n].tok = FALSE /\ wk'[n].auth = FALSE
  BY DEF Enter, Idle
<1>4. job' = job /\ job[j].status # "unborn" /\ published' = published
  BY DEF Enter, Active, ActiveStatus
<1>5. WorkerOK(n)'
  BY <1>3, <1>4 DEF WorkerOK, Before, After
<1>6. \A k \in Jobs, i \in 1 .. MaxIndexJobs : index'[k][i].status = index[k][i].status
  <2>1. ASSUME NEW k \in Jobs, NEW i \in 1 .. MaxIndexJobs
        PROVE  index'[k][i].status = index[k][i].status
    <3>1. index'[k][i] = [index[k][i] EXCEPT !.kb = FALSE]
      BY DEF Enter
    <3>2. index[k] \in [1 .. MaxIndexJobs -> IndexRow]
      BY DEF SInv, TypeOK
    <3>3. index[k][i] \in IndexRow
      BY <3>2
    <3>4. QED
      BY <3>1, <3>3 DEF IndexRow
  <2>2. QED
    BY <2>1
<1>7. SwitchOK'
  BY DEF SInv, SwitchOK, Enter
<1>8. QED
  BY <1>1, <1>2, <1>3, <1>4, <1>5, <1>6, <1>7, SafeStep

\* What taking a token does to the others.
LEMMA TokenTaken ==
    ASSUME TypeOK, NEW n \in Nodes, NEW rec, TakeToken(n, rec)
    PROVE  /\ wk'[n] = rec
           /\ \A m \in Nodes \ {n} :
                 /\ Keeps(m)
                 /\ wk'[m].job = wk[n].job => wk'[m].tok = FALSE
<1>1. \A m \in Nodes : wk[m] \in Worker
  BY DEF TypeOK
<1>2. wk'[n] = rec
  BY DEF TakeToken
<1>3. ASSUME NEW m \in Nodes \ {n}
      PROVE  Keeps(m) /\ (wk'[m].job = wk[n].job => wk'[m].tok = FALSE)
  <2>1. wk'[m] = IF wk[m].job = wk[n].job THEN [wk[m] EXCEPT !.tok = FALSE] ELSE wk[m]
    BY <1>3 DEF TakeToken
  <2>2. QED
    BY <1>1, <2>1 DEF Keeps, Worker
<1>4. QED
  BY <1>2, <1>3

LEMMA AcquireSafe ==
    ASSUME SInv, TypeOK', NEW n \in Nodes, Acquire(n)
    PROVE  SInv'
<1> DEFINE j == wk[n].job
           r == job[j]
<1>1. /\ j \in Jobs /\ r \in JobRow /\ wk[n] \in Worker /\ WorkerOK(n)
      /\ wk[n].pc = "entered" /\ ~r.cancel
      /\ job' = [job EXCEPT ![j] = Acquired(r)]
  BY DEF SInv, TypeOK, Acquire, At, WorkerOK
<1>2. /\ job'[j].cancel = r.cancel
      /\ job'[j].status = IF r.status = "committing" THEN "committing" ELSE "running"
      /\ \A k \in Jobs \ {j} : job'[k] = job[k]
  BY <1>1 DEF Acquired, JobRow, SInv, TypeOK
<1>3. r.status \in {"pending", "retry_wait", "running", "committing"}
  BY DEF Acquire, Runnable
<1>4. \A k \in Jobs : Smooth(n, k)
  <2>1. Smooth(n, j)
    BY <1>1, <1>2, <1>3 DEF Smooth, Crossed, ActiveStatus
  <2>2. QED
    BY <1>2, <2>1, StillSmooth
<1>5. PICK rec : /\ TakeToken(n, rec)
                 /\ rec.job = j /\ rec.tok = TRUE
                 /\ \/ r.status # "committing" /\ rec.pc = "paging" /\ rec.auth = FALSE
                    \/ r.status = "committing" /\ rec.pc = "commit" /\ rec.auth = TRUE
                    \/ /\ r.status = "committing" /\ rec.pc = "abort" /\ rec.auth = TRUE
                       /\ rec.out = "preserve"
  <2>1. CASE r.status # "committing"
    <3> DEFINE rec == [wk[n] EXCEPT !.pc = "paging", !.tok = TRUE, !.cur = Acquired(r).cursor,
                                    !.att = Acquired(r).attempt]
    <3>1. TakeToken(n, rec)
      BY <2>1 DEF Acquire
    <3>2. rec.job = j /\ rec.tok = TRUE /\ rec.pc = "paging" /\ rec.auth = FALSE
      BY <1>1 DEF Worker, WorkerOK
    <3>3. QED
      BY <2>1, <3>1, <3>2
  <2>2. CASE r.status = "committing" /\ Intact(j) /\ KbLive(n)
    <3> DEFINE rec == [wk[n] EXCEPT !.pc = "commit", !.tok = TRUE, !.cur = Acquired(r).cursor,
                                    !.auth = TRUE, !.ix = hand[j].ix,
                                    !.stage = hand[j].row.content]
    <3>1. TakeToken(n, rec)
      BY <2>2 DEF Acquire
    <3>2. rec.job = j /\ rec.tok = TRUE /\ rec.pc = "commit" /\ rec.auth = TRUE
      BY <1>1 DEF Worker
    <3>3. QED
      BY <2>2, <3>1, <3>2
  <2>3. CASE r.status = "committing" /\ ~(Intact(j) /\ KbLive(n))
    <3> DEFINE w == [wk[n] EXCEPT !.tok = TRUE, !.auth = TRUE]
               rec == Raised(w, "preserve")
    <3>1. TakeToken(n, rec)
      BY <2>3 DEF Acquire
    <3>2. w.job = j /\ w.tok = TRUE /\ w.auth = TRUE
      BY <1>1 DEF Worker
    <3>3. /\ rec.job = j /\ rec.tok = TRUE /\ rec.pc = "abort" /\ rec.auth = TRUE
          /\ rec.out = "preserve"
      <4> HIDE DEF w
      <4> QED BY <3>2, RaisedFields
    <3>4. QED
      BY <2>3, <3>1, <3>3
  <2>4. QED
    BY <2>1, <2>2, <2>3
<1>6. wk'[n] = rec
  BY <1>5, TokenTaken DEF SInv
<1>7. \A m \in Nodes \ {n} : Keeps(m) /\ (wk'[m].job = j => wk'[m].tok = FALSE)
  BY <1>5, TokenTaken DEF SInv
<1>8. WorkerOK(n)'
  BY <1>1, <1>2, <1>3, <1>5, <1>6 DEF WorkerOK, Before, After, Crossed
<1>9. UNCHANGED << index, published, conn >>
  BY DEF Acquire
<1>10. SwitchOK'
  BY <1>9 DEF SInv, SwitchOK
<1>11. QED
  BY <1>4, <1>5, <1>6, <1>7, <1>8, <1>9, <1>10, SafeStep

\* A worker that leaves is idle.
LEMMA LeftOK == ASSUME NEW n \in Nodes, wk \in [Nodes -> Worker], Left(n)
                PROVE  WorkerOK(n)' /\ wk'[n].tok = FALSE /\ \A m \in Nodes \ {n} : Keeps(m)
  BY DEF Left, Idle, WorkerOK, Keeps, Before, After

LEMMA TurnAwaySafe ==
    ASSUME SInv, TypeOK', NEW n \in Nodes, TurnAway(n)
    PROVE  SInv'
<1> DEFINE j == wk[n].job
<1>1. j \in Jobs /\ job[j].status # "unborn" /\ job[j] \in JobRow
  BY DEF SInv, TypeOK, TurnAway, At, WorkerOK
<1>2. UNCHANGED << index, published, conn >> /\ Left(n) /\ wk \in [Nodes -> Worker]
  BY DEF TurnAway, SInv, TypeOK
<1>3. \/ job' = job
      \/ job[j].cancel /\ job' = [job EXCEPT ![j].status = "cancelled"]
      \/ job' = [job EXCEPT ![j] = CancelledRow(@)]
  BY DEF TurnAway
<1>4. \A k \in Jobs \ {j} : job'[k] = job[k]
  BY <1>3 DEF SInv, TypeOK
<1>5. Smooth(n, j)
  <2>1. CASE job' = job
    BY <1>1, <2>1, StillSmooth
  <2>2. CASE job[j].cancel /\ job' = [job EXCEPT ![j].status = "cancelled"]
    <3>1. job[j].status \notin Crossed
      BY <1>1, <2>2 DEF SInv, CancelHolds, Crossed
    <3>2. job'[j].status = "cancelled"
      BY <1>1, <2>2 DEF SInv, TypeOK, JobRow
    <3>3. QED
      BY <3>1, <3>2 DEF Smooth, Crossed, ActiveStatus
  <2>3. CASE job' = [job EXCEPT ![j] = CancelledRow(@)]
    BY <1>1, <2>3, CancelledSmooth DEF SInv, TypeOK
  <2>4. QED
    BY <1>3, <2>1, <2>2, <2>3
<1>6. \A k \in Jobs : Smooth(n, k)
  BY <1>4, <1>5, StillSmooth
<1>7. SwitchOK'
  BY <1>2 DEF SInv, SwitchOK
<1>8. QED
  BY <1>2, <1>6, <1>7, LeftOK, SafeStep

\* A worker that goes on or raises.
Moves(n) ==
    /\ WorkerOK(n)'
    /\ wk'[n].tok = wk[n].tok /\ wk'[n].job = wk[n].job
    /\ \A m \in Nodes \ {n} : Keeps(m)

LEMMA RaiseMoves ==
    ASSUME SInv, NEW n \in Nodes, NEW out \in {"cancel", "retry", "dead", "fail", "preserve"},
           Raise(n, out), job' = job, wk[n].pc # "idle", wk[n].auth <=> out = "preserve"
    PROVE  Moves(n)
<1>1. wk[n] \in Worker /\ WorkerOK(n)
  BY DEF SInv, TypeOK
<1>2. wk'[n] = Raised(wk[n], out) /\ \A m \in Nodes \ {n} : wk'[m] = wk[m]
  BY DEF Raise, SInv, TypeOK
<1>3. /\ wk'[n].pc = "abort" /\ wk'[n].job = wk[n].job /\ wk'[n].tok = wk[n].tok
      /\ wk'[n].auth = wk[n].auth /\ wk'[n].out = out
  BY <1>2, RaisedFields
<1>4. WorkerOK(n)'
  BY <1>1, <1>3 DEF WorkerOK, Before, After
<1>5. QED
  BY <1>2, <1>3, <1>4 DEF Moves, Keeps

LEMMA GotoMoves ==
    ASSUME SInv, NEW n \in Nodes, NEW pc, Goto(n, pc), job' = job,
           \/ wk[n].pc \in Before /\ pc \in Before
           \/ wk[n].pc \in After /\ pc \in {"commit", "submit"}
           \/ wk[n].pc \in After /\ pc = "record" /\ wk[n].ix < MaxIndexJobs
           \/ wk[n].pc \in After /\ pc \in {"poll", "complete"} /\ wk[n].ix > 0
           \/ wk[n].pc = "abort" /\ pc = "settle"
    PROVE  Moves(n)
<1>1. wk[n] \in Worker /\ WorkerOK(n)
  BY DEF SInv, TypeOK
<1>2. /\ wk'[n] = [wk[n] EXCEPT !.pc = pc]
      /\ \A m \in Nodes \ {n} : wk'[m] = wk[m]
  BY DEF Goto, SInv, TypeOK
<1>3. /\ wk'[n].pc = pc /\ wk'[n].job = wk[n].job /\ wk'[n].tok = wk[n].tok
      /\ wk'[n].auth = wk[n].auth /\ wk'[n].out = wk[n].out /\ wk'[n].ix = wk[n].ix
  BY <1>1, <1>2 DEF Worker
<1>4. WorkerOK(n)'
  BY <1>1, <1>3 DEF WorkerOK, Before, After
<1>5. QED
  BY <1>2, <1>3, <1>4 DEF Moves, Keeps

LEMMA MovesSafe ==
    ASSUME SInv, TypeOK', NEW n \in Nodes, Moves(n), UNCHANGED << job, index, published, conn >>
    PROVE  SInv'
<1>1. \A k \in Jobs : Smooth(n, k)
  BY StillSmooth
<1>2. SwitchOK'
  BY DEF SInv, SwitchOK
<1>3. QED
  BY <1>1, <1>2, SafeStep DEF Moves

LEMMA PrepareSafe ==
    ASSUME SInv, TypeOK', NEW n \in Nodes, Prepare(n) \/ Err(n)
    PROVE  SInv'
<1> DEFINE j == wk[n].job
<1>1. wk[n].pc \in Before
  BY DEF Prepare, Page, Guarded, CheckLease, Upload, Insert, Cross, Err, At, Before
<1>2. /\ j \in Jobs /\ wk[n] \in Worker /\ job[j] \in JobRow /\ WorkerOK(n)
      /\ wk[n].auth = FALSE /\ wk[n].pc # "idle"
  BY <1>1 DEF SInv, TypeOK, WorkerOK, Before, Worker
<1>3. UNCHANGED << index, published, conn >>
  BY DEF Prepare, Page, Guarded, CheckLease, Upload, Insert, Cross, Err
<1>4. SwitchOK'
  BY <1>3 DEF SInv, SwitchOK
<1>5. CASE Page(n)
  <2> DEFINE next == IF wk[n].cur < avail THEN wk[n].cur + 1 ELSE wk[n].cur
  <2>1. /\ job' = [job EXCEPT ![j].cursor = next]
        /\ wk'[n].pc \in {"paging", "prepare"} /\ wk'[n].job = j
        /\ wk'[n].tok = wk[n].tok /\ wk'[n].auth = FALSE
        /\ \A m \in Nodes \ {n} : wk'[m] = wk[m]
    <3> DEFINE stage == IF next = wk[n].cur THEN wk[n].stage ELSE wk[n].stage \union {next}
               pc == IF next = avail THEN "prepare" ELSE "paging"
    <3>1. /\ job' = [job EXCEPT ![j].cursor = next]
          /\ wk' = [wk EXCEPT ![n].cur = next, ![n].stage = stage, ![n].pc = pc]
      BY <1>5 DEF Page
    <3>2. pc \in {"paging", "prepare"} /\ wk \in [Nodes -> Worker]
      BY DEF SInv, TypeOK
    <3> HIDE DEF next, stage, pc
    <3>3. QED
      BY <1>2, <3>1, <3>2 DEF Worker
  <2> HIDE DEF next
  <2>2. \A k \in Jobs : job'[k].status = job[k].status /\ job'[k].cancel = job[k].cancel
    BY <1>2, <2>1 DEF SInv, TypeOK, JobRow
  <2>3. WorkerOK(n)'
    BY <1>2, <2>1, <2>2 DEF WorkerOK, Before, After
  <2>4. \A k \in Jobs : Smooth(n, k)
    BY <2>2, StillSmooth
  <2>5. QED
    BY <1>3, <1>4, <2>1, <2>3, <2>4, SafeStep DEF Keeps
<1>6. CASE Cross(n) /\ MayCross(n)
  <2>1. /\ job' = [job EXCEPT ![j].status = "committing"]
        /\ wk' = [wk EXCEPT ![n].pc = "commit", ![n].auth = TRUE]
        /\ wk[n].tok /\ job[j].status = "running" /\ ~job[j].cancel
    BY <1>6 DEF Cross, MayCross, LeaseLive
  <2>2. /\ job'[j].status = "committing" /\ job'[j].cancel = job[j].cancel
        /\ \A k \in Jobs \ {j} : job'[k] = job[k]
    BY <1>2, <2>1 DEF SInv, TypeOK, JobRow
  <2>3. /\ wk'[n].pc = "commit" /\ wk'[n].job = j /\ wk'[n].tok = wk[n].tok
        /\ wk'[n].auth = TRUE
        /\ \A m \in Nodes \ {n} : wk'[m] = wk[m]
    BY <1>2, <2>1 DEF SInv, TypeOK, Worker
  <2>4. WorkerOK(n)'
    BY <1>2, <2>2, <2>3 DEF WorkerOK, Before, After, Crossed
  <2>5. Smooth(n, j)
    BY <2>1, <2>2 DEF Smooth, Owns, Crossed, ActiveStatus
  <2>6. \A k \in Jobs : Smooth(n, k)
    BY <2>2, <2>5, StillSmooth
  <2>7. QED
    BY <1>3, <1>4, <2>3, <2>4, <2>6, SafeStep DEF Keeps
<1>7. CASE Guarded(n) \/ Err(n) \/ CheckLease(n) \/ Upload(n) \/ Insert(n)
           \/ (Cross(n) /\ ~MayCross(n))
  <2>1. job' = job
    BY <1>7 DEF Guarded, Err, CheckLease, Upload, Insert, Cross
  <2>2. \/ \E out \in {"cancel", "retry", "dead", "fail"} : Raise(n, out)
        \/ \E pc \in Before : Goto(n, pc)
    <3>1. CASE Guarded(n) \/ CheckLease(n) \/ Upload(n) \/ Insert(n)
      BY <3>1 DEF Guarded, CheckLease, Upload, Insert, Before
    <3>2. CASE Err(n)
      BY <3>2 DEF Err
    <3>3. CASE Cross(n) /\ ~MayCross(n)
      BY <3>3 DEF Cross
    <3>4. QED
      BY <1>7, <3>1, <3>2, <3>3
  <2>3. Moves(n)
    BY <1>1, <1>2, <2>1, <2>2, RaiseMoves, GotoMoves
  <2>4. QED
    BY <1>3, <2>1, <2>3, MovesSafe
<1>8. QED
  BY <1>5, <1>6, <1>7 DEF Prepare

LEMMA CommitSafe ==
    ASSUME SInv, TypeOK', NEW n \in Nodes, Commit(n) \/ Fail(n) \/ Abort(n) \/ Settle(n)
    PROVE  SInv'
<1> DEFINE j == wk[n].job
<1>1. wk[n].pc \in After \union {"finalize", "abort", "settle"}
  BY DEF Commit, Materialize, SubmitIndex, RecordIndex, Poll, Timeout, Complete, Finalize,
         Fail, Abort, Settle, At, After
<1>2. /\ j \in Jobs /\ wk[n] \in Worker /\ job[j] \in JobRow /\ WorkerOK(n)
      /\ wk[n].pc # "idle" /\ wk \in [Nodes -> Worker] /\ job \in [Jobs -> JobRow]
  BY <1>1 DEF SInv, TypeOK, WorkerOK, After
<1>3. wk[n].pc \in After => wk[n].auth = TRUE /\ job[j].status \in Crossed
  BY <1>2 DEF WorkerOK, Worker
<1>4. UNCHANGED << published, conn >>
  BY DEF Commit, Materialize, SubmitIndex, RecordIndex, Poll, Timeout, Complete, Finalize,
         Fail, Abort, Settle
<1>5. SwitchOK'
  BY <1>4 DEF SInv, SwitchOK
<1>6. CASE Materialize(n) \/ Poll(n) \/ Timeout(n) \/ Fail(n) \/ Abort(n)
  <2>1. job' = job /\ index' = index
    BY <1>6 DEF Materialize, Poll, Timeout, Fail, Abort
  <2>2. CASE Abort(n)
    <3>1. Goto(n, "settle") /\ wk[n].pc = "abort"
      BY <2>2 DEF Abort, At
    <3>2. QED
      BY <1>4, <2>1, <3>1, GotoMoves, MovesSafe
  <2>3. CASE Raise(n, "preserve") /\ ~Abort(n)
    <3>1. wk[n].auth = TRUE
      BY <1>3, <1>6, <2>3 DEF Materialize, Poll, Timeout, Fail, At, After
    <3>2. QED
      BY <1>2, <1>4, <2>1, <2>3, <3>1, RaiseMoves, MovesSafe
  <2>4. CASE Materialize(n) /\ ~Raise(n, "preserve")
    <3>1. /\ wk[n].pc \in After
          /\ Goto(n, "submit") \/ (Goto(n, "poll") /\ wk[n].ix > 0)
      BY <1>2, <2>4, BoundsAssumption DEF Materialize, At, After, Worker
    <3>2. QED
      BY <1>4, <2>1, <3>1, GotoMoves, MovesSafe
  <2>5. CASE Poll(n) /\ ~Raise(n, "preserve")
    <3>1. /\ wk[n].pc \in After /\ wk[n].ix > 0
          /\ Goto(n, "submit") \/ Goto(n, "complete")
      BY <1>2, <2>5 DEF Poll, At, After, WorkerOK
    <3>2. QED
      BY <1>4, <2>1, <3>1, GotoMoves, MovesSafe
  <2>6. QED
    BY <1>6, <2>2, <2>3, <2>4, <2>5 DEF Timeout, Fail
<1>7. CASE SubmitIndex(n)
  <2>1. wk[n].pc \in After /\ job' = job
    BY <1>7 DEF SubmitIndex, At, After
  <2>2. wk[n].ix < MaxIndexJobs
    BY <1>2, <1>7, BoundsAssumption DEF SubmitIndex, Worker
  <2>3. Moves(n)
    BY <1>2, <1>3, <1>7, <2>1, <2>2, RaiseMoves, GotoMoves DEF SubmitIndex
  <2>4. \A k \in Jobs, i \in 1 .. MaxIndexJobs :
            index'[k][i].status # "none" =>
                index[k][i].status # "none" \/ job'[k].status \in Crossed
    <3> DEFINE ix == wk[n].ix + 1
               new == [status |-> "pending", node |-> n, kb |-> TRUE, content |-> wk[n].stage]
    <3>1. index' = index \/ index' = [index EXCEPT ![j][ix] = new]
      BY <1>7 DEF SubmitIndex
    <3> HIDE DEF new, ix
    <3>2. \A k \in Jobs \ {j} : index'[k] = index[k]
      BY <3>1 DEF SInv, TypeOK
    <3>3. QED
      BY <1>3, <2>1, <3>2
  <2>5. \A k \in Jobs : Smooth(n, k)
    BY <2>1, StillSmooth
  <2>6. QED
    BY <1>4, <1>5, <2>3, <2>4, <2>5, SafeStep DEF Moves
<1>8. CASE RecordIndex(n)
  <2>1. wk[n].pc \in After /\ job' = job /\ index' = index
    BY <1>8 DEF RecordIndex, At, After
  <2>2. CASE Raise(n, "preserve")
    BY <1>2, <1>3, <1>4, <2>1, <2>2, RaiseMoves, MovesSafe
  <2>3. CASE wk' = [wk EXCEPT ![n].pc = "poll", ![n].ix = @ + 1, ![n].sub = TRUE]
    <3>1. /\ wk'[n].pc = "poll" /\ wk'[n].job = j /\ wk'[n].tok = wk[n].tok
          /\ wk'[n].auth = TRUE /\ wk'[n].ix = wk[n].ix + 1 /\ wk[n].ix \in Nat
          /\ \A m \in Nodes \ {n} : wk'[m] = wk[m]
      BY <1>2, <1>3, <2>1, <2>3, BoundsAssumption DEF Worker
    <3>2. WorkerOK(n)'
      BY <1>2, <2>1, <3>1 DEF WorkerOK, Before, After
    <3>3. QED
      BY <1>4, <2>1, <3>1, <3>2, MovesSafe DEF Moves, Keeps
  <2>4. QED
    BY <1>8, <2>2, <2>3 DEF RecordIndex
<1>9. CASE Complete(n)
  <2>1. wk[n].pc \in After /\ index' = index
    BY <1>9 DEF Complete, At, After
  <2>2. CASE ~(wk[n].tok /\ job[j].status = "committing")
    <3>1. job' = job /\ Raise(n, "preserve")
      BY <1>9, <2>2 DEF Complete
    <3>2. QED
      BY <1>2, <1>3, <1>4, <2>1, <3>1, RaiseMoves, MovesSafe
  <2>3. CASE wk[n].tok /\ job[j].status = "committing"
    <3>1. /\ job' = [job EXCEPT ![j].status = "succeeded", ![j].live = FALSE,
                                ![j].cursor = wk[n].cur, ![j].cleanup = TRUE]
          /\ wk' = [wk EXCEPT ![n].pc = "finalize", ![n].tok = FALSE]
      BY <1>9, <2>3 DEF Complete
    <3>2. /\ job'[j].status = "succeeded" /\ job'[j].cancel = job[j].cancel
          /\ \A k \in Jobs \ {j} : job'[k] = job[k]
      BY <1>2, <3>1 DEF JobRow
    <3>3. /\ wk'[n].pc = "finalize" /\ wk'[n].job = j /\ wk'[n].tok = FALSE
          /\ wk'[n].auth = TRUE
          /\ \A m \in Nodes \ {n} : wk'[m] = wk[m]
      BY <1>2, <1>3, <2>1, <3>1 DEF Worker
    <3>4. WorkerOK(n)'
      BY <1>2, <3>2, <3>3 DEF WorkerOK, Before, After, Crossed
    <3>5. Smooth(n, j)
      BY <1>2, <2>3, <3>2 DEF Smooth, Owns, Crossed, ActiveStatus, SInv, CancelHolds
    <3>6. \A k \in Jobs : Smooth(n, k)
      BY <3>2, <3>5, StillSmooth
    <3>7. QED
      BY <1>4, <1>5, <2>1, <3>3, <3>4, <3>6, SafeStep DEF Keeps
  <2>4. QED
    BY <2>2, <2>3
<1>10. CASE Finalize(n)
  <2>1. /\ job' = [job EXCEPT ![j].cleanup = FALSE] /\ Left(n) /\ index' = index
    BY <1>10 DEF Finalize
  <2>2. \A k \in Jobs : job'[k].status = job[k].status /\ job'[k].cancel = job[k].cancel
    BY <1>2, <2>1 DEF JobRow
  <2>3. \A k \in Jobs : Smooth(n, k)
    BY <2>2, StillSmooth
  <2>4. QED
    BY <1>2, <1>4, <1>5, <2>1, <2>3, LeftOK, SafeStep
<1>11. CASE Settle(n)
  <2> DEFINE out == wk[n].out
             from == CASE out = "cancel" -> {"running"}
                       [] out = "preserve" -> {"committing"}
                       [] OTHER -> {"running", "committing"}
  <2>1. Left(n) /\ index' = index /\ wk[n].pc = "settle"
    BY <1>11 DEF Settle, At
  <2>2. out \in {"cancel", "retry", "dead", "fail", "preserve"}
    BY <1>2, <2>1 DEF WorkerOK, Worker
  <2>3. CASE job' = job
    <3>1. \A k \in Jobs : Smooth(n, k)
      BY <2>3, StillSmooth
    <3>2. QED
      BY <1>2, <1>4, <1>5, <2>1, <3>1, LeftOK, SafeStep
  <2>4. CASE job' # job
    <3>1. /\ LeaseLive(n, from)
          /\ job' = [job EXCEPT ![j].status = Outcome(out), ![j].live = FALSE,
                                ![j].cancel = @ \/ out = "cancel"]
      BY <1>11, <2>4 DEF Settle
    <3>2. /\ job'[j].status = Outcome(out)
          /\ job'[j].cancel = (job[j].cancel \/ out = "cancel")
          /\ \A k \in Jobs \ {j} : job'[k] = job[k]
      <4> DEFINE o == Outcome(out)
                 c == job[j].cancel \/ out = "cancel"
      <4>1. job' = [job EXCEPT ![j].status = o, ![j].live = FALSE, ![j].cancel = c]
        BY <3>1
      <4> HIDE DEF o, c
      <4>2. job'[j].status = o /\ job'[j].cancel = c /\ \A k \in Jobs \ {j} : job'[k] = job[k]
        BY <1>2, <4>1 DEF JobRow
      <4>3. QED
        BY <4>2 DEF o, c
    <3>3. wk[n].tok /\ job[j].status \in {"running", "committing"} /\ job[j].status \in from
      BY <2>2, <3>1 DEF LeaseLive
    <3>4. CASE out = "preserve"
      <4>1. job[j].status = "committing" /\ job'[j].status = "committing"
        BY <3>2, <3>3, <3>4 DEF Outcome
      <4>2. ~job'[j].cancel
        BY <1>2, <3>2, <3>4, <4>1 DEF SInv, CancelHolds
      <4>3. QED
        <5>1. Smooth(n, j)
          BY <4>1, <4>2 DEF Smooth, Crossed, ActiveStatus
        <5>2. \A k \in Jobs : Smooth(n, k)
          BY <3>2, <5>1, StillSmooth
        <5>3. QED
          BY <1>2, <1>4, <1>5, <2>1, <5>2, LeftOK, SafeStep
    <3>5. CASE out # "preserve"
      <4>1. wk[n].auth = FALSE
        BY <1>2, <2>1, <3>5 DEF WorkerOK, Worker
      <4>2. job[j].status = "running"
        BY <1>2, <3>3, <4>1 DEF WorkerOK
      <4>3. job'[j].status \in {"cancelled", "retry_wait", "dead_letter", "failed"}
        BY <2>2, <3>2, <3>5 DEF Outcome
      <4>4. Smooth(n, j)
        BY <3>3, <4>2, <4>3 DEF Smooth, Owns, Crossed, ActiveStatus
      <4>5. \A k \in Jobs : Smooth(n, k)
        BY <3>2, <4>4, StillSmooth
      <4>6. QED
        BY <1>2, <1>4, <1>5, <2>1, <4>5, LeftOK, SafeStep
    <3>6. QED
      BY <3>4, <3>5
  <2>5. QED
    BY <2>3, <2>4
<1>12. QED
  BY <1>6, <1>7, <1>8, <1>9, <1>10, <1>11 DEF Commit

\* What a step of an index job leaves.
LEMMA IndexStepFields ==
    ASSUME TypeOK, NEW j \in Jobs, NEW i \in 1 .. MaxIndexJobs,
           NEW status, IndexStep(j, i, status)
    PROVE  /\ index'[j][i].status = status
           /\ status \in {"succeeded", "failed"} => index'[j][i].kb = FALSE
           /\ status \notin {"succeeded", "failed"} =>
                 /\ index'[j][i].kb = index[j][i].kb
                 /\ index'[j][i].content = index[j][i].content
           /\ \A k \in Jobs, h \in 1 .. MaxIndexJobs :
                 k # j \/ h # i => index'[k][h] = index[k][h]
<1> DEFINE new == IF status \in {"succeeded", "failed"}
                  THEN [NoIndex EXCEPT !.status = status]
                  ELSE [index[j][i] EXCEPT !.status = status]
<1>1. index[j] \in [1 .. MaxIndexJobs -> IndexRow] /\ index[j][i] \in IndexRow
      /\ index \in [Jobs -> [1 .. MaxIndexJobs -> IndexRow]]
  BY DEF TypeOK
<1>2. index' = [index EXCEPT ![j][i] = new]
  BY DEF IndexStep
<1>3. /\ new.status = status
      /\ status \in {"succeeded", "failed"} => new.kb = FALSE
      /\ status \notin {"succeeded", "failed"} =>
            new.kb = index[j][i].kb /\ new.content = index[j][i].content
  <2>1. CASE status \in {"succeeded", "failed"}
    BY <2>1 DEF NoIndex
  <2>2. CASE status \notin {"succeeded", "failed"}
    BY <1>1, <2>2 DEF IndexRow
  <2>3. QED
    BY <2>1, <2>2
<1> HIDE DEF new
<1>4. index'[j][i] = new
  BY <1>1, <1>2
<1>5. \A k \in Jobs, h \in 1 .. MaxIndexJobs : k # j \/ h # i => index'[k][h] = index[k][h]
  BY <1>1, <1>2
<1>6. QED
  BY <1>3, <1>4, <1>5

LEMMA ExecutorSafe ==
    ASSUME SInv, TypeOK', NEW j \in Jobs, NEW i \in 1 .. MaxIndexJobs, Executor(j, i)
    PROVE  SInv'
<1>1. UNCHANGED << job, wk, conn >>
  BY DEF Executor, ClaimIndex, PublishIndex, ReportIndex, ReconcileIndex
<1>2. PICK status : IndexStep(j, i, status)
  BY DEF Executor, ClaimIndex, PublishIndex, ReportIndex, ReconcileIndex
<1>3. index[j][i].status # "none" /\ published' \in {published, published \union {j}}
  BY DEF Executor, ClaimIndex, PublishIndex, ReportIndex, ReconcileIndex
<1>4. job[j].status \in Crossed
  BY <1>3 DEF SInv, Visible
<1>5. \A k \in Jobs, h \in 1 .. MaxIndexJobs :
          index'[k][h].status # "none" => index[k][h].status # "none"
  <2>1. \A k \in Jobs, h \in 1 .. MaxIndexJobs :
            k # j \/ h # i => index'[k][h] = index[k][h]
    BY <1>2, IndexStepFields DEF SInv
  <2>2. QED
    BY <1>3, <2>1
<1>6. \A k \in Jobs : Smooth(None, k)
  BY <1>1, StillSmooth
<1>7. SwitchOK'
  BY <1>1 DEF SInv, SwitchOK
<1>8. QED
  BY <1>1, <1>3, <1>4, <1>5, <1>6, <1>7, SafeStep, BoundsAssumption DEF Keeps

LEMMA CrashFields ==
    ASSUME TypeOK, NEW n \in Nodes, Crash(n), NEW j \in Jobs, NEW i \in 1 .. MaxIndexJobs
    PROVE  /\ index'[j][i].status = index[j][i].status
           /\ index'[j][i].kb = index[j][i].kb
           /\ index'[j][i].content = index[j][i].content
<1>1. index[j] \in [1 .. MaxIndexJobs -> IndexRow]
  BY DEF TypeOK
<1>2. index[j][i] \in IndexRow
  BY <1>1
<1>3. index'[j][i] \in {index[j][i], [index[j][i] EXCEPT !.node = None]}
  BY DEF Crash
<1>4. QED
  BY <1>2, <1>3 DEF IndexRow

LEMMA FaultSafe ==
    ASSUME SInv, TypeOK', NEW n \in Nodes, Crash(n) \/ Stall(n)
    PROVE  SInv'
<1>1. UNCHANGED << published, conn >>
  BY DEF Crash, Stall
<1>2. SwitchOK'
  BY <1>1 DEF SInv, SwitchOK
<1>3. CASE Crash(n)
  <2>1. job' = job /\ Left(n) /\ wk \in [Nodes -> Worker]
    BY <1>3 DEF Crash, Left, SInv, TypeOK
  <2>2. \A k \in Jobs : Smooth(n, k)
    BY <2>1, StillSmooth
  <2>3. \A k \in Jobs, i \in 1 .. MaxIndexJobs : index'[k][i].status = index[k][i].status
    BY <1>3, CrashFields DEF SInv
  <2>4. QED
    BY <1>1, <1>2, <2>1, <2>2, <2>3, LeftOK, SafeStep
<1>4. CASE Stall(n)
  <2>1. /\ wk' = wk /\ index' = index
        /\ job' \in {job, [job EXCEPT ![wk[n].job].live = FALSE]}
    BY <1>4 DEF Stall
  <2>2. \A k \in Jobs : job'[k].status = job[k].status /\ job'[k].cancel = job[k].cancel
    <3>1. \A k \in Jobs : job[k] \in JobRow
      BY DEF SInv, TypeOK
    <3>2. \A k \in Jobs : job'[k] \in {job[k], [job[k] EXCEPT !.live = FALSE]}
      BY <2>1 DEF SInv, TypeOK
    <3>3. QED
      BY <3>1, <3>2 DEF JobRow
  <2>3. \A k \in Jobs : Smooth(None, k)
    BY <2>2, StillSmooth
  <2>4. QED
    BY <1>1, <1>2, <2>1, <2>3, SafeStep, BoundsAssumption DEF Keeps
<1>5. QED
  BY <1>3, <1>4

LEMMA InitSafe == Init => SInv
<1> SUFFICES ASSUME Init PROVE SInv
  OBVIOUS
<1>1. TypeOK
  BY InitType
<1>2. /\ \A j \in Jobs : job[j].status = "unborn" /\ job[j].cancel = FALSE
      /\ \A n \in Nodes : /\ wk[n].pc = "idle" /\ wk[n].tok = FALSE /\ wk[n].kb = FALSE
                          /\ wk[n].auth = FALSE /\ wk[n].job = 0
      /\ \A j \in Jobs, i \in 1 .. MaxIndexJobs : index[j][i].status = "none"
      /\ published = {} /\ conn.leaving = FALSE
  BY DEF Init, Unborn, Idle, NoIndex
<1>3. SwitchOK /\ CancelHolds /\ OneActive /\ OneToken /\ Visible
  <2>1. SwitchOK
    BY <1>2 DEF SwitchOK
  <2>2. CancelHolds /\ OneToken
    BY <1>2 DEF CancelHolds, OneToken
  <2>3. OneActive
    BY <1>2 DEF OneActive, Active, ActiveStatus
  <2>4. Visible
    BY <1>2 DEF Visible
  <2>5. QED
    BY <2>1, <2>2, <2>3, <2>4
<1>4. \A n \in Nodes : WorkerOK(n)
  BY <1>2 DEF WorkerOK, Before, After
<1>5. QED
  BY <1>1, <1>3, <1>4 DEF SInv

LEMMA SafeNext == SInv /\ [Next]_<<vars, kept>> => SInv'
<1>1. ASSUME SInv, Next PROVE SInv'
  <2>1. TypeOK'
    BY <1>1, StepType
  <2>2. CASE Control
    BY <1>1, <2>1, <2>2, ControlSafe
  <2>3. CASE \E n \in Nodes, j \in Jobs : Enter(n, j)
    BY <1>1, <2>1, <2>3, EnterSafe
  <2>4. CASE \E n \in Nodes : Work(n) \/ Err(n) \/ Fail(n) \/ Crash(n) \/ Stall(n)
    BY <1>1, <2>1, <2>4, AcquireSafe, TurnAwaySafe, PrepareSafe, CommitSafe, FaultSafe DEF Work
  <2>5. CASE \E j \in Jobs, i \in 1 .. MaxIndexJobs : Executor(j, i)
    BY <1>1, <2>1, <2>5, ExecutorSafe
  <2>6. QED
    BY <1>1, <2>2, <2>3, <2>4, <2>5 DEF Next, Step, Control
<1>2. ASSUME SInv, UNCHANGED << vars, kept >> PROVE SInv'
  <2>1. UNCHANGED << job, hand, index, conn, ckpt, head, published, kb, wk, req, avail,
                     faults, kept >>
    BY <1>2 DEF vars
  <2>2. TypeOK'
    BY <1>2, <2>1 DEF SInv, TypeOK
  <2>5. SwitchOK' /\ CancelHolds' /\ OneActive'
    BY <1>2, <2>1 DEF SInv, SwitchOK, CancelHolds, OneActive, Active
  <2>3. (\A n \in Nodes : WorkerOK(n)') /\ OneToken' /\ Visible'
    BY <1>2, <2>1 DEF SInv, WorkerOK, OneToken, Visible
  <2>4. QED
    BY <2>2, <2>3, <2>5 DEF SInv
<1>3. QED
  BY <1>1, <1>2

\* The invariant of the jobs' outcomes.
THEOREM Inductive == Spec => []SInv
  BY InitSafe, SafeNext, PTL DEF Spec

\* Every variable holds what its table or object holds.
THEOREM TypeCorrect == Spec => []TypeOK
<1>1. SInv => TypeOK
  BY DEF SInv
<1>2. QED
  BY <1>1, Inductive, PTL

\* A job whose cancellation was accepted never crosses the commit boundary
\* (request_cancel against prepare_commit), however many workers hold on to it.
THEOREM CancelSafe == Spec => []CancelHolds
<1>1. SInv => CancelHolds
  BY DEF SInv
<1>2. QED
  BY <1>1, Inductive, PTL

\* What a job published is visible only if the job is past the boundary, which
\* it leaves as a success only (preserve_committing): a job that failed, was
\* cancelled or waits for another attempt has published nothing.
THEOREM GhostSafe == Spec => []NoGhostPublication
<1>1. SInv => NoGhostPublication
  BY DEF SInv, Visible, Crossed, NoGhostPublication
<1>2. QED
  BY <1>1, Inductive, PTL

-----------------------------------------------------------------------------
(* Contents and cursors *)

Entered(j) == job[j].attempt > 0 \/ \E n \in Nodes : wk[n].job = j

\* Once a worker was admitted to the active job, every mutation lease that
\* still counts is of that job.
Delegated ==
    \A j \in Jobs : Active(j) /\ Entered(j) =>
        /\ \A n \in Nodes : wk[n].kb => wk[n].job = j
        /\ \A k \in Jobs, i \in 1 .. MaxIndexJobs : index[k][i].kb => k = j

CursorOK ==
    /\ ckpt <= avail
    /\ req # None => req.cursor <= ckpt
    /\ \A j \in Jobs : job[j].start <= ckpt /\ job[j].cursor <= avail
    /\ \A j \in Jobs : job[j].status = "unborn" => job[j].attempt = 0
    /\ \A j \in Jobs : job[j].status \in {"running"} \union Crossed => job[j].attempt > 0
    /\ \A j \in Jobs : job[j].status = "committing" => ckpt <= job[j].cursor

\* A worker's snapshot contains what its cursor says; with the token they are
\* the row's, past the pages the cursor has reached the checkpoint.
SnapOK(n) ==
    LET w == wk[n]
        r == job[w.job]
    IN  /\ w.cur <= avail
        /\ w.pc = "entered" => 1 .. r.start \subseteq w.stage
        /\ w.pc \in Before \union After => 1 .. w.cur \subseteq w.stage
        /\ w.pc \in Before => w.att > 0 /\ w.att <= r.attempt
        /\ w.pc \in Before /\ w.tok /\ r.status = "running" =>
              w.cur = r.cursor /\ w.att = r.attempt
        /\ w.pc \in Before \ {"paging"} /\ w.tok /\ r.status = "running" => ckpt <= w.cur
        /\ w.pc \in After => w.cur = r.cursor
        /\ w.pc \in After /\ w.kb => ckpt <= w.cur
        /\ w.pc = "complete" => index[w.job][w.ix].status = "succeeded"

AttemptsOK ==
    \A m, n \in Nodes :
        wk[m].pc \in Before /\ wk[n].pc \in Before /\ wk[m].job = wk[n].job
            /\ wk[m].att = wk[n].att => m = n

\* A hand-off is of an attempt that was; the worker of that attempt, if it is
\* still there, waits to cross with it.
RowOK ==
    \A j \in Jobs : hand[j].row # None =>
        /\ 0 < hand[j].row.attempt /\ hand[j].row.attempt <= job[j].attempt
        /\ \A n \in Nodes :
              wk[n].pc \in Before /\ wk[n].job = j /\ wk[n].att = hand[j].row.attempt =>
                  wk[n].pc = "cross" /\ hand[j].row.content = wk[n].stage
        /\ job[j].status = "committing" => 1 .. job[j].cursor \subseteq hand[j].row.content

IndexOK ==
    \A j \in Jobs, i \in 1 .. MaxIndexJobs :
        LET x == index[j][i]
        IN  /\ x.status \in {"pending", "running"} => 1 .. job[j].cursor \subseteq x.content
            /\ x.status \in {"pending", "running"} /\ x.kb => 1 .. ckpt \subseteq x.content
            /\ x.status \in {"built", "succeeded"} /\ job[j].status = "committing"
                  => 1 .. job[j].cursor \subseteq head

CInv ==
    /\ CheckpointCovers
    /\ Delegated
    /\ CursorOK
    /\ \A n \in Nodes : SnapOK(n)
    /\ AttemptsOK
    /\ RowOK
    /\ IndexOK

\* A step that moves no content and no cursor.
CalmRow(j) ==
    LET r == job[j]
        s == job'[j]
    IN  /\ s.start = r.start /\ s.cursor = r.cursor /\ s.attempt = r.attempt
        /\ \/ s.status = r.status
           \/ s.status \in {"cancelled", "failed", "dead_letter"}
           \/ s.status = "retry_wait" /\ Active(j)

CalmHand(j) == hand'[j].row \in {hand[j].row, None}

CalmIndex(j, i) ==
    LET x == index[j][i]
        y == index'[j][i]
    IN  /\ y.kb => x.kb
        /\ y.status \in {"pending", "running"} =>
              x.status \in {"pending", "running"} /\ y.content = x.content
        /\ y.status \in {"built", "succeeded"} => x.status \in {"built", "succeeded"}
        /\ x.status = "succeeded" => y.status = "succeeded"

\* A worker goes where it needs no snapshot any more, or keeps it.
CalmWorker(n) ==
    LET v == wk[n]
        w == wk'[n]
    IN  \/ /\ w.pc \notin {"entered"} \union Before \union After
           /\ w.cur \in {0, v.cur}
           /\ w.job \in {v.job, 0}
           /\ w.kb => v.kb /\ w.job = v.job
        \/ /\ w.job = v.job /\ w.cur = v.cur /\ w.stage = v.stage /\ w.att = v.att
           /\ w.kb => v.kb
           /\ w.tok => v.tok
           /\ \/ w.pc = v.pc /\ w.ix = v.ix
              \/ v.pc \in {"prepare", "upload"} /\ w.pc \in {"upload", "insert"}
              \/ v.pc \in After /\ w.pc \in After \ {"complete"}
              \/ /\ v.pc \in After /\ w.pc = "complete"
                 /\ index'[w.job][w.ix].status = "succeeded"

Calm ==
    /\ \A j \in Jobs : CalmRow(j) /\ CalmHand(j)
    /\ \A j \in Jobs, i \in 1 .. MaxIndexJobs : CalmIndex(j, i)
    /\ \A n \in Nodes : CalmWorker(n)
    /\ ckpt' = ckpt /\ head' = head
    /\ avail <= avail'
    /\ req' # None => req'.cursor <= ckpt

LEMMA WorkerFields ==
    ASSUME TypeOK, NEW n \in Nodes
    PROVE  /\ wk[n] \in Worker
           /\ wk[n].cur \in Nat /\ wk[n].att \in Nat /\ wk[n].ix \in Nat
           /\ wk[n].tok \in BOOLEAN /\ wk[n].kb \in BOOLEAN
           /\ ckpt \in Nat /\ avail \in Nat
  BY BoundsAssumption DEF TypeOK, Worker, Cursors

LEMMA RowFields ==
    ASSUME TypeOK, NEW j \in Jobs
    PROVE  /\ job[j] \in JobRow
           /\ job[j].start \in Nat /\ job[j].cursor \in Nat /\ job[j].attempt \in Nat
           /\ hand[j] \in HandRow
           /\ hand[j].row # None =>
                 hand[j].row.attempt \in Nat /\ hand[j].row.content \in Contents
<1>1. job[j] \in JobRow /\ hand[j] \in HandRow
  BY DEF TypeOK
<1>2. job[j].start \in Nat /\ job[j].cursor \in Nat /\ job[j].attempt \in Nat
  BY <1>1, BoundsAssumption DEF JobRow, Cursors
<1>3. hand[j].row \in ManifestType
  BY <1>1 DEF HandRow
<1>4. QED
  BY <1>1, <1>2, <1>3 DEF ManifestType

LEMMA PolledIndex ==
    ASSUME SInv, NEW n \in Nodes, wk[n].pc \in {"poll", "complete"}
    PROVE  wk[n].job \in Jobs /\ wk[n].ix \in 1 .. MaxIndexJobs
<1>1. wk[n] \in Worker /\ WorkerOK(n)
  BY DEF SInv, TypeOK
<1>2. wk[n].ix \in 0 .. MaxIndexJobs
  BY <1>1 DEF Worker
<1>3. wk[n].ix > 0 /\ wk[n].job \in Jobs
  BY <1>1 DEF WorkerOK
<1>4. QED
  BY <1>2, <1>3, BoundsAssumption

LEMMA CalmStep == ASSUME SInv, TypeOK', CInv, Calm PROVE CInv'
<1>1. TypeOK /\ \A n \in Nodes : WorkerOK(n)
  BY DEF SInv
<1>2. CheckpointCovers'
  BY DEF CInv, CheckpointCovers, Calm
<1>3. \A j \in Jobs : /\ (job'[j].status \in ActiveStatus => job[j].status \in ActiveStatus)
                      /\ \A s \in {"unborn", "running", "committing", "succeeded"} :
                            job'[j].status = s => job[j].status = s
                      /\ job'[j].start = job[j].start /\ job'[j].cursor = job[j].cursor
                      /\ job'[j].attempt = job[j].attempt
  BY DEF Calm, CalmRow, Active, ActiveStatus
<1>4. Delegated'
  <2>1. ASSUME NEW j \in Jobs, Active(j)', Entered(j)'
        PROVE  Active(j) /\ Entered(j)
    <3>1. \A n \in Nodes : wk'[n].job = j => wk[n].job = j
      BY BoundsAssumption DEF Calm, CalmWorker, Jobs
    <3>2. QED
      BY <1>3, <2>1, <3>1 DEF Active, Entered
  <2>2. \A n \in Nodes : wk'[n].kb => wk[n].kb /\ wk'[n].job = wk[n].job
    BY DEF Calm, CalmWorker
  <2>3. \A k \in Jobs, i \in 1 .. MaxIndexJobs : index'[k][i].kb => index[k][i].kb
    BY DEF Calm, CalmIndex
  <2>4. QED
    BY <2>1, <2>2, <2>3 DEF CInv, Delegated
<1>5. CursorOK'
  <2>1. \A j \in Jobs : job[j].cursor \in Nat
    BY <1>1, RowFields
  <2>2. avail \in Nat /\ avail' \in Nat /\ ckpt \in Nat
    BY <1>1, BoundsAssumption DEF TypeOK, Cursors
  <2>3. QED
    BY <1>3, <2>1, <2>2 DEF CInv, CursorOK, Calm, Crossed
<1>6. ASSUME NEW n \in Nodes PROVE SnapOK(n)'
  <2>1. SnapOK(n) /\ WorkerOK(n) /\ CalmWorker(n)
    BY <1>1 DEF CInv, Calm
  <2>2. wk[n].cur \in Nat /\ avail \in Nat /\ avail' \in Nat /\ avail <= avail' /\ ckpt' = ckpt
    BY <1>1, WorkerFields, BoundsAssumption DEF Calm, TypeOK, Cursors
  <2>3. wk'[n].cur <= avail'
    BY <2>1, <2>2 DEF SnapOK, CalmWorker
  <2>4. CASE wk'[n].pc \notin {"entered"} \union Before \union After
    BY <2>3, <2>4 DEF SnapOK, Before, After
  <2>5. CASE wk'[n].pc \in {"entered"} \union Before \union After
    <3>1. /\ wk'[n].job = wk[n].job /\ wk'[n].cur = wk[n].cur /\ wk'[n].stage = wk[n].stage
          /\ wk'[n].att = wk[n].att
          /\ wk'[n].kb => wk[n].kb
          /\ wk'[n].tok => wk[n].tok
          /\ \/ wk'[n].pc = wk[n].pc /\ wk'[n].ix = wk[n].ix
             \/ wk[n].pc \in {"prepare", "upload"} /\ wk'[n].pc \in {"upload", "insert"}
             \/ wk[n].pc \in After /\ wk'[n].pc \in After \ {"complete"}
             \/ /\ wk[n].pc \in After /\ wk'[n].pc = "complete"
                /\ index'[wk'[n].job][wk'[n].ix].status = "succeeded"
      BY <2>1, <2>5 DEF CalmWorker
    <3>2. wk[n].pc # "idle"
      BY <2>5, <3>1 DEF Before, After
    <3>3. wk[n].job \in Jobs
      BY <2>1, <3>2 DEF WorkerOK
    <3>4. wk'[n].pc = "complete" => index'[wk'[n].job][wk'[n].ix].status = "succeeded"
      <4>1. CASE wk'[n].pc = "complete" /\ wk[n].pc = "complete" /\ wk'[n].ix = wk[n].ix
        <5>1. index[wk[n].job][wk[n].ix].status = "succeeded"
          BY <2>1, <4>1 DEF SnapOK
        <5>2. wk[n].ix \in 1 .. MaxIndexJobs
          BY <4>1, PolledIndex
        <5>3. CalmIndex(wk[n].job, wk[n].ix)
          BY <3>3, <5>2 DEF Calm
        <5>4. QED
          BY <3>1, <4>1, <5>1, <5>3 DEF CalmIndex
      <4>2. QED
        BY <3>1, <4>1 DEF Before, After
    <3>5. /\ wk'[n].pc = "entered" => wk[n].pc = "entered"
          /\ wk'[n].pc \in Before => wk[n].pc \in Before
          /\ wk'[n].pc \in Before \ {"paging"} => wk[n].pc \in Before \ {"paging"}
          /\ wk'[n].pc \in After => wk[n].pc \in After
      BY <3>1 DEF Before, After
    <3>6. QED
      BY <1>3, <2>1, <2>2, <2>3, <3>1, <3>3, <3>4, <3>5 DEF SnapOK
  <2>6. QED
    BY <2>4, <2>5
<1>7. \A n \in Nodes : wk'[n].pc \in Before =>
          /\ wk[n].pc \in Before /\ wk'[n].job = wk[n].job /\ wk'[n].att = wk[n].att
          /\ wk'[n].stage = wk[n].stage
          /\ wk[n].pc = "cross" => wk'[n].pc = "cross"
  BY DEF Calm, CalmWorker, Before, After
<1>8. AttemptsOK'
  BY <1>7 DEF CInv, AttemptsOK
<1>9. RowOK'
  <2>1. ASSUME NEW j \in Jobs, hand'[j].row # None
        PROVE  hand'[j].row = hand[j].row /\ hand[j].row # None
    BY <2>1 DEF Calm, CalmHand
  <2>2. ASSUME NEW j \in Jobs, hand'[j].row # None, NEW n \in Nodes,
               wk'[n].pc \in Before, wk'[n].job = j, wk'[n].att = hand'[j].row.attempt
        PROVE  wk'[n].pc = "cross" /\ hand'[j].row.content = wk'[n].stage
    <3>1. wk[n].pc = "cross" /\ hand[j].row.content = wk[n].stage
      BY <1>7, <2>1, <2>2 DEF CInv, RowOK
    <3>2. QED
      BY <1>7, <2>1, <2>2, <3>1
  <2>3. ASSUME NEW j \in Jobs, hand'[j].row # None
        PROVE  /\ 0 < hand'[j].row.attempt /\ hand'[j].row.attempt <= job'[j].attempt
               /\ job'[j].status = "committing" =>
                     1 .. job'[j].cursor \subseteq hand'[j].row.content
    BY <1>3, <2>1, <2>3 DEF CInv, RowOK
  <2>4. QED
    BY <2>2, <2>3 DEF RowOK
<1>10. IndexOK'
  <2>1. ASSUME NEW j \in Jobs, NEW i \in 1 .. MaxIndexJobs
        PROVE  LET x == index'[j][i]
               IN  /\ x.status \in {"pending", "running"} =>
                         1 .. job'[j].cursor \subseteq x.content
                   /\ x.status \in {"pending", "running"} /\ x.kb => 1 .. ckpt' \subseteq x.content
                   /\ x.status \in {"built", "succeeded"} /\ job'[j].status = "committing"
                         => 1 .. job'[j].cursor \subseteq head'
    <3>1. CalmIndex(j, i) /\ ckpt' = ckpt /\ head' = head
      BY DEF Calm
    <3>2. QED
      BY <1>3, <3>1 DEF CInv, IndexOK, CalmIndex
  <2>2. QED
    BY <2>1 DEF IndexOK
<1>11. QED
  BY <1>2, <1>4, <1>5, <1>6, <1>8, <1>9, <1>10 DEF CInv

\* The steps that are calm.
LEMMA StillCalm ==
    /\ \A j \in Jobs : job'[j] = job[j] => CalmRow(j)
    /\ \A j \in Jobs : hand'[j] = hand[j] => CalmHand(j)
    /\ \A j \in Jobs, i \in 1 .. MaxIndexJobs : index'[j][i] = index[j][i] => CalmIndex(j, i)
    /\ \A n \in Nodes : wk'[n] = wk[n] => CalmWorker(n)
  BY DEF CalmRow, CalmHand, CalmIndex, CalmWorker

LEMMA RaiseCalm ==
    ASSUME TypeOK, NEW n \in Nodes, NEW out, Raise(n, out)
    PROVE  \A m \in Nodes : CalmWorker(m)
<1>1. wk'[n] = Raised(wk[n], out) /\ \A m \in Nodes \ {n} : wk'[m] = wk[m]
  BY DEF Raise, TypeOK
<1>2. CalmWorker(n)
  BY <1>1, RaisedFields DEF CalmWorker, Before, After
<1>3. QED
  BY <1>1, <1>2, StillCalm

LEMMA GotoCalm ==
    ASSUME TypeOK, NEW n \in Nodes, NEW pc, Goto(n, pc),
           \/ wk[n].pc \in {"prepare", "upload"} /\ pc \in {"upload", "insert"}
           \/ wk[n].pc \in After /\ pc \in After \ {"complete"}
           \/ /\ wk[n].pc \in After /\ pc = "complete"
              /\ index'[wk[n].job][wk[n].ix].status = "succeeded"
           \/ pc = "settle"
    PROVE  \A m \in Nodes : CalmWorker(m)
<1>1. wk'[n] = [wk[n] EXCEPT !.pc = pc] /\ \A m \in Nodes \ {n} : wk'[m] = wk[m]
  BY DEF Goto, TypeOK
<1>2. wk[n] \in Worker
  BY DEF TypeOK
<1>3. /\ wk'[n].pc = pc /\ wk'[n].job = wk[n].job /\ wk'[n].cur = wk[n].cur
      /\ wk'[n].stage = wk[n].stage /\ wk'[n].att = wk[n].att /\ wk'[n].kb = wk[n].kb
      /\ wk'[n].tok = wk[n].tok /\ wk'[n].ix = wk[n].ix
  BY <1>1, <1>2 DEF Worker
<1>4. CalmWorker(n)
  <2>1. CASE pc = "settle"
    BY <1>3, <2>1 DEF CalmWorker, Before, After
  <2>2. CASE pc # "settle"
    BY <1>3, <2>2 DEF CalmWorker
  <2>3. QED
    BY <2>1, <2>2
<1>5. QED
  BY <1>1, <1>4, StillCalm

LEMMA LeftCalm ==
    ASSUME TypeOK, NEW n \in Nodes, Left(n)
    PROVE  \A m \in Nodes : CalmWorker(m)
<1>1. wk'[n] = Idle /\ \A m \in Nodes \ {n} : wk'[m] = wk[m]
  BY DEF Left, TypeOK
<1>2. CalmWorker(n)
  BY <1>1 DEF CalmWorker, Idle, Before, After
<1>3. QED
  BY <1>1, <1>2, StillCalm

LEMMA CancelledCalm ==
    ASSUME TypeOK, NEW j \in Jobs, job'[j] = CancelledRow(job[j])
    PROVE  CalmRow(j)
<1>1. job[j] \in JobRow
  BY DEF TypeOK
<1>2. QED
  BY <1>1 DEF CancelledRow, CalmRow, JobRow

LEMMA CollectedCalm ==
    ASSUME TypeOK, NEW j \in Jobs, hand'[j] = Collected(hand[j])
    PROVE  CalmHand(j)
  BY DEF CalmHand, Collected, NoHand

\* The workers' own steps leave the checkpoint, the head and the provider alone.
LEMMA WorkersCalm ==
    ASSUME CInv, \A j \in Jobs : CalmRow(j) /\ CalmHand(j),
           \A j \in Jobs, i \in 1 .. MaxIndexJobs : CalmIndex(j, i),
           \A n \in Nodes : CalmWorker(n),
           UNCHANGED << ckpt, head, avail, req >>, avail \in Nat
    PROVE  Calm
  BY DEF CInv, CursorOK, Calm

LEMMA ControlCalm ==
    ASSUME SInv, CInv, Control, ~((CreateIfIdle \/ \E j \in Jobs : Replay(j)) /\ job' # job)
    PROVE  Calm
<1>1. TypeOK /\ avail \in Nat /\ ckpt \in Nat
  BY BoundsAssumption DEF SInv, TypeOK, Cursors
<1>2. UNCHANGED << wk, index, ckpt, head >>
  BY DEF Control, Change, ReadCheckpoint, CreateIfIdle, CancelConnection, SetEnabled,
     ExpireKb, Replay, RequestCancel, CleanTerminal, ExpireJob, Refuse
<1>3. (\A n \in Nodes : CalmWorker(n)) /\ \A j \in Jobs, i \in 1 .. MaxIndexJobs : CalmIndex(j, i)
  BY <1>2, StillCalm
<1>4. avail <= avail'
  BY <1>1 DEF Control, Change, ReadCheckpoint, CreateIfIdle, CancelConnection, SetEnabled,
     ExpireKb, Replay, RequestCancel, CleanTerminal, ExpireJob, Refuse
<1>5. req' \in {req, None, [cursor |-> ckpt, rev |-> conn.rev]}
  BY DEF Control, Change, ReadCheckpoint, CreateIfIdle, CancelConnection, SetEnabled,
     ExpireKb, Replay, RequestCancel, CleanTerminal, ExpireJob, Refuse
<1>6. req' # None => req'.cursor <= ckpt
  BY <1>1, <1>5 DEF CInv, CursorOK
<1>7. ASSUME NEW j \in Jobs PROVE CalmRow(j)
  <2>1. \/ job'[j] = job[j] \/ job'[j] = CancelledRow(job[j])
        \/ job'[j] = [job[j] EXCEPT !.cleanup = FALSE]
        \/ job'[j] = [job[j] EXCEPT !.live = FALSE]
    <3>1. CASE CreateIfIdle \/ \E k \in Jobs : Replay(k)
      BY <3>1
    <3>2. CASE \/ CancelConnection
               \/ \E k \in Jobs : RequestCancel(k) \/ CleanTerminal(k) \/ ExpireJob(k)
               \/ \E n \in Nodes, k \in Jobs : Refuse(n, k)
      <4> USE <1>1 DEF TypeOK
      <4>1. CASE CancelConnection
        BY <4>1 DEF CancelConnection
      <4>2. CASE \E k \in Jobs : RequestCancel(k)
        BY <4>2 DEF RequestCancel
      <4>3. CASE \E k \in Jobs : CleanTerminal(k)
        <5>1. PICK k \in Jobs : job' = [job EXCEPT ![k].cleanup = FALSE]
          BY <4>3 DEF CleanTerminal
        <5>2. QED
          BY <5>1
      <4>4. CASE \E k \in Jobs : ExpireJob(k)
        <5>1. PICK k \in Jobs : job' = [job EXCEPT ![k].live = FALSE]
          BY <4>4 DEF ExpireJob
        <5>2. QED
          BY <5>1
      <4>5. CASE \E n \in Nodes, k \in Jobs : Refuse(n, k)
        BY <4>5 DEF Refuse
      <4>6. QED
        BY <3>2, <4>1, <4>2, <4>3, <4>4, <4>5
    <3>3. CASE Change \/ ReadCheckpoint \/ ExpireKb \/ \E e \in BOOLEAN : SetEnabled(e)
      BY <3>3 DEF Change, ReadCheckpoint, ExpireKb, SetEnabled
    <3>4. QED
      BY <3>1, <3>2, <3>3 DEF Control
  <2>2. job[j] \in JobRow
    BY <1>1 DEF TypeOK
  <2>3. CASE job'[j] = CancelledRow(job[j])
    BY <1>1, <2>3, CancelledCalm
  <2>4. CASE job'[j] # CancelledRow(job[j])
    BY <2>1, <2>2, <2>4 DEF CalmRow, JobRow
  <2>5. QED
    BY <2>3, <2>4
<1>8. ASSUME NEW j \in Jobs PROVE CalmHand(j)
  <2>1. hand'[j] = hand[j] \/ hand'[j] = Collected(hand[j])
    BY DEF SInv, TypeOK, Control, Change, ReadCheckpoint, CreateIfIdle, CancelConnection,
       SetEnabled, ExpireKb, Replay, RequestCancel, CleanTerminal, ExpireJob, Refuse
  <2>2. QED
    BY <1>1, <2>1, StillCalm, CollectedCalm
<1>9. QED
  BY <1>2, <1>3, <1>4, <1>6, <1>7, <1>8 DEF Calm

LEMMA PrepareCalm ==
    ASSUME SInv, CInv, NEW n \in Nodes,
           \/ Guarded(n) \/ Err(n) \/ CheckLease(n) \/ Upload(n) \/ TurnAway(n)
           \/ Cross(n) /\ ~MayCross(n)
    PROVE  Calm
<1>1. TypeOK /\ avail \in Nat
  BY BoundsAssumption DEF SInv, TypeOK, Cursors
<1>2. UNCHANGED << index, ckpt, head, avail, req >>
  BY DEF Guarded, Err, CheckLease, Upload, TurnAway, Cross
<1>3. \A m \in Nodes : CalmWorker(m)
  <2>1. CASE \E out \in {"cancel", "retry", "dead", "fail"} : Raise(n, out)
    BY <1>1, <2>1, RaiseCalm
  <2>2. CASE Left(n)
    BY <1>1, <2>2, LeftCalm
  <2>3. CASE CheckLease(n) /\ Goto(n, "upload")
    BY <1>1, <2>3, GotoCalm DEF CheckLease, At
  <2>4. CASE Upload(n)
    BY <1>1, <2>4, GotoCalm DEF Upload, At
  <2>5. QED
    BY <2>1, <2>2, <2>3, <2>4 DEF Guarded, Err, CheckLease, TurnAway, Cross
<1>4. ASSUME NEW j \in Jobs PROVE CalmHand(j)
  <2>1. CASE Upload(n)
    <3>1. hand[wk[n].job] \in HandRow \/ j # wk[n].job
      BY <1>1 DEF TypeOK
    <3>2. hand'[j].row = hand[j].row
      BY <1>1, <2>1, <3>1 DEF Upload, TypeOK, HandRow
    <3>3. QED
      BY <3>2 DEF CalmHand
  <2>2. CASE ~Upload(n)
    BY <2>2, StillCalm DEF Guarded, Err, CheckLease, TurnAway, Cross
  <2>3. QED
    BY <2>1, <2>2
<1>5. ASSUME NEW j \in Jobs PROVE CalmRow(j)
  <2>1. \/ job'[j] = job[j] \/ job'[j] = [job[j] EXCEPT !.status = "cancelled"]
        \/ job'[j] = CancelledRow(job[j])
    BY <1>1 DEF TypeOK, Guarded, Err, CheckLease, Upload, TurnAway, Cross
  <2>2. job[j] \in JobRow
    BY <1>1 DEF TypeOK
  <2>3. CASE job'[j] = CancelledRow(job[j])
    BY <1>1, <2>3, CancelledCalm
  <2>4. CASE job'[j] # CancelledRow(job[j])
    BY <2>1, <2>2, <2>4 DEF CalmRow, JobRow
  <2>5. QED
    BY <2>3, <2>4
<1>6. QED
  BY <1>1, <1>2, <1>3, <1>4, <1>5, WorkersCalm, StillCalm

LEMMA CommitCalm ==
    ASSUME SInv, CInv, NEW n \in Nodes,
           \/ Materialize(n) \/ RecordIndex(n) \/ Poll(n) \/ Timeout(n) \/ Fail(n)
           \/ Finalize(n) \/ Abort(n) \/ Settle(n) \/ Stall(n)
           \/ SubmitIndex(n) /\ index' = index
           \/ Complete(n) /\ Raise(n, "preserve")
    PROVE  Calm
<1>1. TypeOK /\ avail \in Nat
  BY BoundsAssumption DEF SInv, TypeOK, Cursors
<1>2. UNCHANGED << index, head, avail, req >>
  BY DEF Materialize, RecordIndex, Poll, Timeout, Fail, Finalize, Abort, Settle, Stall,
     SubmitIndex, Complete
<1>3. \A m \in Nodes : CalmWorker(m)
  <2>1. CASE Raise(n, "preserve")
    BY <1>1, <2>1, RaiseCalm
  <2>2. CASE Left(n)
    BY <1>1, <2>2, LeftCalm
  <2>3. CASE Abort(n)
    BY <1>1, <2>3, GotoCalm DEF Abort
  <2>4. CASE wk' = wk
    BY <2>4, StillCalm
  <2>5. CASE Materialize(n) /\ ~Raise(n, "preserve")
    BY <1>1, <2>5, GotoCalm DEF Materialize, At, After
  <2>6. CASE SubmitIndex(n) /\ ~Raise(n, "preserve")
    BY <1>1, <2>6, GotoCalm DEF SubmitIndex, At, After
  <2>7. CASE Poll(n) /\ ~Raise(n, "preserve")
    <3>1. /\ wk[n].pc = "poll"
          /\ \/ Goto(n, "submit")
             \/ Goto(n, "complete") /\ index[wk[n].job][wk[n].ix].status = "succeeded"
      BY <2>7 DEF Poll, At
    <3>2. QED
      BY <1>1, <1>2, <3>1, GotoCalm DEF After
  <2>8. CASE RecordIndex(n) /\ ~Raise(n, "preserve")
    <3>1. /\ wk[n].pc = "record" /\ wk[n] \in Worker
          /\ wk' = [wk EXCEPT ![n].pc = "poll", ![n].ix = @ + 1, ![n].sub = TRUE]
      BY <1>1, <2>8 DEF RecordIndex, At, TypeOK
    <3>2. /\ wk'[n].pc = "poll" /\ wk'[n].job = wk[n].job /\ wk'[n].cur = wk[n].cur
          /\ wk'[n].stage = wk[n].stage /\ wk'[n].att = wk[n].att /\ wk'[n].kb = wk[n].kb
          /\ wk'[n].tok = wk[n].tok
          /\ \A m \in Nodes \ {n} : wk'[m] = wk[m]
      BY <1>1, <3>1 DEF Worker, TypeOK
    <3>3. CalmWorker(n)
      BY <3>1, <3>2 DEF CalmWorker, After
    <3>4. QED
      BY <3>2, <3>3, StillCalm
  <2>9. QED
    BY <2>1, <2>2, <2>3, <2>4, <2>5, <2>6, <2>7, <2>8 DEF Timeout, Fail, Finalize, Settle, Stall
<1>4. ASSUME NEW j \in Jobs PROVE CalmHand(j)
  <2>1. CASE RecordIndex(n)
    <3>1. hand[j] \in HandRow
      BY <1>1 DEF TypeOK
    <3>2. hand'[j].row = hand[j].row
      BY <1>1, <2>1, <3>1 DEF RecordIndex, TypeOK, HandRow
    <3>3. QED
      BY <3>2 DEF CalmHand
  <2>2. CASE ~RecordIndex(n)
    <3>1. hand'[j] = hand[j] \/ hand'[j] = Collected(hand[j])
      BY <1>1, <2>2 DEF Materialize, Poll, Timeout, Fail, Finalize, Abort, Settle, Stall,
         SubmitIndex, Complete, TypeOK
    <3>2. QED
      BY <1>1, <3>1, StillCalm, CollectedCalm
  <2>3. QED
    BY <2>1, <2>2
<1>5. (\A j \in Jobs : CalmRow(j)) /\ ckpt' = ckpt
  <2>1. CASE Settle(n) /\ job' # job
    <3> DEFINE j == wk[n].job
               o == Outcome(wk[n].out)
               c == job[j].cancel \/ wk[n].out = "cancel"
               from == CASE wk[n].out = "cancel" -> {"running"}
                         [] wk[n].out = "preserve" -> {"committing"}
                         [] OTHER -> {"running", "committing"}
    <3>1. /\ LeaseLive(n, from) /\ ckpt' = ckpt
          /\ job' = [job EXCEPT ![j].status = o, ![j].live = FALSE, ![j].cancel = c]
      BY <2>1 DEF Settle
    <3>2. WorkerOK(n) /\ wk[n].pc = "settle" /\ wk[n] \in Worker /\ job \in [Jobs -> JobRow]
      BY <1>1, <2>1 DEF SInv, Settle, At, TypeOK
    <3>3. wk[n].out \in {"cancel", "retry", "dead", "fail", "preserve"} /\ j \in Jobs
      BY <3>2 DEF WorkerOK, Worker
    <3>4. \/ o \in {"cancelled", "failed", "dead_letter"}
          \/ o = "retry_wait" /\ Active(j)
          \/ o = job[j].status
      BY <3>1, <3>3 DEF Outcome, LeaseLive, Active, ActiveStatus
    <3> HIDE DEF o, c
    <3>5. /\ job'[j].status = o /\ job'[j].start = job[j].start
          /\ job'[j].cursor = job[j].cursor /\ job'[j].attempt = job[j].attempt
          /\ \A k \in Jobs \ {j} : job'[k] = job[k]
      BY <3>1, <3>2, <3>3 DEF JobRow
    <3>6. CalmRow(j)
      BY <3>4, <3>5 DEF CalmRow
    <3>7. QED
      BY <3>1, <3>5, <3>6, StillCalm
  <2>2. CASE ~(Settle(n) /\ job' # job)
    <3>1. ckpt' = ckpt /\ \A j \in Jobs : \/ job'[j] = job[j]
                                          \/ job'[j] = [job[j] EXCEPT !.cleanup = FALSE]
                                          \/ job'[j] = [job[j] EXCEPT !.live = FALSE]
      <4>1. CASE Complete(n) /\ Raise(n, "preserve")
        <5>1. wk'[n].pc = "abort"
          BY <1>1, <4>1, RaisedFields DEF Raise, TypeOK
        <5>2. wk[n] \in Worker
          BY <1>1 DEF TypeOK
        <5>3. ~(wk' = [wk EXCEPT ![n].pc = "finalize", ![n].tok = FALSE])
          BY <1>1, <5>1, <5>2 DEF TypeOK, Worker
        <5>4. QED
          BY <4>1, <5>3 DEF Complete
      <4>2. CASE ~(Complete(n) /\ Raise(n, "preserve"))
        BY <1>1, <2>2, <4>2 DEF TypeOK, Materialize, RecordIndex, Poll, Timeout, Fail, Finalize,
           Abort, Settle, Stall, SubmitIndex
      <4>3. QED
        BY <4>1, <4>2
    <3>2. \A j \in Jobs : job[j] \in JobRow
      BY <1>1 DEF TypeOK
    <3>3. QED
      BY <3>1, <3>2 DEF CalmRow, JobRow
  <2>3. QED
    BY <2>1, <2>2
<1>6. QED
  BY <1>1, <1>2, <1>3, <1>4, <1>5, WorkersCalm, StillCalm

LEMMA ExecutorCalm ==
    ASSUME SInv, CInv, NEW j \in Jobs, NEW i \in 1 .. MaxIndexJobs, Executor(j, i), head' = head,
           ~(PublishIndex(j, i) /\ index[j][i].kb /\ kb = "held")
    PROVE  Calm
<1>1. TypeOK /\ avail \in Nat /\ index[j][i] \in IndexRow
  BY BoundsAssumption DEF SInv, TypeOK, Cursors
<1>2. UNCHANGED << job, hand, wk, ckpt, avail, req >>
  BY DEF Executor, ClaimIndex, PublishIndex, ReportIndex, ReconcileIndex
<1>3. PICK status : IndexStep(j, i, status)
                    /\ \/ status = "running" /\ index[j][i].status = "pending"
                       \/ status = "succeeded" /\ index[j][i].status = "built"
                       \/ status = "failed" /\ index[j][i].status \in {"running", "built"}
  BY DEF Executor, ClaimIndex, PublishIndex, ReportIndex, ReconcileIndex
<1>4. /\ index'[j][i].status = status
      /\ status \in {"succeeded", "failed"} => index'[j][i].kb = FALSE
      /\ status \notin {"succeeded", "failed"} =>
            /\ index'[j][i].kb = index[j][i].kb
            /\ index'[j][i].content = index[j][i].content
      /\ \A k \in Jobs, h \in 1 .. MaxIndexJobs :
            k # j \/ h # i => index'[k][h] = index[k][h]
  BY <1>1, <1>3, IndexStepFields
<1>5. CalmIndex(j, i)
  BY <1>3, <1>4 DEF CalmIndex
<1>6. \A k \in Jobs, h \in 1 .. MaxIndexJobs : CalmIndex(k, h)
  BY <1>4, <1>5, StillCalm
<1>7. QED
  BY <1>1, <1>2, <1>6, StillCalm, WorkersCalm

LEMMA CrashCalm == ASSUME SInv, CInv, NEW n \in Nodes, Crash(n) PROVE Calm
<1>1. TypeOK /\ avail \in Nat
  BY BoundsAssumption DEF SInv, TypeOK, Cursors
<1>2. UNCHANGED << job, hand, ckpt, head, avail, req >> /\ Left(n)
  BY DEF Crash, Left
<1>3. \A j \in Jobs, i \in 1 .. MaxIndexJobs : CalmIndex(j, i)
  BY <1>1, CrashFields DEF CalmIndex
<1>4. QED
  BY <1>1, <1>2, <1>3, LeftCalm, StillCalm, WorkersCalm

\* The steps that are not: a new job.
LEMMA BornCovers ==
    ASSUME SInv, TypeOK', CInv, CreateIfIdle \/ \E j \in Jobs : Replay(j), job' # job
    PROVE  CInv'
<1>1. /\ ~AnyActive
      /\ FreshId \in Jobs /\ job[FreshId].status = "unborn"
  BY FreshJob DEF SInv, CreateIfIdle, Replay
<1>2. PICK c \in Cursors, r \in 0 .. MaxSwitches :
          job' = [job EXCEPT ![FreshId] = Created(c, r)] /\ c <= ckpt
  <2>1. CASE CreateIfIdle
    <3>1. req # None /\ job' = [job EXCEPT ![FreshId] = Created(req.cursor, req.rev)]
      BY <1>1, <2>1 DEF CreateIfIdle
    <3>2. req.cursor \in Cursors /\ req.rev \in 0 .. MaxSwitches /\ req.cursor <= ckpt
      BY <3>1 DEF SInv, TypeOK, CInv, CursorOK
    <3>3. QED
      BY <3>1, <3>2
  <2>2. CASE \E j \in Jobs : Replay(j)
    <3>1. job' = [job EXCEPT ![FreshId] = Created(ckpt, conn.rev)]
      BY <2>2 DEF Replay
    <3>2. ckpt \in Cursors /\ conn.rev \in 0 .. MaxSwitches /\ ckpt <= ckpt
      BY BoundsAssumption DEF SInv, TypeOK, Cursors
    <3>3. QED
      BY <3>1, <3>2
  <2>3. QED
    BY <2>1, <2>2
<1>3. /\ job'[FreshId].status = "pending" /\ job'[FreshId].attempt = 0
      /\ job'[FreshId].start = c /\ job'[FreshId].cursor = c
      /\ \A j \in Jobs \ {FreshId} : job'[j] = job[j]
  BY <1>1, <1>2 DEF Created, Unborn, SInv, TypeOK
<1>4. /\ UNCHANGED << wk, index, hand, ckpt, head, avail >>
      /\ req' \in {req, None}
  BY DEF CreateIfIdle, Replay
<1>5. ckpt \in Nat /\ avail \in Nat /\ c \in Nat /\ ckpt <= avail
  BY <1>2, BoundsAssumption DEF SInv, TypeOK, Cursors, CInv, CursorOK
<1>6. \A n \in Nodes : wk[n].job # FreshId /\ (wk[n].pc # "idle" => wk[n].job \in Jobs)
  BY <1>1, BoundsAssumption DEF SInv, WorkerOK, Jobs
<1>7. Delegated'
  <2>1. ASSUME NEW j \in Jobs, Active(j)' PROVE ~Entered(j)'
    <3>1. j = FreshId
      BY <1>1, <1>3, <2>1 DEF Active, AnyActive
    <3>2. QED
      BY <1>3, <1>4, <1>6, <3>1 DEF Entered
  <2>2. QED
    BY <2>1 DEF Delegated
<1>8. CursorOK'
  BY <1>2, <1>3, <1>4, <1>5 DEF CInv, CursorOK, Crossed
<1>9. ASSUME NEW n \in Nodes PROVE SnapOK(n)'
  <2>1. SnapOK(n)
    BY DEF CInv
  <2>2. wk[n].pc # "idle" => job'[wk[n].job] = job[wk[n].job]
    BY <1>3, <1>6
  <2>3. QED
    BY <1>4, <2>1, <2>2 DEF SnapOK, Before, After
<1>10. RowOK'
  <2>1. hand[FreshId].row = None
    BY <1>1, RowFields DEF CInv, CursorOK, RowOK, SInv
  <2>2. QED
    BY <1>3, <1>4, <2>1 DEF CInv, RowOK
<1>11. IndexOK'
  <2>1. \A i \in 1 .. MaxIndexJobs : index[FreshId][i].status = "none"
    BY <1>1 DEF SInv, Visible, Crossed
  <2>2. QED
    BY <1>3, <1>4, <2>1 DEF CInv, IndexOK
<1>12. QED
  BY <1>4, <1>7, <1>8, <1>9, <1>10, <1>11 DEF CInv, CheckpointCovers, AttemptsOK

\* The snapshot of a worker that another's step left alone.
LEMMA OthersSnap ==
    ASSUME SInv, TypeOK', CInv, NEW m \in Nodes, Keeps(m), avail <= avail', ckpt' = ckpt,
           NEW k, k = wk[m].job,
           k \in Jobs => job'[k].start = job[k].start /\ job[k].attempt <= job'[k].attempt,
           k \in Jobs /\ wk'[m].tok /\ wk[m].pc \in Before /\ job'[k].status = "running" =>
               /\ job[k].status = "running" /\ job'[k].cursor = job[k].cursor
               /\ job'[k].attempt = job[k].attempt,
           k \in Jobs /\ wk[m].pc \in After => job'[k].cursor = job[k].cursor,
           wk[m].pc = "complete" /\ index[k][wk[m].ix].status = "succeeded" =>
               index'[k][wk[m].ix].status = "succeeded"
    PROVE  SnapOK(m)'
<1>1. /\ wk'[m].pc = wk[m].pc /\ wk'[m].job = k /\ wk'[m].cur = wk[m].cur
      /\ wk'[m].stage = wk[m].stage /\ wk'[m].att = wk[m].att /\ wk'[m].ix = wk[m].ix
      /\ wk'[m].kb => wk[m].kb
      /\ wk'[m].tok => wk[m].tok
  BY KeepsFields DEF SInv
<1>2. SnapOK(m) /\ (wk[m].pc # "idle" => k \in Jobs)
  BY DEF CInv, SInv, WorkerOK
<1>3. wk[m].cur \in Nat /\ wk[m].att \in Nat /\ avail \in Nat /\ avail' \in Nat
  BY WorkerFields, BoundsAssumption DEF SInv, TypeOK, Cursors
<1>4. k \in Jobs => job[k].attempt \in Nat /\ job'[k].attempt \in Nat
  BY RowFields DEF SInv, TypeOK, JobRow
<1>5. wk'[m].cur <= avail'
  BY <1>1, <1>2, <1>3 DEF SnapOK
<1>6. CASE wk[m].pc = "entered"
  BY <1>1, <1>2, <1>5, <1>6 DEF SnapOK, Before, After
<1>7. CASE wk[m].pc \in Before
  <2>1. k \in Jobs /\ wk[m].pc # "entered" /\ wk[m].pc \notin After
    BY <1>2, <1>7 DEF Before, After
  <2>2. wk'[m].att <= job'[k].attempt
    BY <1>1, <1>2, <1>3, <1>4, <1>7, <2>1 DEF SnapOK
  <2>3. QED
    BY <1>1, <1>2, <1>5, <1>7, <2>1, <2>2 DEF SnapOK, After
<1>8. CASE wk[m].pc \in After
  <2>1. k \in Jobs /\ wk[m].pc # "entered" /\ wk[m].pc \notin Before
    BY <1>2, <1>8 DEF Before, After
  <2>2. QED
    BY <1>1, <1>2, <1>5, <1>8, <2>1 DEF SnapOK
<1>9. CASE wk[m].pc \notin {"entered"} \union Before \union After
  BY <1>1, <1>5, <1>9 DEF SnapOK, Before, After
<1>10. QED
  BY <1>6, <1>7, <1>8, <1>9

LEMMA EnterCovers ==
    ASSUME SInv, TypeOK', CInv, NEW n \in Nodes, NEW j \in Jobs, Enter(n, j)
    PROVE  CInv'
<1>1. UNCHANGED << job, hand, ckpt, head, req, avail >> /\ Active(j) /\ TypeOK
  BY DEF Enter, SInv
<1>2. avail \in Nat /\ ckpt \in Nat /\ avail <= avail'
  BY <1>1, BoundsAssumption DEF TypeOK, Cursors
<1>3. /\ wk'[n].pc = "entered" /\ wk'[n].job = j /\ wk'[n].cur = 0 /\ wk'[n].stage = head
      /\ wk'[n].tok = FALSE
      /\ \A m \in Nodes \ {n} : wk'[m] = [wk[m] EXCEPT !.kb = FALSE]
  BY DEF Enter, Idle
<1>4. \A m \in Nodes \ {n} : Keeps(m) /\ wk'[m].kb = FALSE
  <2>1. \A m \in Nodes : wk[m] \in Worker
    BY <1>1 DEF TypeOK
  <2>2. QED
    BY <1>3, <2>1 DEF Keeps, Worker
<1>5. ASSUME NEW k \in Jobs, NEW i \in 1 .. MaxIndexJobs
      PROVE  /\ index'[k][i].status = index[k][i].status /\ index'[k][i].kb = FALSE
             /\ index'[k][i].content = index[k][i].content
  <2>1. index'[k][i] = [index[k][i] EXCEPT !.kb = FALSE]
    BY DEF Enter
  <2>2. index[k] \in [1 .. MaxIndexJobs -> IndexRow]
    BY <1>1 DEF TypeOK
  <2>3. index[k][i] \in IndexRow
    BY <2>2
  <2>4. QED
    BY <2>1, <2>3 DEF IndexRow
<1>6. Delegated'
  <2>1. \A k \in Jobs : Active(k)' => k = j
    BY <1>1 DEF SInv, OneActive, Active
  <2>2. QED
    BY <1>3, <1>4, <1>5, <2>1 DEF Delegated
<1>7. CheckpointCovers' /\ CursorOK'
  BY <1>1 DEF CInv, CheckpointCovers, CursorOK
<1>8. SnapOK(n)'
  <2>1. job[j].start \in Nat /\ job[j].start <= ckpt
    BY <1>1, RowFields DEF CInv, CursorOK
  <2>2. 1 .. job[j].start \subseteq head
    BY <1>2, <2>1 DEF CInv, CheckpointCovers
  <2>3. QED
    BY <1>1, <1>2, <1>3, <2>2 DEF SnapOK, Before, After
<1>9. ASSUME NEW m \in Nodes \ {n} PROVE SnapOK(m)'
  <2>1. wk[m].pc = "complete" => wk[m].job \in Jobs /\ wk[m].ix \in 1 .. MaxIndexJobs
    BY PolledIndex
  <2>2. \A k \in Jobs : job[k].attempt <= job'[k].attempt
    BY <1>1, RowFields
  <2>3. wk[m].pc = "complete" =>
            index'[wk[m].job][wk[m].ix].status = index[wk[m].job][wk[m].ix].status
    BY <1>5, <2>1
  <2>4. Keeps(m) /\ m \in Nodes
    BY <1>4
  <2>5. QED
    BY <1>1, <1>2, <2>2, <2>3, <2>4, OthersSnap
<1>10. \A m \in Nodes : wk'[m].pc \in Before =>
          /\ m # n /\ wk'[m].pc = wk[m].pc /\ wk'[m].job = wk[m].job /\ wk'[m].att = wk[m].att
          /\ wk'[m].stage = wk[m].stage
  BY <1>1, <1>3, <1>4, KeepsFields DEF Before
<1>11. AttemptsOK' /\ RowOK'
  BY <1>1, <1>10 DEF CInv, AttemptsOK, RowOK
<1>12. IndexOK'
  BY <1>1, <1>5 DEF CInv, IndexOK
<1>13. QED
  BY <1>6, <1>7, <1>8, <1>9, <1>11, <1>12 DEF CInv

\* A new attempt starts where the job did, on what the head was when the worker
\* entered; its number is its own.
LEMMA AttemptCovers ==
    ASSUME SInv, TypeOK', CInv, NEW n \in Nodes, Acquire(n),
           job[wk[n].job].status # "committing"
    PROVE  CInv'
<1> DEFINE j == wk[n].job
           r == job[j]
           a == Acquired(r)
           rec == [wk[n] EXCEPT !.pc = "paging", !.tok = TRUE, !.cur = a.cursor,
                                !.att = a.attempt]
<1>1. /\ j \in Jobs /\ r \in JobRow /\ wk[n] \in Worker /\ wk[n].pc = "entered"
      /\ TypeOK /\ job' = [job EXCEPT ![j] = a] /\ TakeToken(n, rec)
  BY DEF SInv, TypeOK, Acquire, At, WorkerOK
<1>2. UNCHANGED << hand, index, ckpt, head, req, avail >>
  BY DEF Acquire
<1>3. /\ r.start \in Nat /\ r.attempt \in Nat /\ ckpt \in Nat /\ avail \in Nat
      /\ r.start <= ckpt /\ ckpt <= avail /\ avail <= avail'
  BY <1>1, <1>2, RowFields, BoundsAssumption DEF CInv, CursorOK, TypeOK, Cursors
<1>4. r.status \in {"pending", "retry_wait", "running"}
  BY DEF Acquire, Runnable
<1>5. /\ a.status = "running" /\ a.cursor = r.start /\ a.start = r.start
      /\ a.attempt = r.attempt + 1
  BY <1>1, <1>4 DEF Acquired, JobRow
<1>6. rec.pc = "paging" /\ rec.job = j /\ rec.cur = r.start /\ rec.att = r.attempt + 1
      /\ rec.stage = wk[n].stage /\ rec.kb = wk[n].kb
  <2> HIDE DEF a
  <2> QED BY <1>1, <1>5 DEF Worker
<1> HIDE DEF rec
<1>7. /\ wk'[n].pc = "paging" /\ wk'[n].job = j /\ wk'[n].cur = r.start
      /\ wk'[n].att = r.attempt + 1 /\ wk'[n].stage = wk[n].stage /\ wk'[n].kb = wk[n].kb
      /\ \A m \in Nodes \ {n} : Keeps(m) /\ (wk'[m].job = j => wk'[m].tok = FALSE)
  BY <1>1, <1>6, TokenTaken
<1>8. /\ job'[j].status = "running" /\ job'[j].cursor = r.start /\ job'[j].start = r.start
      /\ job'[j].attempt = r.attempt + 1
      /\ \A k \in Jobs \ {j} : job'[k] = job[k]
  <2> HIDE DEF a
  <2> QED BY <1>1, <1>5 DEF TypeOK
<1> HIDE DEF a
<1>9. \A m \in Nodes \ {n} : /\ wk'[m].pc = wk[m].pc /\ wk'[m].job = wk[m].job
                             /\ wk'[m].att = wk[m].att /\ wk'[m].stage = wk[m].stage
                             /\ wk'[m].kb => wk[m].kb
  BY <1>1, <1>7, KeepsFields
<1>10. Delegated'
  <2>1. \A k \in Jobs : Active(k)' => k = j /\ Active(j)
    BY <1>1, <1>4, <1>8 DEF SInv, OneActive, Active, ActiveStatus
  <2>2. Entered(j)
    BY DEF Entered
  <2>3. \A m \in Nodes : wk'[m].kb => wk'[m].job = wk[m].job /\ wk[m].kb
    BY <1>7, <1>9
  <2>4. QED
    BY <1>1, <1>2, <2>1, <2>2, <2>3 DEF CInv, Delegated
<1>11. CursorOK'
  BY <1>1, <1>2, <1>3, <1>8 DEF CInv, CursorOK, Crossed
<1>12. SnapOK(n)'
  <2>1. 1 .. r.start \subseteq wk[n].stage
    BY <1>1 DEF CInv, SnapOK
  <2>2. QED
    BY <1>2, <1>3, <1>7, <1>8, <2>1 DEF SnapOK, Before, After
<1>13. ASSUME NEW m \in Nodes, m # n PROVE SnapOK(m)'
  <2>1. Keeps(m) /\ (wk[m].job = j => wk'[m].tok = FALSE)
    BY <1>7, <1>9, <1>13
  <2>2. \A k \in Jobs : job'[k].start = job[k].start /\ job[k].attempt <= job'[k].attempt
    BY <1>1, <1>3, <1>8, RowFields
  <2>3. wk[m].pc \in After => wk[m].job # j
    BY <1>4 DEF SInv, WorkerOK, Crossed
  <2>4. \A k \in Jobs : k # j => job'[k] = job[k]
    BY <1>8
  <2>5. QED
    BY <1>2, <1>3, <2>1, <2>2, <2>3, <2>4, OthersSnap
<1>14. \A m \in Nodes : wk[m].pc \in Before /\ wk[m].job = j => wk[m].att # r.attempt + 1
  BY <1>1, <1>3, WorkerFields DEF CInv, SnapOK
<1>15. AttemptsOK'
  <2>1. \A m \in Nodes \ {n} : wk'[m].pc \in Before /\ wk'[m].job = j => wk'[m].att # wk'[n].att
    BY <1>7, <1>9, <1>14
  <2>2. \A m, l \in Nodes \ {n} :
            wk'[m].pc \in Before /\ wk'[l].pc \in Before /\ wk'[m].job = wk'[l].job
                /\ wk'[m].att = wk'[l].att => m = l
    BY <1>9 DEF CInv, AttemptsOK
  <2>3. QED
    BY <1>7, <2>1, <2>2 DEF AttemptsOK
<1>16. RowOK'
  <2>1. ASSUME NEW k \in Jobs, hand[k].row # None
        PROVE  /\ 0 < hand[k].row.attempt /\ hand[k].row.attempt <= job'[k].attempt
               /\ k = j => hand[k].row.attempt # r.attempt + 1
    BY <1>1, <1>3, <1>8, <2>1, RowFields DEF CInv, RowOK
  <2>2. ASSUME NEW k \in Jobs, hand[k].row # None, NEW m \in Nodes, wk'[m].pc \in Before,
               wk'[m].job = k, wk'[m].att = hand[k].row.attempt
        PROVE  wk'[m].pc = "cross" /\ hand[k].row.content = wk'[m].stage
    <3>1. m # n
      BY <1>7, <2>1, <2>2
    <3>2. QED
      BY <1>9, <2>2, <3>1 DEF CInv, RowOK
  <2>3. \A k \in Jobs : hand[k].row # None /\ job'[k].status = "committing" =>
            1 .. job'[k].cursor \subseteq hand[k].row.content
    BY <1>8 DEF CInv, RowOK
  <2>4. QED
    BY <1>2, <2>1, <2>2, <2>3 DEF RowOK
<1>17. IndexOK'
  <2>1. \A i \in 1 .. MaxIndexJobs : index[j][i].status = "none"
    BY <1>1, <1>4 DEF SInv, Visible, Crossed
  <2>2. QED
    BY <1>2, <1>8, <2>1 DEF CInv, IndexOK
<1>18. CheckpointCovers'
  BY <1>2 DEF CInv, CheckpointCovers
<1>19. QED
  BY <1>10, <1>11, <1>12, <1>13, <1>15, <1>16, <1>17, <1>18 DEF CInv

\* A recovery takes up the snapshot and the cursor the attempt that crossed left.
LEMMA RecoveryCovers ==
    ASSUME SInv, TypeOK', CInv, NEW n \in Nodes, Acquire(n),
           job[wk[n].job].status = "committing"
    PROVE  CInv'
<1> DEFINE j == wk[n].job
           r == job[j]
<1>1. /\ j \in Jobs /\ r \in JobRow /\ wk[n] \in Worker /\ wk[n].pc = "entered" /\ TypeOK
      /\ job' = [job EXCEPT ![j] = Acquired(r)]
  BY DEF SInv, TypeOK, Acquire, At, WorkerOK
<1>2. UNCHANGED << hand, index, ckpt, head, req, avail >>
  BY DEF Acquire
<1>3. avail \in Nat /\ ckpt \in Nat /\ avail <= avail'
  BY <1>1, <1>2, BoundsAssumption DEF TypeOK, Cursors
<1>4. \A k \in Jobs :
          /\ job'[k].status = job[k].status /\ job'[k].start = job[k].start
          /\ job'[k].cursor = job[k].cursor /\ job'[k].attempt = job[k].attempt
  BY <1>1 DEF Acquired, JobRow, TypeOK
<1>5. \A k \in Jobs : CalmRow(k)
  BY <1>4 DEF CalmRow
<1>6. CASE ~(Intact(j) /\ KbLive(n))
  <2> DEFINE w == [wk[n] EXCEPT !.tok = TRUE, !.auth = TRUE]
  <2>1. TakeToken(n, Raised(w, "preserve"))
    BY <1>6 DEF Acquire
  <2>2. w.job = j /\ w.kb = wk[n].kb
    BY <1>1 DEF Worker
  <2> HIDE DEF w
  <2>3. /\ wk'[n] = Raised(w, "preserve")
        /\ \A m \in Nodes \ {n} : Keeps(m)
    BY <1>1, <2>1, TokenTaken
  <2>4. CalmWorker(n)
    BY <2>2, <2>3, RaisedFields DEF CalmWorker, Before, After
  <2>5. \A m \in Nodes \ {n} : CalmWorker(m)
    BY <1>1, <2>3, KeepsFields DEF CalmWorker
  <2>6. Calm
    BY <1>2, <1>3, <1>5, <2>4, <2>5, StillCalm, WorkersCalm
  <2>7. QED
    BY <2>6, CalmStep
<1>7. CASE Intact(j) /\ KbLive(n)
  <2> DEFINE rec == [wk[n] EXCEPT !.pc = "commit", !.tok = TRUE, !.cur = Acquired(r).cursor,
                                  !.auth = TRUE, !.ix = hand[j].ix,
                                  !.stage = hand[j].row.content]
  <2>1. TakeToken(n, rec)
    BY <1>7 DEF Acquire
  <2>2. rec.pc = "commit" /\ rec.job = j /\ rec.cur = r.cursor /\ rec.kb = wk[n].kb
        /\ rec.stage = hand[j].row.content
    <3>1. Acquired(r).cursor = r.cursor
      BY <1>1 DEF Acquired, JobRow
    <3>2. QED
      BY <1>1, <3>1 DEF Worker
  <2> HIDE DEF rec
  <2>3. /\ wk'[n].pc = "commit" /\ wk'[n].job = j /\ wk'[n].cur = r.cursor
        /\ wk'[n].kb = wk[n].kb /\ wk'[n].stage = hand[j].row.content
        /\ \A m \in Nodes \ {n} : Keeps(m)
    BY <1>1, <2>1, <2>2, TokenTaken
  <2>4. SnapOK(n)'
    <3>1. 1 .. r.cursor \subseteq hand[j].row.content
      BY <1>1, <1>7 DEF CInv, RowOK, Intact
    <3>2. ckpt <= r.cursor /\ r.cursor <= avail
      BY <1>1 DEF CInv, CursorOK
    <3>3. QED
      BY <1>1, <1>2, <1>4, <2>3, <3>1, <3>2 DEF SnapOK, Before, After
  <2>5. ASSUME NEW m \in Nodes, m # n PROVE SnapOK(m)'
    <3>1. Keeps(m)
      BY <2>3, <2>5
    <3>2. \A k \in Jobs : job[k].attempt <= job'[k].attempt
      BY <1>1, <1>4, RowFields
    <3>3. QED
      BY <1>2, <1>3, <1>4, <3>1, <3>2, OthersSnap
  <2>6. \A m \in Nodes \ {n} : /\ wk'[m].pc = wk[m].pc /\ wk'[m].job = wk[m].job
                               /\ wk'[m].att = wk[m].att /\ wk'[m].stage = wk[m].stage
                               /\ wk'[m].kb => wk[m].kb
    BY <1>1, <2>3, KeepsFields
  <2>7. Delegated'
    <3>1. \A k \in Jobs : Active(k)' => Active(k)
      BY <1>4 DEF Active
    <3>2. \A m \in Nodes : wk'[m].job = wk[m].job
      BY <2>3, <2>6
    <3>3. \A k \in Jobs : Entered(k)' => Entered(k)
      BY <1>4, <3>2 DEF Entered
    <3>4. \A m \in Nodes : wk'[m].kb => wk[m].kb
      BY <2>3, <2>6
    <3>5. QED
      BY <1>2, <3>1, <3>2, <3>3, <3>4 DEF CInv, Delegated
  <2>8. CursorOK'
    BY <1>2, <1>4 DEF CInv, CursorOK
  <2>9. \A m \in Nodes : wk'[m].pc \in Before => m # n
    BY <2>3 DEF Before
  <2>10. AttemptsOK' /\ RowOK'
    BY <1>2, <1>4, <2>6, <2>9 DEF CInv, AttemptsOK, RowOK
  <2>11. IndexOK' /\ CheckpointCovers'
    BY <1>2, <1>4 DEF CInv, IndexOK, CheckpointCovers
  <2>12. QED
    BY <2>4, <2>5, <2>7, <2>8, <2>10, <2>11 DEF CInv
<1>8. QED
  BY <1>6, <1>7

\* A page moves the cursor and the snapshot together, on the worker and in its
\* row; the last one has reached whatever was ever read.
LEMMA PageCovers ==
    ASSUME SInv, TypeOK', CInv, NEW n \in Nodes, Page(n)
    PROVE  CInv'
<1> DEFINE j == wk[n].job
           next == IF wk[n].cur < avail THEN wk[n].cur + 1 ELSE wk[n].cur
           stage == IF next = wk[n].cur THEN wk[n].stage ELSE wk[n].stage \union {next}
           pc == IF next = avail THEN "prepare" ELSE "paging"
<1>1. /\ j \in Jobs /\ job[j] \in JobRow /\ wk[n] \in Worker /\ wk[n].pc = "paging"
      /\ TypeOK /\ wk[n].tok /\ job[j].status = "running" /\ wk[n].kb \in BOOLEAN
      /\ job' = [job EXCEPT ![j].cursor = next]
      /\ wk' = [wk EXCEPT ![n].cur = next, ![n].stage = stage, ![n].pc = pc]
  BY DEF SInv, TypeOK, Page, At, WorkerOK, LeaseLive, Worker
<1>2. UNCHANGED << hand, index, ckpt, head, req, avail >>
  BY DEF Page
<1>3. /\ wk[n].cur \in Nat /\ ckpt \in Nat /\ avail \in Nat /\ wk[n].cur <= avail
      /\ ckpt <= avail /\ avail <= avail'
      /\ wk[n].att = job[j].attempt /\ wk[n].att \in Nat /\ wk[n].att > 0
      /\ 1 .. wk[n].cur \subseteq wk[n].stage
  <2>1. ckpt <= avail /\ SnapOK(n)
    BY DEF CInv, CursorOK
  <2>2. /\ wk[n].cur <= avail /\ wk[n].att = job[j].attempt /\ wk[n].att > 0
        /\ 1 .. wk[n].cur \subseteq wk[n].stage
    BY <1>1, <2>1 DEF SnapOK, Before
  <2>3. wk[n].cur \in Nat /\ ckpt \in Nat /\ avail \in Nat /\ wk[n].att \in Nat
    BY <1>1, WorkerFields
  <2>4. QED
    BY <1>2, <2>1, <2>2, <2>3
<1>4. /\ next \in Nat /\ next <= avail /\ (pc = "prepare" => ckpt <= next)
      /\ pc \in {"paging", "prepare"}
      /\ 1 .. next \subseteq stage
  BY <1>3
<1> HIDE DEF next, stage, pc
<1>5. /\ wk'[n].pc = pc /\ wk'[n].job = j /\ wk'[n].cur = next /\ wk'[n].stage = stage
      /\ wk'[n].att = wk[n].att /\ wk'[n].kb = wk[n].kb /\ wk'[n].tok = wk[n].tok
      /\ \A m \in Nodes \ {n} : wk'[m] = wk[m]
  <2> DEFINE w == [wk[n] EXCEPT !.cur = next, !.stage = stage, !.pc = pc]
  <2>1. wk' = [wk EXCEPT ![n] = w]
    BY <1>1
  <2>2. /\ w.pc = pc /\ w.job = j /\ w.cur = next /\ w.stage = stage
        /\ w.att = wk[n].att /\ w.kb = wk[n].kb /\ w.tok = wk[n].tok
    BY <1>1 DEF Worker
  <2> HIDE DEF w
  <2>3. QED
    BY <1>1, <2>1, <2>2 DEF TypeOK
<1>6. /\ job'[j].status = "running" /\ job'[j].cursor = next /\ job'[j].start = job[j].start
      /\ job'[j].attempt = job[j].attempt
      /\ \A k \in Jobs \ {j} : job'[k] = job[k]
  BY <1>1 DEF JobRow, TypeOK
<1>7. \A k \in Jobs : /\ job'[k].status = job[k].status /\ job'[k].start = job[k].start
                      /\ job'[k].attempt = job[k].attempt
  BY <1>1, <1>6
<1>8. Delegated'
  BY <1>2, <1>5, <1>7 DEF CInv, Delegated, Active, Entered
<1>9. CursorOK'
  BY <1>2, <1>3, <1>4, <1>6, <1>7 DEF CInv, CursorOK
<1>10. SnapOK(n)'
  <2>1. wk'[n].pc \in Before /\ wk'[n].pc \notin {"entered"} \union After
    BY <1>4, <1>5 DEF Before, After
  <2>2. /\ wk'[n].cur <= avail' /\ 1 .. wk'[n].cur \subseteq wk'[n].stage
        /\ wk'[n].att > 0 /\ wk'[n].att <= job'[j].attempt
    BY <1>2, <1>3, <1>4, <1>5, <1>6
  <2>3. wk'[n].pc # "paging" => ckpt' <= wk'[n].cur
    BY <1>2, <1>4, <1>5
  <2>4. QED
    BY <1>3, <1>5, <1>6, <2>1, <2>2, <2>3 DEF SnapOK, After
<1>11. ASSUME NEW m \in Nodes, m # n PROVE SnapOK(m)'
  <2>1. Keeps(m) /\ (wk[m].tok => wk[m].job # j)
    BY <1>1, <1>5, <1>11 DEF Keeps, SInv, OneToken
  <2>2. \A k \in Jobs : job[k].attempt <= job'[k].attempt
    BY <1>1, <1>7, RowFields
  <2>3. wk[m].pc \in After => wk[m].job # j
    BY <1>1 DEF SInv, WorkerOK, Crossed
  <2>4. wk'[m].tok = wk[m].tok /\ \A k \in Jobs : k # j => job'[k] = job[k]
    BY <1>5, <1>6, <1>11
  <2>5. QED
    BY <1>2, <1>3, <1>7, <2>1, <2>2, <2>3, <2>4, OthersSnap
<1>12. \A m \in Nodes :
          /\ wk'[m].pc \in Before => wk[m].pc \in Before
          /\ wk'[m].job = wk[m].job /\ wk'[m].att = wk[m].att
          /\ m # n => wk'[m] = wk[m]
  BY <1>1, <1>5 DEF Before
<1>13. AttemptsOK'
  BY <1>12 DEF CInv, AttemptsOK
<1>14. RowOK'
  <2>1. \A k \in Jobs : hand[k].row # None =>
            /\ 0 < hand[k].row.attempt /\ hand[k].row.attempt <= job'[k].attempt
            /\ job'[k].status = "committing" => 1 .. job'[k].cursor \subseteq hand[k].row.content
    BY <1>6, <1>7 DEF CInv, RowOK
  <2>2. ASSUME NEW k \in Jobs, hand[k].row # None, NEW m \in Nodes, wk'[m].pc \in Before,
               wk'[m].job = k, wk'[m].att = hand[k].row.attempt
        PROVE  wk'[m].pc = "cross" /\ hand[k].row.content = wk'[m].stage
    <3>1. wk[m].pc = "cross" /\ hand[k].row.content = wk[m].stage
      BY <1>12, <2>2 DEF CInv, RowOK
    <3>2. m # n
      BY <1>1, <3>1
    <3>3. QED
      BY <1>12, <3>1, <3>2
  <2>3. QED
    BY <1>2, <2>1, <2>2 DEF RowOK
<1>15. IndexOK'
  <2>1. \A i \in 1 .. MaxIndexJobs : index[j][i].status = "none"
    BY <1>1 DEF SInv, Visible, Crossed
  <2>2. QED
    BY <1>2, <1>6, <2>1 DEF CInv, IndexOK
<1>16. CheckpointCovers'
  BY <1>2 DEF CInv, CheckpointCovers
<1>17. QED
  BY <1>8, <1>9, <1>10, <1>11, <1>13, <1>14, <1>15, <1>16 DEF CInv

\* A worker inserts its own snapshot, or finds that of another attempt; under
\* the invariant no job can be past the boundary without a row.
LEMMA InsertCovers ==
    ASSUME SInv, TypeOK', CInv, HandoffKept, NEW n \in Nodes, Insert(n)
    PROVE  CInv'
<1> DEFINE j == wk[n].job
<1>1. /\ j \in Jobs /\ wk[n] \in Worker /\ wk[n].pc = "insert" /\ TypeOK
      /\ hand[j] \in HandRow
  BY DEF SInv, TypeOK, Insert, At, WorkerOK
<1>2. UNCHANGED << job, index, ckpt, head, req, avail >>
  BY DEF Insert
<1>3. avail \in Nat /\ avail <= avail'
  BY <1>1, <1>2, WorkerFields
<1>4. CASE hand[j].row # None
  <2>1. hand[j].row # Manifest(n)
    <3>1. hand[j].row.attempt # wk[n].att
      BY <1>1, <1>4 DEF CInv, RowOK, Before
    <3>2. QED
      BY <3>1 DEF Manifest
  <2>2. hand' = [hand EXCEPT ![j].row = hand[j].row] /\ Raise(n, "fail")
    BY <1>4, <2>1 DEF Insert
  <2>3. \A k \in Jobs : hand'[k] = hand[k]
    BY <1>1, <2>2 DEF TypeOK, HandRow
  <2>4. Calm
    BY <1>1, <1>2, <1>3, <2>2, <2>3, RaiseCalm, StillCalm, WorkersCalm
  <2>5. QED
    BY <2>4, CalmStep
<1>5. CASE hand[j].row = None
  <2>1. hand' = [hand EXCEPT ![j].row = Manifest(n)] /\ wk' = [wk EXCEPT ![n].pc = "cross"]
    BY <1>5 DEF Insert, Goto
  <2>2. /\ wk'[n].pc = "cross" /\ wk'[n].job = j /\ wk'[n].cur = wk[n].cur
        /\ wk'[n].stage = wk[n].stage /\ wk'[n].att = wk[n].att /\ wk'[n].kb = wk[n].kb
        /\ wk'[n].tok = wk[n].tok
        /\ \A m \in Nodes \ {n} : wk'[m] = wk[m]
    BY <1>1, <2>1 DEF Worker, TypeOK
  <2>3. /\ hand'[j].row = Manifest(n)
        /\ \A k \in Jobs \ {j} : hand'[k] = hand[k]
    BY <1>1, <2>1 DEF HandRow, TypeOK
  <2>4. SnapOK(n)
    BY DEF CInv
  <2>5. SnapOK(n)'
    BY <1>1, <1>2, <2>2, <2>4 DEF SnapOK, Before, After
  <2>6. ASSUME NEW m \in Nodes, m # n PROVE SnapOK(m)'
    <3>1. Keeps(m)
      BY <2>2, <2>6 DEF Keeps
    <3>2. \A k \in Jobs : job[k].attempt <= job'[k].attempt
      BY <1>1, <1>2, RowFields
    <3>3. QED
      BY <1>2, <1>3, <3>1, <3>2, OthersSnap
  <2>7. Delegated' /\ CursorOK' /\ IndexOK' /\ CheckpointCovers'
    <3>1. Delegated'
      BY <1>2, <2>2 DEF CInv, Delegated, Active, Entered
    <3>2. QED
      BY <1>2, <3>1 DEF CInv, CursorOK, IndexOK, CheckpointCovers
  <2>8. \A m \in Nodes :
          /\ wk'[m].pc \in Before => wk[m].pc \in Before
          /\ wk'[m].job = wk[m].job /\ wk'[m].att = wk[m].att /\ wk'[m].stage = wk[m].stage
          /\ m # n => wk'[m] = wk[m]
    BY <1>1, <2>2 DEF Before
  <2>9. AttemptsOK'
    BY <2>8 DEF CInv, AttemptsOK
  <2>10. RowOK'
    <3>1. Manifest(n).attempt = wk[n].att /\ Manifest(n).content = wk[n].stage
      BY DEF Manifest
    <3>2. wk[n].att > 0 /\ wk[n].att <= job[j].attempt /\ wk[n].att \in Nat
      BY <1>1, <2>4, WorkerFields DEF SnapOK, Before
    <3>3. job[j].status # "committing"
      BY <1>1, <1>5 DEF HandoffKept, Intact
    <3>4. ASSUME NEW k \in Jobs, hand'[k].row # None
          PROVE  /\ 0 < hand'[k].row.attempt /\ hand'[k].row.attempt <= job'[k].attempt
                 /\ job'[k].status = "committing" =>
                       1 .. job'[k].cursor \subseteq hand'[k].row.content
      <4>1. CASE k = j
        BY <1>2, <2>3, <3>1, <3>2, <3>3, <4>1
      <4>2. CASE k # j
        BY <1>2, <2>3, <3>4, <4>2 DEF CInv, RowOK
      <4>3. QED
        BY <4>1, <4>2
    <3>5. ASSUME NEW k \in Jobs, hand'[k].row # None, NEW m \in Nodes, wk'[m].pc \in Before,
                 wk'[m].job = k, wk'[m].att = hand'[k].row.attempt
          PROVE  wk'[m].pc = "cross" /\ hand'[k].row.content = wk'[m].stage
      <4>1. CASE k = j
        <5>1. m = n
          BY <1>1, <2>3, <2>8, <3>1, <3>5, <4>1 DEF CInv, AttemptsOK, Before
        <5>2. QED
          BY <2>2, <2>3, <3>1, <4>1, <5>1
      <4>2. CASE k # j
        BY <2>2, <2>3, <2>8, <3>5, <4>2 DEF CInv, RowOK
      <4>3. QED
        BY <4>1, <4>2
    <3>6. QED
      BY <3>4, <3>5 DEF RowOK
  <2>11. QED
    BY <2>5, <2>6, <2>7, <2>9, <2>10 DEF CInv
<1>6. QED
  BY <1>4, <1>5

\* The worker that crosses leaves what it inserted.
LEMMA CrossCovers ==
    ASSUME SInv, TypeOK', CInv, HandoffKept', NEW n \in Nodes, Cross(n), MayCross(n)
    PROVE  CInv'
<1> DEFINE j == wk[n].job
<1>1. /\ j \in Jobs /\ job[j] \in JobRow /\ wk[n] \in Worker /\ wk[n].pc = "cross"
      /\ TypeOK /\ wk[n].tok /\ job[j].status = "running"
      /\ job' = [job EXCEPT ![j].status = "committing"]
      /\ wk' = [wk EXCEPT ![n].pc = "commit", ![n].auth = TRUE]
  BY DEF SInv, TypeOK, Cross, MayCross, At, WorkerOK, LeaseLive
<1>2. UNCHANGED << hand, index, ckpt, head, req, avail >>
  BY DEF Cross
<1>3. avail \in Nat /\ avail <= avail'
  BY <1>1, <1>2, WorkerFields
<1>4. /\ wk'[n].pc = "commit" /\ wk'[n].job = j /\ wk'[n].cur = wk[n].cur
      /\ wk'[n].stage = wk[n].stage /\ wk'[n].kb = wk[n].kb
      /\ \A m \in Nodes \ {n} : wk'[m] = wk[m]
  BY <1>1 DEF Worker, TypeOK
<1>5. /\ job'[j].status = "committing" /\ job'[j].cursor = job[j].cursor
      /\ job'[j].start = job[j].start /\ job'[j].attempt = job[j].attempt
      /\ \A k \in Jobs \ {j} : job'[k] = job[k]
  BY <1>1 DEF JobRow, TypeOK
<1>6. /\ wk[n].cur = job[j].cursor /\ wk[n].att = job[j].attempt /\ ckpt <= wk[n].cur
      /\ 1 .. wk[n].cur \subseteq wk[n].stage /\ wk[n].cur <= avail
  BY <1>1 DEF CInv, SnapOK, Before
<1>7. hand[j].row # None /\ hand[j].row.content = wk[n].stage
  <2>1. hand[j].row # None /\ hand[j].row.attempt = job[j].attempt
    BY <1>1, <1>2, <1>5 DEF HandoffKept, Intact
  <2>2. QED
    BY <1>1, <1>6, <2>1 DEF CInv, RowOK, Before
<1>8. \A k \in Jobs : job'[k].start = job[k].start /\ job'[k].cursor = job[k].cursor
                      /\ job'[k].attempt = job[k].attempt
  BY <1>5
<1>9. Delegated'
  <2>1. \A k \in Jobs : Active(k)' => Active(k)
    BY <1>1, <1>5 DEF Active, ActiveStatus
  <2>2. \A k \in Jobs : Entered(k)' => Entered(k)
    BY <1>4, <1>8 DEF Entered
  <2>3. QED
    BY <1>2, <1>4, <2>1, <2>2 DEF CInv, Delegated
<1>10. CursorOK'
  <2>1. job[j].attempt > 0
    BY <1>1 DEF CInv, CursorOK
  <2>2. QED
    BY <1>2, <1>5, <1>6, <1>8, <2>1 DEF CInv, CursorOK
<1>11. SnapOK(n)'
  BY <1>2, <1>4, <1>5, <1>6 DEF SnapOK, Before, After
<1>12. ASSUME NEW m \in Nodes, m # n PROVE SnapOK(m)'
  <2>1. Keeps(m) /\ (wk[m].tok => wk[m].job # j) /\ wk'[m].tok = wk[m].tok
    BY <1>1, <1>4, <1>12 DEF Keeps, SInv, OneToken
  <2>2. \A k \in Jobs : job[k].attempt <= job'[k].attempt
    BY <1>1, <1>8, RowFields
  <2>3. \A k \in Jobs : k # j => job'[k] = job[k]
    BY <1>5
  <2>4. QED
    BY <1>2, <1>3, <1>8, <2>1, <2>2, <2>3, OthersSnap
<1>13. \A m \in Nodes : wk'[m].pc \in Before => m # n /\ wk'[m] = wk[m]
  BY <1>4 DEF Before
<1>14. AttemptsOK'
  BY <1>13 DEF CInv, AttemptsOK
<1>15. RowOK'
  <2>1. \A k \in Jobs : hand[k].row # None /\ job'[k].status = "committing" =>
            1 .. job'[k].cursor \subseteq hand[k].row.content
    BY <1>5, <1>6, <1>7 DEF CInv, RowOK
  <2>2. QED
    BY <1>2, <1>8, <1>13, <2>1 DEF CInv, RowOK
<1>16. IndexOK'
  <2>1. \A i \in 1 .. MaxIndexJobs : index[j][i].status = "none"
    BY <1>1 DEF SInv, Visible, Crossed
  <2>2. QED
    BY <1>2, <1>5, <2>1 DEF CInv, IndexOK
<1>17. CheckpointCovers'
  BY <1>2 DEF CInv, CheckpointCovers
<1>18. QED
  BY <1>9, <1>10, <1>11, <1>12, <1>14, <1>15, <1>16, <1>17 DEF CInv

\* The index job gets the snapshot the commit is of.
LEMMA SubmitCovers ==
    ASSUME SInv, TypeOK', CInv, NEW n \in Nodes, SubmitIndex(n), index' # index
    PROVE  CInv'
<1> DEFINE j == wk[n].job
           i == wk[n].ix + 1
           new == [status |-> "pending", node |-> n, kb |-> TRUE, content |-> wk[n].stage]
<1>1. /\ j \in Jobs /\ wk[n] \in Worker /\ wk[n].pc = "submit" /\ TypeOK
      /\ wk[n].kb /\ i <= MaxIndexJobs /\ index[j][i] = NoIndex
      /\ index' = [index EXCEPT ![j][i] = new] /\ Goto(n, "record")
  BY DEF SInv, TypeOK, SubmitIndex, At, WorkerOK, KbLive
<1>2. i \in 1 .. MaxIndexJobs
  BY <1>1, WorkerFields, BoundsAssumption
<1>3. UNCHANGED << job, hand, ckpt, head, req, avail >>
  BY DEF SubmitIndex
<1>4. avail \in Nat /\ avail <= avail' /\ ckpt \in Nat /\ wk[n].cur \in Nat
  BY <1>1, <1>3, WorkerFields
<1>5. SnapOK(n) /\ wk[n].pc \in After
  BY <1>1 DEF CInv, After
<1>6. 1 .. wk[n].cur \subseteq wk[n].stage /\ wk[n].cur = job[j].cursor /\ ckpt <= wk[n].cur
  BY <1>1, <1>5 DEF SnapOK
<1>7. new.status = "pending" /\ new.kb = TRUE /\ new.content = wk[n].stage
  OBVIOUS
<1> HIDE DEF new, i
<1>8. /\ index'[j][i] = new
      /\ \A k \in Jobs, h \in 1 .. MaxIndexJobs :
            k # j \/ h # i => index'[k][h] = index[k][h]
  <2>1. index \in [Jobs -> [1 .. MaxIndexJobs -> IndexRow]]
    BY <1>1 DEF TypeOK
  <2>2. QED
    BY <1>1, <1>2, <2>1
<1>9. \A m \in Nodes : CalmWorker(m)
  BY <1>1, <1>5, GotoCalm DEF After
<1>10. /\ wk'[n].pc = "record" /\ wk'[n].job = j /\ wk'[n].cur = wk[n].cur
       /\ wk'[n].stage = wk[n].stage /\ wk'[n].kb = wk[n].kb
       /\ \A m \in Nodes \ {n} : wk'[m] = wk[m]
  BY <1>1 DEF Goto, Worker, TypeOK
<1>11. Delegated'
  <2>1. ASSUME NEW k \in Jobs, Active(k)', Entered(k)'
        PROVE  /\ \A m \in Nodes : wk'[m].kb => wk'[m].job = k
               /\ \A l \in Jobs, h \in 1 .. MaxIndexJobs : index'[l][h].kb => l = k
    <3>1. Active(k) /\ Entered(k)
      BY <1>3, <1>10, <2>1 DEF Active, Entered
    <3>2. \A m \in Nodes : wk'[m].kb => wk'[m].job = k
      BY <1>10, <3>1 DEF CInv, Delegated
    <3>3. j = k
      BY <1>1, <3>1 DEF CInv, Delegated
    <3>4. QED
      BY <1>8, <3>1, <3>2, <3>3 DEF CInv, Delegated
  <2>2. QED
    BY <2>1 DEF Delegated
<1>12. SnapOK(n)'
  BY <1>3, <1>5, <1>6, <1>10 DEF SnapOK, Before, After
<1>13. ASSUME NEW m \in Nodes, m # n PROVE SnapOK(m)'
  <2>1. Keeps(m)
    BY <1>10, <1>13 DEF Keeps
  <2>2. \A k \in Jobs : job[k].attempt <= job'[k].attempt
    BY <1>1, <1>3, RowFields
  <2>3. wk[m].pc = "complete" => wk[m].job \in Jobs /\ wk[m].ix \in 1 .. MaxIndexJobs
    BY PolledIndex
  <2>4. wk[m].pc = "complete" /\ index[wk[m].job][wk[m].ix].status = "succeeded" =>
            index'[wk[m].job][wk[m].ix].status = "succeeded"
    BY <1>1, <1>8, <2>3 DEF NoIndex
  <2>5. QED
    BY <1>3, <1>4, <2>1, <2>2, <2>4, OthersSnap
<1>14. \A m \in Nodes : wk'[m].pc \in Before => wk'[m] = wk[m]
  BY <1>10 DEF Before
<1>15. AttemptsOK' /\ RowOK'
  BY <1>3, <1>14 DEF CInv, AttemptsOK, RowOK
<1>16. IndexOK'
  <2>1. 1 .. job[j].cursor \subseteq new.content /\ 1 .. ckpt \subseteq new.content
    BY <1>4, <1>6, <1>7
  <2>2. QED
    BY <1>3, <1>7, <1>8, <2>1 DEF CInv, IndexOK
<1>17. CursorOK' /\ CheckpointCovers'
  BY <1>3 DEF CInv, CursorOK, CheckpointCovers
<1>18. QED
  BY <1>11, <1>12, <1>13, <1>15, <1>16, <1>17 DEF CInv

\* What is published under a lease that still counts covers the checkpoint, and
\* is of the job that is past the boundary.
LEMMA PublishCovers ==
    ASSUME SInv, TypeOK', CInv, NEW j \in Jobs, NEW i \in 1 .. MaxIndexJobs,
           PublishIndex(j, i), index[j][i].kb, kb = "held"
    PROVE  CInv'
<1>1. TypeOK
  BY DEF SInv
<1>2. UNCHANGED << job, hand, wk, ckpt, req, avail >>
      /\ index[j][i].status = "running" /\ head' = index[j][i].content
      /\ IndexStep(j, i, "built")
  BY DEF PublishIndex
<1>3. /\ index'[j][i].status = "built" /\ index'[j][i].kb = index[j][i].kb
      /\ \A k \in Jobs, h \in 1 .. MaxIndexJobs :
            k # j \/ h # i => index'[k][h] = index[k][h]
  <2>1. "built" \notin {"succeeded", "failed"}
    OBVIOUS
  <2>2. QED
    BY <1>1, <1>2, <2>1, IndexStepFields
<1>4. CheckpointCovers'
  BY <1>2 DEF CInv, IndexOK, CheckpointCovers
<1>5. Delegated'
  BY <1>2, <1>3 DEF CInv, Delegated, Active, Entered
<1>6. ASSUME NEW m \in Nodes PROVE SnapOK(m)'
  <2>1. SnapOK(m)
    BY DEF CInv
  <2>2. wk[m].pc = "complete" => wk[m].job \in Jobs /\ wk[m].ix \in 1 .. MaxIndexJobs
    BY PolledIndex
  <2>3. wk[m].pc = "complete" =>
            index'[wk[m].job][wk[m].ix].status = index[wk[m].job][wk[m].ix].status
    BY <1>2, <1>3, <2>1, <2>2 DEF SnapOK
  <2>4. QED
    BY <1>2, <2>1, <2>3 DEF SnapOK
<1>7. IndexOK'
  <2>1. ASSUME NEW k \in Jobs, job[k].status = "committing"
        PROVE  1 .. job[k].cursor \subseteq index[j][i].content
    <3>1. Active(k) /\ Entered(k)
      BY <2>1 DEF Active, ActiveStatus, Entered, CInv, CursorOK, Crossed
    <3>2. j = k
      BY <3>1 DEF CInv, Delegated
    <3>3. QED
      BY <1>2, <3>2 DEF CInv, IndexOK
  <2>2. QED
    BY <1>2, <1>3, <2>1 DEF CInv, IndexOK
<1>8. CursorOK' /\ AttemptsOK' /\ RowOK'
  BY <1>2 DEF CInv, CursorOK, AttemptsOK, RowOK
<1>9. QED
  BY <1>4, <1>5, <1>6, <1>7, <1>8 DEF CInv

\* Success moves the checkpoint to a cursor whose snapshot is published.
LEMMA CompleteCovers ==
    ASSUME SInv, TypeOK', CInv, NEW n \in Nodes, Complete(n),
           wk[n].tok, job[wk[n].job].status = "committing"
    PROVE  CInv'
<1> DEFINE j == wk[n].job
<1>1. /\ j \in Jobs /\ job[j] \in JobRow /\ wk[n] \in Worker /\ wk[n].pc = "complete"
      /\ TypeOK /\ ckpt' = wk[n].cur
  BY DEF SInv, TypeOK, Complete, At, WorkerOK
<1>2. UNCHANGED << hand, index, head, req, avail >>
  BY DEF Complete
<1>3. /\ wk[n].cur \in Nat /\ ckpt \in Nat /\ avail \in Nat
      /\ wk[n].cur = job[j].cursor /\ wk[n].cur <= avail /\ ckpt <= wk[n].cur
      /\ index[j][wk[n].ix].status = "succeeded"
  <2>1. SnapOK(n)
    BY DEF CInv
  <2>2. /\ wk[n].cur = job[j].cursor /\ wk[n].cur <= avail
        /\ index[j][wk[n].ix].status = "succeeded"
    BY <1>1, <2>1 DEF SnapOK, After
  <2>3. ckpt <= job[j].cursor
    BY <1>1 DEF CInv, CursorOK
  <2>4. wk[n].cur \in Nat /\ ckpt \in Nat /\ avail \in Nat
    BY <1>1, WorkerFields
  <2>5. QED
    BY <2>2, <2>3, <2>4
<1>4. /\ ckpt' \in Nat /\ ckpt' = job[j].cursor
       /\ ckpt <= ckpt' /\ ckpt' <= ckpt'
  BY <1>1, <1>3
<1>5. /\ wk'[n].pc = "finalize" /\ wk'[n].job = j /\ wk'[n].cur = wk[n].cur
      /\ \A m \in Nodes \ {n} : wk'[m] = wk[m]
  <2> DEFINE w == [wk[n] EXCEPT !.pc = "finalize", !.tok = FALSE]
  <2>1. wk' = [wk EXCEPT ![n] = w]
    BY DEF Complete
  <2>2. w.pc = "finalize" /\ w.job = j /\ w.cur = wk[n].cur
    BY <1>1 DEF Worker
  <2> HIDE DEF w
  <2>3. QED
    BY <1>1, <2>1, <2>2 DEF TypeOK
<1>6. /\ job'[j].status = "succeeded" /\ job'[j].cursor = job[j].cursor
      /\ job'[j].start = job[j].start /\ job'[j].attempt = job[j].attempt
      /\ \A k \in Jobs \ {j} : job'[k] = job[k]
  <2> DEFINE r == [job[j] EXCEPT !.status = "succeeded", !.live = FALSE,
                                 !.cursor = wk[n].cur, !.cleanup = TRUE]
  <2>1. job' = [job EXCEPT ![j] = r]
    BY DEF Complete
  <2>2. /\ r.status = "succeeded" /\ r.cursor = wk[n].cur /\ r.start = job[j].start
        /\ r.attempt = job[j].attempt
    BY <1>1 DEF JobRow
  <2> HIDE DEF r
  <2>3. QED
    BY <1>1, <1>3, <2>1, <2>2 DEF TypeOK
<1>7. \A k \in Jobs : job'[k].start = job[k].start /\ job'[k].cursor = job[k].cursor
                      /\ job'[k].attempt = job[k].attempt
  BY <1>6
<1>8. Active(j) /\ Entered(j)
  BY <1>1 DEF Active, ActiveStatus, Entered
<1>9. \A k \in Jobs : job'[k].status \notin ActiveStatus
  BY <1>1, <1>6, <1>8 DEF SInv, OneActive, Active, ActiveStatus
<1>10. Delegated'
  BY <1>9 DEF Delegated, Active
<1>11. CheckpointCovers'
  <2>1. wk[n].ix \in 1 .. MaxIndexJobs
    BY <1>1, PolledIndex
  <2>2. 1 .. job[j].cursor \subseteq head
    BY <1>1, <1>3, <2>1 DEF CInv, IndexOK
  <2>3. QED
    BY <1>1, <1>2, <1>3, <2>2 DEF CheckpointCovers
<1>12. CursorOK'
  <2>1. \A k \in Jobs : job[k].start \in Nat
    BY <1>1, RowFields
  <2>2. \A k \in Jobs : job'[k].start <= ckpt' /\ job'[k].cursor <= avail'
    <3>1. \A k \in Jobs : job[k].start <= ckpt /\ job[k].cursor <= avail
      BY DEF CInv, CursorOK
    <3>2. \A k \in Jobs : job[k].start <= wk[n].cur
      BY <1>3, <2>1, <3>1
    <3>3. QED
      BY <1>1, <1>2, <1>7, <3>1, <3>2
  <2>3. req' # None => req'.cursor <= ckpt'
    <3>1. req # None => req.cursor \in Nat
      BY <1>1, BoundsAssumption DEF TypeOK, Cursors
    <3>2. req # None => req.cursor <= ckpt
      BY DEF CInv, CursorOK
    <3>3. req' = req /\ ckpt \in Nat
      BY <1>2, <1>3
    <3>4. QED
      BY <1>4, <3>1, <3>2, <3>3
  <2>4. \A k \in Jobs : /\ job'[k].status = "unborn" => job'[k].attempt = 0
                        /\ job'[k].status \in {"running"} \union Crossed => job'[k].attempt > 0
    <3>1. job[j].attempt > 0
      BY <1>1 DEF CInv, CursorOK, Crossed
    <3>2. \A k \in Jobs : k # j => job'[k] = job[k]
      BY <1>6
    <3>3. \A k \in Jobs : /\ job[k].status = "unborn" => job[k].attempt = 0
                          /\ job[k].status \in {"running"} \union Crossed => job[k].attempt > 0
      BY DEF CInv, CursorOK
    <3>4. QED
      BY <1>6, <3>1, <3>2, <3>3
  <2>5. QED
    BY <1>1, <1>2, <1>3, <1>9, <2>2, <2>3, <2>4 DEF CursorOK, ActiveStatus
<1>13. ASSUME NEW m \in Nodes PROVE SnapOK(m)'
  <2>1. CASE m = n
    BY <1>2, <1>3, <1>5, <2>1 DEF SnapOK, Before, After
  <2>2. CASE m # n
    <3>1. wk'[m] = wk[m] /\ SnapOK(m) /\ (wk[m].pc # "idle" => wk[m].job \in Jobs)
      BY <1>5, <2>2 DEF CInv, SInv, WorkerOK
    <3>2. wk[m].pc # "idle" => job'[wk[m].job].status # "running"
      BY <1>9, <3>1 DEF ActiveStatus
    <3>3. wk[m].kb => wk[m].job = j
      BY <1>1, <1>8 DEF CInv, Delegated
    <3>4. wk[m].pc \in After /\ wk[m].kb => ckpt' <= wk[m].cur
      <4>1. wk[m].pc \in After /\ wk[m].kb => wk[m].cur = job[wk[m].job].cursor
        BY <3>1 DEF SnapOK
      <4>2. QED
        BY <1>4, <3>3, <4>1
    <3>5. wk[m].pc \in {"entered"} \union Before \union After => wk[m].pc # "idle"
      BY DEF Before, After
    <3>6. QED
      BY <1>2, <1>7, <3>1, <3>2, <3>4, <3>5 DEF SnapOK
  <2>3. QED
    BY <2>1, <2>2
<1>14. \A m \in Nodes : wk'[m].pc \in Before => m # n /\ wk'[m] = wk[m]
  BY <1>5 DEF Before
<1>15. AttemptsOK' /\ RowOK'
  <2>1. AttemptsOK'
    BY <1>14 DEF CInv, AttemptsOK
  <2>2. \A k \in Jobs : job'[k].status # "committing"
    BY <1>9 DEF ActiveStatus
  <2>3. RowOK'
    BY <1>2, <1>7, <1>14, <2>2 DEF CInv, RowOK
  <2>4. QED
    BY <2>1, <2>3
<1>16. IndexOK'
  <2>1. ASSUME NEW k \in Jobs, NEW i \in 1 .. MaxIndexJobs,
               index[k][i].status \in {"pending", "running"}, index[k][i].kb
        PROVE  1 .. ckpt' \subseteq index[k][i].content
    <3>1. k = j
      BY <1>1, <1>8, <2>1 DEF CInv, Delegated
    <3>2. QED
      BY <1>1, <1>3, <2>1, <3>1 DEF CInv, IndexOK
  <2>2. \A k \in Jobs : job'[k].status # "committing"
    BY <1>9 DEF ActiveStatus
  <2>3. QED
    BY <1>2, <1>7, <2>1, <2>2 DEF CInv, IndexOK
<1>17. QED
  BY <1>10, <1>11, <1>12, <1>13, <1>15, <1>16 DEF CInv

\* Every step keeps CInv from a state in which every hand-off is kept to another.
LEMMA CoversStep ==
    ASSUME SInv, TypeOK', CInv, HandoffKept, HandoffKept', Step PROVE CInv'
<1>1. CASE Control
  BY <1>1, BornCovers, ControlCalm, CalmStep
<1>2. CASE \E n \in Nodes, j \in Jobs : Enter(n, j)
  BY <1>2, EnterCovers
<1>3. CASE \E n \in Nodes : Acquire(n)
  BY <1>3, AttemptCovers, RecoveryCovers
<1>4. CASE \E n \in Nodes : Prepare(n) \/ Err(n) \/ TurnAway(n)
  BY <1>4, PrepareCalm, CalmStep, PageCovers, InsertCovers, CrossCovers DEF Prepare
<1>5. CASE \E n \in Nodes : Commit(n) \/ Fail(n) \/ Abort(n) \/ Settle(n) \/ Stall(n)
  <2>1. PICK n \in Nodes : Commit(n) \/ Fail(n) \/ Abort(n) \/ Settle(n) \/ Stall(n)
    BY <1>5
  <2>2. CASE SubmitIndex(n)
    BY <2>2, SubmitCovers, CommitCalm, CalmStep
  <2>3. CASE Complete(n)
    <3>1. \/ wk[n].tok /\ job[wk[n].job].status = "committing"
          \/ Raise(n, "preserve")
      BY <2>3 DEF Complete
    <3>2. QED
      BY <2>3, <3>1, CompleteCovers, CommitCalm, CalmStep
  <2>4. CASE ~SubmitIndex(n) /\ ~Complete(n)
    <3>1. Calm
      BY <2>1, <2>4, CommitCalm DEF Commit
    <3>2. QED
      BY <3>1, CalmStep
  <2>5. QED
    BY <2>2, <2>3, <2>4
<1>6. CASE \E n \in Nodes : Crash(n)
  BY <1>6, CrashCalm, CalmStep
<1>7. CASE \E j \in Jobs, i \in 1 .. MaxIndexJobs : Executor(j, i)
  <2>1. PICK j \in Jobs, i \in 1 .. MaxIndexJobs : Executor(j, i)
    BY <1>7
  <2>2. CASE PublishIndex(j, i) /\ index[j][i].kb /\ kb = "held"
    BY <2>2, PublishCovers
  <2>3. CASE ~(PublishIndex(j, i) /\ index[j][i].kb /\ kb = "held")
    <3>1. head' = head
      BY <2>1, <2>3 DEF Executor, ClaimIndex, PublishIndex, ReportIndex, ReconcileIndex
    <3>2. QED
      BY <2>1, <2>3, <3>1, ExecutorCalm, CalmStep
  <2>4. QED
    BY <2>2, <2>3
<1>8. QED
  BY <1>1, <1>2, <1>3, <1>4, <1>5, <1>6, <1>7 DEF Step, Control, Work

CovInv == SInv /\ (kept => HandoffKept /\ CInv)

LEMMA InitCovers == Init => CovInv
<1> SUFFICES ASSUME Init PROVE CovInv
  OBVIOUS
<1>1. SInv
  BY InitSafe
<1>2. /\ \A j \in Jobs : /\ job[j].status = "unborn" /\ job[j].attempt = 0
                         /\ job[j].start = 0 /\ job[j].cursor = 0 /\ hand[j].row = None
      /\ \A n \in Nodes : /\ wk[n].pc = "idle" /\ wk[n].kb = FALSE /\ wk[n].job = 0
                          /\ wk[n].cur = 0
      /\ \A j \in Jobs, i \in 1 .. MaxIndexJobs :
            index[j][i].status = "none" /\ index[j][i].kb = FALSE
      /\ ckpt = 0 /\ avail = 0 /\ req = None
  BY DEF Init, Unborn, Idle, NoIndex, NoHand
<1>3. HandoffKept
  BY <1>2 DEF HandoffKept
<1>4. CheckpointCovers
  BY <1>2 DEF CheckpointCovers
<1>5. Delegated
  BY <1>2 DEF Delegated
<1>6. CursorOK
  BY <1>2 DEF CursorOK, Crossed
<1>7. \A n \in Nodes : SnapOK(n)
  BY <1>2 DEF SnapOK, Before, After
<1>8. AttemptsOK /\ RowOK /\ IndexOK
  BY <1>2 DEF AttemptsOK, RowOK, IndexOK, Before
<1>9. QED
  BY <1>1, <1>3, <1>4, <1>5, <1>6, <1>7, <1>8 DEF CovInv, CInv

LEMMA CoversNext == CovInv /\ [Next]_<<vars, kept>> => CovInv'
<1>1. ASSUME CovInv, Next PROVE CovInv'
  <2>1. SInv /\ SInv' /\ TypeOK'
    BY <1>1, SafeNext, StepType DEF CovInv
  <2>2. ASSUME kept' PROVE HandoffKept' /\ CInv'
    <3>1. kept /\ HandoffKept' /\ Step
      BY <1>1, <2>1, <2>2 DEF Next, SInv, TypeOK
    <3>2. QED
      BY <1>1, <2>1, <3>1, CoversStep DEF CovInv
  <2>3. QED
    BY <2>1, <2>2 DEF CovInv
<1>2. ASSUME CovInv, UNCHANGED << vars, kept >> PROVE CovInv'
  <2>1. UNCHANGED << job, hand, index, conn, ckpt, head, published, kb, wk, req, avail,
                     faults, kept >>
    BY <1>2 DEF vars
  <2>2. SInv'
    BY <1>2, SafeNext DEF CovInv
  <2>3. HandoffKept => HandoffKept'
    BY <2>1 DEF HandoffKept, Intact
  <2>4. ASSUME CInv PROVE CInv'
    <3>1. CheckpointCovers' /\ Delegated' /\ CursorOK'
      BY <2>1, <2>4 DEF CInv, CheckpointCovers, Delegated, CursorOK, Active, Entered
    <3>2. (\A n \in Nodes : SnapOK(n)') /\ AttemptsOK' /\ RowOK' /\ IndexOK'
      BY <2>1, <2>4 DEF CInv, SnapOK, AttemptsOK, RowOK, IndexOK
    <3>3. QED
      BY <3>1, <3>2 DEF CInv
  <2>5. QED
    BY <1>2, <2>1, <2>2, <2>3, <2>4 DEF CovInv
<1>3. QED
  BY <1>1, <1>2

\* As long as every job past the boundary had its own hand-off, the cursor a
\* connection resumes from never runs ahead of what was published: whatever
\* attempts were cut short, restarted or recovered elsewhere, every change
\* before the checkpoint is in the current source generation (acquire,
\* prepare_commit, recover_commit, complete).
THEOREM CoversSafe == Spec => []CoveredWhileKept
<1>1. CovInv => CoveredWhileKept
  BY DEF CovInv, CInv, CoveredWhileKept
<1>2. QED
  BY <1>1, InitCovers, CoversNext, PTL DEF Spec
=============================================================================
