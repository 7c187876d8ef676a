--------------------------- MODULE JobQueueProofs ---------------------------
(***************************************************************************)
(* Proofs about JobQueue, for any numbers of jobs, workers and keys and any *)
(* bounds.  The inductive invariant IInv strengthens the safety properties  *)
(* with what they rest on:                                                  *)
(*   RowInv     the columns of one row agree with its status;               *)
(*   BornInv    the history born agrees with the rows in the table;         *)
(*   KeyInv     the key table remembers the only job of a key;              *)
(*   ReplayInv  a dead letter outlives no copy made of it;                  *)
(*   HeldInv    the tokens held by workers are tokens of distinct claims.   *)
(***************************************************************************)
EXTENDS JobQueue, TLAPS

\* The columns of a row agree, when n rows have finished so far.
RowOK(row, n) ==
    /\ row.status = "running" => row.token = row.attempt
    /\ row.cancel => row.status \in {"running", "cancelled"}
    /\ row.status = "dead_letter" => row.attempt = MaxAttempts
    /\ row.finished <= n
    /\ row.keep <= Retention
    /\ row.status \in InTable => row.payload \in Payloads

RowInv == \A j \in Jobs : RowOK(jobs[j], finishes)

BornInv ==
    /\ \A k \in AllKeys : \A j \in born[k] :
          jobs[j].status = "pruned" \/ (Stored(j) /\ jobs[j].key = k)
    /\ \A j \in Jobs : Stored(j) /\ jobs[j].key # NoKey => j \in born[jobs[j].key]

KeyInv ==
    \A k \in Keys :
        /\ keyRows[k] = None => born[k] = {}
        /\ keyRows[k] # None => born[k] = {keyRows[k].job}
        /\ \A j \in born[k] :
              jobs[j].status = "pruned" => keyRows[k].terminal \in Terminal

ReplayInv ==
    \A s \in Jobs, rk \in ReplayKeys : \A j \in born[<<s, rk>>] :
        /\ \A i \in born[<<s, rk>>] : i = j
        /\ jobs[s].status \in {"dead_letter", "pruned"}
        /\ jobs[s].status = "dead_letter" => Stored(j)
        /\ jobs[s].status = "dead_letter" /\ jobs[j].status \in Terminal =>
              jobs[s].finished < jobs[j].finished /\ jobs[s].keep <= jobs[j].keep

HeldInv ==
    \A w \in Workers : held[w] # None =>
        /\ jobs[held[w].job].status # "unborn"
        /\ jobs[held[w].job].status # "pruned" =>
              held[w].token <= jobs[held[w].job].attempt
        /\ \A v \in Workers :
              held[v] # None /\ held[v].job = held[w].job
                 /\ held[v].token = held[w].token => v = w

IInv == TypeOK /\ RowInv /\ BornInv /\ KeyInv /\ ReplayInv /\ HeldInv

-----------------------------------------------------------------------------
(***************************************************************************)
(* What every step but an insertion or a pruning does to a row: it keeps    *)
(* its identity and a terminal row its outcome, and a row that becomes       *)
(* terminal is the last to finish.                                           *)
(***************************************************************************)
MoveOK(row, new) ==
    /\ new.key = row.key
    /\ row.status \in {"unborn", "pruned"} => new.status = row.status
    /\ row.status \in InTable => new.status \in InTable
    /\ row.status \in Terminal =>
          new.status = row.status /\ new.finished = row.finished
    /\ row.status \notin Terminal /\ new.status \in Terminal =>
          new.finished = finishes + 1 /\ new.keep = Retention
    /\ new.attempt >= row.attempt

Moves ==
    /\ \A j \in Jobs : MoveOK(jobs[j], jobs'[j])
    /\ \A i, j \in Jobs :
          /\ jobs[i].status \in Terminal /\ jobs[j].status \in Terminal
          /\ jobs[i].keep <= jobs[j].keep
          => jobs'[i].keep <= jobs'[j].keep

\* Such a step leaves the agreement of the tables and of the history intact,
\* and the order that ReplayOnce rests on.
LEMMA MovesPreserve ==
    ASSUME IInv, Moves, TypeOK', RowInv', UNCHANGED <<keyRows, born>>
    PROVE  BornInv' /\ KeyInv' /\ ReplayInv'
<1> USE DEF IInv, TypeOK
<1>1. \A k \in AllKeys : born[k] \subseteq Jobs
  OBVIOUS
<1>2. BornInv'
  BY <1>1 DEF BornInv, Moves, MoveOK, Stored, InTable, Terminal, Waiting, Row
<1>3. KeyInv'
  <2>1. \A k \in Keys : k \in AllKeys
    BY DEF AllKeys
  <2>2. \A j \in Jobs : jobs'[j].status = "pruned" => jobs[j].status = "pruned"
    BY DEF Moves, MoveOK, Stored, InTable, Terminal, Waiting, Row
  <2> QED
    BY <1>1, <2>1, <2>2 DEF KeyInv
<1>4. ReplayInv'
  <2> SUFFICES ASSUME NEW s \in Jobs, NEW rk \in ReplayKeys, NEW j \in born[<<s, rk>>]
               PROVE  /\ \A i \in born[<<s, rk>>] : i = j
                      /\ jobs'[s].status \in {"dead_letter", "pruned"}
                      /\ jobs'[s].status = "dead_letter" => Stored(j)'
                      /\ jobs'[s].status = "dead_letter" /\ jobs'[j].status \in Terminal =>
                            /\ jobs'[s].finished < jobs'[j].finished
                            /\ jobs'[s].keep <= jobs'[j].keep
    BY DEF ReplayInv
  <2>1. j \in Jobs
    BY <1>1 DEF AllKeys, ReplayIds
  <2>2. /\ \A i \in born[<<s, rk>>] : i = j
        /\ jobs[s].status \in {"dead_letter", "pruned"}
        /\ jobs[s].status = "dead_letter" => Stored(j)
        /\ jobs[s].status = "dead_letter" /\ jobs[j].status \in Terminal =>
              jobs[s].finished < jobs[j].finished /\ jobs[s].keep <= jobs[j].keep
    BY DEF ReplayInv
  <2>3. jobs'[s].status = jobs[s].status
    BY <2>2 DEF Moves, MoveOK, Terminal
  <2>4. jobs'[s].status = "dead_letter" => Stored(j)'
    BY <2>1, <2>2, <2>3 DEF Moves, MoveOK, Stored
  <2>5. ASSUME jobs[s].status = "dead_letter", jobs'[j].status \in Terminal
        PROVE  /\ jobs'[s].finished < jobs'[j].finished
               /\ jobs'[s].keep <= jobs'[j].keep
    <3>1. jobs'[s].finished = jobs[s].finished /\ jobs[s].finished <= finishes
      BY <2>5 DEF Moves, MoveOK, RowInv, RowOK, Terminal
    <3>2. jobs'[s].keep <= Retention
      BY DEF RowInv, RowOK
    <3>3. CASE jobs[j].status \in Terminal
      BY <2>1, <2>2, <2>5, <3>1, <3>3 DEF Moves, MoveOK, Terminal
    <3>4. CASE jobs[j].status \notin Terminal
      <4>1. jobs'[j].finished = finishes + 1 /\ jobs'[j].keep = Retention
        BY <2>1, <2>5, <3>4 DEF Moves, MoveOK
      <4>2. jobs[s].finished \in Nat /\ finishes \in Nat
        BY DEF Row
      <4> QED
        BY <3>1, <3>2, <4>1, <4>2
    <3> QED
      BY <3>3, <3>4
  <2> QED
    BY <2>2, <2>3, <2>4, <2>5
<1> QED
  BY <1>2, <1>3, <1>4

\* Workers keep their claims, lose some or note a lost lease; no row loses an
\* attempt and none comes back: the tokens stay those of distinct claims.
LEMMA HeldPreserve ==
    ASSUME IInv, TypeOK',
           \A j \in Jobs : /\ jobs[j].status # "unborn" => jobs'[j].status # "unborn"
                           /\ jobs[j].status = "pruned" => jobs'[j].status = "pruned"
                           /\ \/ jobs'[j].status = "pruned"
                              \/ jobs'[j].attempt >= jobs[j].attempt,
           \A w \in Workers : held'[w] # None =>
               /\ held[w] # None
               /\ held'[w].job = held[w].job
               /\ held'[w].token = held[w].token
    PROVE  HeldInv'
<1> SUFFICES ASSUME NEW w \in Workers, held'[w] # None
             PROVE  /\ jobs'[held'[w].job].status # "unborn"
                    /\ jobs'[held'[w].job].status # "pruned" =>
                          held'[w].token <= jobs'[held'[w].job].attempt
                    /\ \A v \in Workers :
                          held'[v] # None /\ held'[v].job = held'[w].job
                             /\ held'[v].token = held'[w].token => v = w
  BY DEF HeldInv
<1>1. held[w] # None /\ held'[w].job = held[w].job /\ held'[w].token = held[w].token
  OBVIOUS
<1>2. held[w].job \in Jobs /\ held[w].token \in Nat
  BY <1>1, BoundsAssumption DEF IInv, TypeOK, Holding
<1>3. jobs[held[w].job].attempt \in Nat /\ jobs'[held[w].job].attempt \in Nat
  BY <1>2, BoundsAssumption DEF IInv, TypeOK, Row
<1> QED
  BY <1>1, <1>2, <1>3 DEF IInv, HeldInv

-----------------------------------------------------------------------------
(* The rows that the operations write are rows. *)

LEMMA ClockValues ==
    /\ 0 \in Clocks
    /\ Retention \in Clocks
    /\ \A b \in -Lag..MaxBackoff : b \in Clocks
    /\ \A d \in Delays : Lease - d \in Clocks /\ -d \in Clocks
    /\ \A t \in Clocks : Nearer(t) \in Clocks /\ t \in Int
  BY BoundsAssumption DEF Clocks, Delays, Nearer

LEMMA RowTypes ==
    \A row \in Row : /\ row.status \in InTable \union {"unborn", "pruned"}
                     /\ row.finished \in Nat /\ row.attempt \in Nat
                     /\ row.attempt <= MaxAttempts
                     /\ row.lease \in Int /\ row.wait \in Int /\ row.keep \in Int
                     /\ row.cancel \in BOOLEAN
  <1> SUFFICES ASSUME NEW row \in Row
               PROVE  /\ row.status \in InTable \union {"unborn", "pruned"}
                      /\ row.finished \in Nat /\ row.attempt \in Nat
                      /\ row.attempt <= MaxAttempts
                      /\ row.lease \in Int /\ row.wait \in Int /\ row.keep \in Int
                      /\ row.cancel \in BOOLEAN
    OBVIOUS
  <1>1. /\ row.status \in InTable \union {"unborn", "pruned"}
        /\ row.finished \in Nat /\ row.attempt \in 0..MaxAttempts
        /\ row.lease \in Clocks /\ row.wait \in Clocks /\ row.keep \in Clocks
        /\ row.cancel \in BOOLEAN
    BY Zenon DEF Row
  <1>2. row.attempt \in Nat /\ row.attempt <= MaxAttempts
    BY <1>1, BoundsAssumption
  <1> QED
    BY <1>1, <1>2, ClockValues

LEMMA AbsentIsRow == \A st \in InTable \union {"unborn", "pruned"} : Absent(st) \in Row
  BY BoundsAssumption, ClockValues DEF Absent, Row

LEMMA FinishedIsRow ==
    ASSUME finishes \in Nat, NEW row \in Row, NEW st \in InTable
    PROVE  Finished(row, st) \in Row
  <1>1. finishes + 1 \in Nat /\ st \in InTable \union {"unborn", "pruned"}
    OBVIOUS
  <1> QED
    BY <1>1, ClockValues, Zenon DEF Finished, Row

LEMMA ReleasedIsRow ==
    ASSUME finishes \in Nat, NEW row \in Row, NEW st \in InTable, NEW b \in Clocks
    PROVE  Released(row, st, b) \in Row
  <1>1. 0 \in 0..MaxAttempts /\ st \in InTable \union {"unborn", "pruned"}
    BY BoundsAssumption
  <1>2. [row EXCEPT !.token = 0, !.lease = 0, !.wait = b] \in Row
    BY <1>1, ClockValues, Zenon DEF Row
  <1>3. [[row EXCEPT !.token = 0, !.lease = 0, !.wait = b] EXCEPT !.status = st] \in Row
    BY <1>1, <1>2, Zenon DEF Row
  <1> QED
    BY <1>2, <1>3, FinishedIsRow DEF Released

\* The columns of a row after a terminal transition and after a release.
LEMMA FinishedColumns ==
    ASSUME NEW row \in Row, NEW st
    PROVE  LET new == Finished(row, st)
           IN  /\ new.status = st /\ new.finished = finishes + 1
               /\ new.keep = Retention
               /\ new.key = row.key /\ new.attempt = row.attempt
               /\ new.token = row.token /\ new.cancel = row.cancel
               /\ new.payload = row.payload
  BY DEF Finished, Row

LEMMA ReleasedColumns ==
    ASSUME NEW row \in Row, NEW st \in InTable, NEW b \in Clocks
    PROVE  LET new == Released(row, st, b)
           IN  /\ new.status = st /\ new.key = row.key
               /\ new.attempt = row.attempt /\ new.cancel = row.cancel
               /\ new.payload = row.payload
               /\ st \in Terminal => new.finished = finishes + 1 /\ new.keep = Retention
               /\ st \notin Terminal => new.finished = row.finished /\ new.keep = row.keep
  <1>1. 0 \in 0..MaxAttempts
    BY BoundsAssumption
  <1> DEFINE free == [row EXCEPT !.token = 0, !.lease = 0, !.wait = b]
  <1>2. free \in Row
    BY <1>1, ClockValues, Zenon DEF Row
  <1>3. /\ free.key = row.key /\ free.attempt = row.attempt /\ free.cancel = row.cancel
        /\ free.finished = row.finished /\ free.keep = row.keep
        /\ free.payload = row.payload
    BY DEF Row
  <1>4. CASE st \in Terminal
    <2>1. Released(row, st, b) = Finished(free, st)
      BY <1>4 DEF Released
    <2> HIDE DEF free
    <2> QED
      BY <1>2, <1>3, <1>4, <2>1, FinishedColumns
  <1>5. CASE st \notin Terminal
    BY <1>2, <1>3, <1>5 DEF Released, Row
  <1> QED
    BY <1>4, <1>5

LEMMA CancelColumns ==
    ASSUME NEW row \in Row
    PROVE  LET new == [row EXCEPT !.cancel = TRUE]
           IN  /\ new \in Row
               /\ new.status = row.status /\ new.key = row.key
               /\ new.attempt = row.attempt /\ new.token = row.token
               /\ new.finished = row.finished /\ new.keep = row.keep
               /\ new.cancel /\ new.payload = row.payload
  <1>1. [row EXCEPT !.cancel = TRUE] \in Row
    BY Zenon DEF Row
  <1>2. LET new == [row EXCEPT !.cancel = TRUE]
        IN  /\ new.status = row.status /\ new.key = row.key
            /\ new.attempt = row.attempt /\ new.token = row.token
            /\ new.finished = row.finished /\ new.keep = row.keep
            /\ new.cancel /\ new.payload = row.payload
    BY DEF Row
  <1> QED
    BY <1>1, <1>2

\* A step that rewrites one row preserves what is said about all of them.
LEMMA OneRow ==
    ASSUME IInv, NEW j \in Jobs, NEW new \in Row,
           jobs' = [jobs EXCEPT ![j] = new],
           finishes' \in Nat, finishes' >= finishes,
           RowOK(new, finishes'), MoveOK(jobs[j], new),
           jobs[j].status \in Terminal => new.keep = jobs[j].keep
    PROVE  jobs' \in [Jobs -> Row] /\ RowInv' /\ Moves
<1>1. jobs \in [Jobs -> Row] /\ finishes \in Nat
  BY DEF IInv, TypeOK
<1>2. jobs' \in [Jobs -> Row] /\ jobs'[j] = new
  BY <1>1
<1>3. \A i \in Jobs \ {j} : jobs'[i] = jobs[i]
  BY <1>1
<1>4. \A i \in Jobs : jobs[i].finished \in Nat /\ jobs[i].attempt \in Nat /\ jobs[i].keep \in Int
  BY <1>1, RowTypes
<1>5. RowInv'
  <2>1. \A i \in Jobs \ {j} : RowOK(jobs[i], finishes')
    BY <1>1, <1>4 DEF IInv, RowInv, RowOK
  <2> QED
    BY <1>2, <1>3, <2>1 DEF RowInv
<1>6. Moves
  <2>1. \A i \in Jobs \ {j} : MoveOK(jobs[i], jobs[i])
    BY <1>4 DEF MoveOK
  <2>2. \A i \in Jobs : MoveOK(jobs[i], jobs'[i])
    BY <1>2, <1>3, <2>1
  <2>3. \A i \in Jobs : jobs[i].status \in Terminal => jobs'[i].keep = jobs[i].keep
    BY <1>2, <1>3
  <2> QED
    BY <2>2, <2>3 DEF Moves
<1> QED
  BY <1>2, <1>5, <1>6

-----------------------------------------------------------------------------
(* One lemma per operation. *)

LEMMA InitInv == Init => IInv
<1> SUFFICES ASSUME Init PROVE IInv
  OBVIOUS
<1>1. Absent("unborn") \in Row
  BY AbsentIsRow
<1>2. TypeOK
  BY <1>1 DEF Init, TypeOK
<1>3. RowInv
  BY BoundsAssumption DEF Init, RowInv, RowOK, Absent, InTable, Waiting, Terminal
<1>4. BornInv
  BY DEF Init, BornInv, Stored, InTable, Waiting, Terminal, Absent
<1>5. KeyInv /\ ReplayInv /\ HeldInv
  BY DEF Init, KeyInv, ReplayInv, HeldInv, AllKeys, ReplayIds
<1> QED
  BY <1>2, <1>3, <1>4, <1>5 DEF IInv

\* A step that moves rows and takes no new claim.
LEMMA MoveStep ==
    ASSUME IInv, jobs' \in [Jobs -> Row], RowInv', Moves, finishes' \in Nat,
           held' \in [Workers -> Holding \union {None}],
           \A w \in Workers : held'[w] # None =>
               /\ held[w] # None
               /\ held'[w].job = held[w].job
               /\ held'[w].token = held[w].token,
           UNCHANGED <<keyRows, born>>
    PROVE  IInv'
<1>1. TypeOK'
  BY DEF IInv, TypeOK
<1>2. BornInv' /\ KeyInv' /\ ReplayInv'
  BY <1>1, MovesPreserve
<1>3. \A j \in Jobs : /\ jobs[j].status # "unborn" => jobs'[j].status # "unborn"
                      /\ jobs[j].status = "pruned" => jobs'[j].status = "pruned"
                      /\ jobs'[j].attempt >= jobs[j].attempt
  <2>1. \A j \in Jobs : jobs[j].status \in InTable \union {"unborn", "pruned"}
    BY RowTypes DEF IInv, TypeOK
  <2> QED
    BY <2>1 DEF Moves, MoveOK, InTable, Waiting, Terminal
<1>4. HeldInv'
  BY <1>1, <1>3, HeldPreserve
<1> QED
  BY <1>1, <1>2, <1>4 DEF IInv

LEMMA RequestCancelStep ==
    ASSUME IInv, NEW j \in Jobs, RequestCancel(j)
    PROVE  IInv'
<1> USE DEF RequestCancel
<1>1. jobs[j] \in Row /\ finishes \in Nat /\ RowOK(jobs[j], finishes)
  BY DEF IInv, TypeOK, RowInv
<1>2. jobs[j].finished \in Nat /\ jobs[j].attempt \in Nat
  BY <1>1, RowTypes
<1>3. CASE jobs[j].status \in Waiting
  <2> DEFINE fin == Finished(jobs[j], "cancelled")
             new == [fin EXCEPT !.cancel = TRUE]
  <2>1. jobs' = [jobs EXCEPT ![j] = new] /\ finishes' = finishes + 1
    BY <1>3 DEF Waiting
  <2>2. fin \in Row
    BY <1>1, FinishedIsRow DEF InTable, Terminal
  <2>3. /\ fin.status = "cancelled" /\ fin.finished = finishes + 1 /\ fin.keep = Retention
        /\ fin.key = jobs[j].key /\ fin.attempt = jobs[j].attempt
        /\ fin.payload = jobs[j].payload
    BY <1>1, FinishedColumns
  <2> HIDE DEF fin
  <2>4. /\ new \in Row
        /\ new.status = "cancelled" /\ new.finished = finishes + 1 /\ new.keep = Retention
        /\ new.key = jobs[j].key /\ new.attempt = jobs[j].attempt
        /\ new.payload = jobs[j].payload
    BY <2>2, <2>3, CancelColumns
  <2> HIDE DEF new
  <2>5. RowOK(new, finishes') /\ MoveOK(jobs[j], new)
    BY <1>1, <1>2, <1>3, <2>1, <2>4, BoundsAssumption
    DEF RowOK, MoveOK, InTable, Terminal, Waiting
  <2>6. jobs[j].status \notin Terminal
    BY <1>3 DEF Waiting, Terminal
  <2>7. jobs' \in [Jobs -> Row] /\ RowInv' /\ Moves
    <3>1. finishes' \in Nat /\ finishes' >= finishes
      BY <1>1, <2>1
    <3>2. new \in Row
      BY <2>4
    <3> QED
      BY <2>1, <2>5, <2>6, <3>1, <3>2, OneRow
  <2> QED
    BY <1>1, <2>1, <2>7, MoveStep DEF IInv, TypeOK
<1>4. CASE jobs[j].status = "running"
  <2> DEFINE new == [jobs[j] EXCEPT !.cancel = TRUE]
  <2>1. jobs' = [jobs EXCEPT ![j] = new] /\ finishes' = finishes
    BY <1>4 DEF Waiting
  <2>2. /\ new \in Row
        /\ new.status = "running" /\ new.finished = jobs[j].finished
        /\ new.keep = jobs[j].keep /\ new.token = jobs[j].token
        /\ new.key = jobs[j].key /\ new.attempt = jobs[j].attempt
        /\ new.payload = jobs[j].payload
    BY <1>1, <1>4, CancelColumns
  <2> HIDE DEF new
  <2>3. RowOK(new, finishes') /\ MoveOK(jobs[j], new)
    BY <1>1, <1>2, <1>4, <2>1, <2>2
    DEF RowOK, MoveOK, InTable, Terminal, Waiting
  <2>4. jobs' \in [Jobs -> Row] /\ RowInv' /\ Moves
    <3>1. finishes' \in Nat /\ finishes' >= finishes
      BY <1>1, <2>1
    <3>2. new \in Row /\ new.keep = jobs[j].keep
      BY <2>2
    <3> QED
      BY <2>1, <2>3, <3>1, <3>2, OneRow
  <2> QED
    BY <1>1, <2>1, <2>4, MoveStep DEF IInv, TypeOK
<1> QED
  BY <1>3, <1>4

LEMMA HeartbeatStep ==
    ASSUME IInv, NEW w \in Workers, NEW d \in Delays, Heartbeat(w, d)
    PROVE  IInv'
<1> DEFINE j   == held[w].job
           new == [jobs[j] EXCEPT !.lease = Lease - d]
<1>1. j \in Jobs
  BY DEF IInv, TypeOK, Heartbeat, Owns, Holding
<1>2. jobs[j] \in Row /\ finishes \in Nat /\ RowOK(jobs[j], finishes)
  BY <1>1 DEF IInv, TypeOK, RowInv
<1>3. jobs[j].finished \in Nat /\ jobs[j].attempt \in Nat
  BY <1>2, RowTypes
<1>4. jobs' = [jobs EXCEPT ![j] = new]
  BY DEF Heartbeat
<1>5. Lease - d \in Clocks
  BY ClockValues
<1>6. new \in Row
  BY <1>2, <1>5, Zenon DEF Row
<1>7. /\ new.status = jobs[j].status /\ new.finished = jobs[j].finished
      /\ new.keep = jobs[j].keep /\ new.token = jobs[j].token
      /\ new.key = jobs[j].key /\ new.attempt = jobs[j].attempt
      /\ new.cancel = jobs[j].cancel /\ new.payload = jobs[j].payload
  BY <1>2 DEF Row
<1>8. finishes' = finishes /\ UNCHANGED <<keyRows, held, born>>
  BY DEF Heartbeat
<1> HIDE DEF new, j
<1>9. RowOK(new, finishes') /\ MoveOK(jobs[j], new)
  BY <1>2, <1>3, <1>7, <1>8 DEF RowOK, MoveOK
<1>10. jobs' \in [Jobs -> Row] /\ RowInv' /\ Moves
  <2>1. finishes' \in Nat /\ finishes' >= finishes
    BY <1>2, <1>8
  <2> QED
    BY <1>1, <1>4, <1>6, <1>7, <1>9, <2>1, OneRow
<1> QED
  BY <1>2, <1>8, <1>10, MoveStep DEF IInv, TypeOK

LEMMA ReleaseStep ==
    ASSUME IInv, NEW j \in Jobs, jobs[j].status = "running",
           NEW st \in {"cancelled", "succeeded", "failed", "retry_wait", "dead_letter"},
           jobs[j].cancel => st = "cancelled",
           st = "dead_letter" => jobs[j].attempt = MaxAttempts,
           NEW b \in Clocks
    PROVE  LET new == Released(jobs[j], st, b)
               n   == IF st \in Terminal THEN finishes + 1 ELSE finishes
           IN  new \in Row /\ RowOK(new, n) /\ MoveOK(jobs[j], new)
<1> DEFINE new == Released(jobs[j], st, b)
           n   == IF st \in Terminal THEN finishes + 1 ELSE finishes
<1>1. jobs[j] \in Row /\ finishes \in Nat /\ RowOK(jobs[j], finishes)
  BY DEF IInv, TypeOK, RowInv
<1>2. jobs[j].finished \in Nat /\ jobs[j].attempt \in Nat /\ jobs[j].cancel \in BOOLEAN
  BY <1>1, RowTypes
<1>3. st \in InTable
  BY DEF InTable, Waiting, Terminal
<1>4. new \in Row
  BY <1>1, <1>3, ReleasedIsRow
<1>5. /\ new.status = st /\ new.key = jobs[j].key
      /\ new.attempt = jobs[j].attempt /\ new.cancel = jobs[j].cancel
      /\ new.payload = jobs[j].payload
      /\ st \in Terminal => new.finished = finishes + 1 /\ new.keep = Retention
      /\ st \notin Terminal => new.finished = jobs[j].finished /\ new.keep = jobs[j].keep
  BY <1>1, <1>3, ReleasedColumns
<1> HIDE DEF new
<1>6. CASE st \in Terminal
  <2>1. RowOK(new, n)
    BY <1>1, <1>2, <1>5, <1>6, BoundsAssumption DEF RowOK, InTable, Terminal, Waiting
  <2>2. MoveOK(jobs[j], new)
    BY <1>1, <1>2, <1>3, <1>5, <1>6 DEF MoveOK, Terminal
  <2> QED
    BY <1>4, <2>1, <2>2 DEF new
<1>7. CASE st \notin Terminal
  <2>1. RowOK(new, n)
    BY <1>1, <1>2, <1>5, <1>7 DEF RowOK, InTable, Terminal, Waiting
  <2>2. MoveOK(jobs[j], new)
    BY <1>1, <1>2, <1>3, <1>5, <1>7 DEF MoveOK, Terminal
  <2> QED
    BY <1>4, <2>1, <2>2 DEF new
<1> QED
  BY <1>6, <1>7

LEMMA FinishStep ==
    ASSUME IInv, NEW w \in Workers, NEW d \in Delays, NEW error \in BOOLEAN,
           NEW retryable \in BOOLEAN, NEW delay \in 0..MaxBackoff,
           Finish(w, d, error, retryable, delay)
    PROVE  IInv'
<1> DEFINE j   == held[w].job
           st  == FinishStatus(jobs[j], error, retryable)
           b   == IF st = "retry_wait" THEN delay - d ELSE 0
           new == Released(jobs[j], st, b)
<1>1. j \in Jobs /\ jobs[j].status = "running"
  BY DEF IInv, TypeOK, Finish, Owns, Holding
<1>2. jobs[j].cancel \in BOOLEAN /\ jobs[j].attempt \in Nat /\ jobs[j].attempt <= MaxAttempts
      /\ finishes \in Nat
  BY <1>1, RowTypes DEF IInv, TypeOK
<1>3. /\ st \in {"cancelled", "succeeded", "failed", "retry_wait", "dead_letter"}
      /\ jobs[j].cancel => st = "cancelled"
      /\ st = "dead_letter" => jobs[j].attempt = MaxAttempts
  BY <1>2, BoundsAssumption DEF FinishStatus
<1>4. b \in Clocks
  <2>1. delay - d \in -Lag..MaxBackoff
    BY BoundsAssumption DEF Delays
  <2> QED
    BY <2>1, ClockValues
<1>5. /\ jobs' = [jobs EXCEPT ![j] = new]
      /\ finishes' = IF st \in Terminal THEN finishes + 1 ELSE finishes
      /\ held' = [held EXCEPT ![w] = None]
      /\ UNCHANGED <<keyRows, born>>
  BY DEF Finish
<1> HIDE DEF j, st, b
<1>6. new \in Row /\ RowOK(new, finishes') /\ MoveOK(jobs[j], new)
  BY <1>1, <1>3, <1>4, <1>5, ReleaseStep
<1> HIDE DEF new
<1>7. finishes' \in Nat /\ finishes' >= finishes
  BY <1>2, <1>5
<1>8. jobs[j].status \notin Terminal
  BY <1>1 DEF Terminal
<1>9. jobs' \in [Jobs -> Row] /\ RowInv' /\ Moves
  BY <1>1, <1>5, <1>6, <1>7, <1>8, OneRow
<1>10. /\ held' \in [Workers -> Holding \union {None}]
       /\ \A v \in Workers : held'[v] # None => held'[v] = held[v]
  BY <1>5 DEF IInv, TypeOK
<1> QED
  BY <1>5, <1>7, <1>9, <1>10, MoveStep

\* The worker notes a lost lease, or forgets its claim.
LEMMA ForgetStep ==
    ASSUME IInv, NEW w \in Workers, HeartbeatLost(w) \/ Drop(w)
    PROVE  IInv'
<1>1. jobs' = jobs /\ finishes' = finishes /\ UNCHANGED <<keyRows, born>>
  BY DEF HeartbeatLost, Drop
<1>2. \A j \in Jobs : jobs[j].attempt \in Nat
  BY RowTypes DEF IInv, TypeOK
<1>3. RowInv' /\ Moves
  BY <1>1, <1>2 DEF IInv, RowInv, RowOK, Moves, MoveOK
<1>4. /\ held' \in [Workers -> Holding \union {None}]
      /\ \A v \in Workers : held'[v] # None =>
            held[v] # None /\ held'[v].job = held[v].job /\ held'[v].token = held[v].token
  <2>1. CASE Drop(w)
    BY <2>1 DEF IInv, TypeOK, Drop
  <2>2. CASE HeartbeatLost(w)
    <3> DEFINE new == [held[w] EXCEPT !.lost = TRUE]
    <3>1. held[w] \in Holding /\ held' = [held EXCEPT ![w] = new]
      BY <2>2 DEF IInv, TypeOK, HeartbeatLost
    <3>2. new \in Holding /\ new.job = held[w].job /\ new.token = held[w].token
      BY <3>1 DEF Holding
    <3> HIDE DEF new
    <3>3. held[w] # None
      BY <2>2 DEF HeartbeatLost
    <3> QED
      BY <3>1, <3>2, <3>3 DEF IInv, TypeOK
  <2> QED
    BY <2>1, <2>2
<1> QED
  BY <1>1, <1>3, <1>4, MoveStep DEF IInv, TypeOK

LEMMA ClaimStep ==
    ASSUME IInv, NEW w \in Workers, NEW j \in Jobs, NEW d \in Delays, Claim(w, j, d)
    PROVE  IInv'
<1> DEFINE t   == jobs[j].attempt + 1
           new == [jobs[j] EXCEPT !.status = "running", !.token = t,
                                  !.lease = Lease - d, !.attempt = t]
           h   == [job |-> j, token |-> t, lost |-> FALSE]
<1>1. jobs[j] \in Row /\ finishes \in Nat /\ RowOK(jobs[j], finishes)
  BY DEF IInv, TypeOK, RowInv
<1>2. jobs[j].finished \in Nat /\ jobs[j].attempt \in Nat /\ jobs[j].attempt < MaxAttempts
  BY <1>1, RowTypes DEF Claim, Claimable
<1>3. jobs' = [jobs EXCEPT ![j] = new] /\ held' = [held EXCEPT ![w] = h]
  BY DEF Claim, NewToken
<1>4. t \in 0..MaxAttempts /\ t \in 1..MaxAttempts /\ t \in Nat
  BY <1>2, BoundsAssumption
<1>5. Lease - d \in Clocks /\ "running" \in InTable \union {"unborn", "pruned"}
  BY ClockValues DEF InTable
<1>6. jobs[j].status \in Waiting \union {"running"} /\ ~jobs[j].cancel
  BY DEF Claim, Claimable
<1>7. finishes' = finishes /\ UNCHANGED <<keyRows, born>>
  BY DEF Claim
<1> HIDE DEF t
<1>8. new \in Row
  BY <1>1, <1>4, <1>5, Zenon DEF Row
<1>9. /\ new.status = "running" /\ new.finished = jobs[j].finished
      /\ new.keep = jobs[j].keep /\ new.token = t
      /\ new.key = jobs[j].key /\ new.attempt = t
      /\ new.cancel = jobs[j].cancel /\ new.payload = jobs[j].payload
  BY <1>1 DEF Row
<1>10. h \in Holding
  BY <1>4 DEF Holding
<1>11. h.job = j /\ h.token = t
  OBVIOUS
<1> HIDE DEF new, h
<1>12. RowOK(new, finishes') /\ MoveOK(jobs[j], new)
  BY <1>1, <1>2, <1>6, <1>7, <1>9 DEF t, RowOK, MoveOK, InTable, Waiting, Terminal
<1>13. jobs' \in [Jobs -> Row] /\ RowInv' /\ Moves
  <2>1. finishes' \in Nat /\ finishes' >= finishes
    BY <1>1, <1>7
  <2> QED
    BY <1>3, <1>8, <1>9, <1>12, <2>1, OneRow
<1>14. TypeOK'
  BY <1>3, <1>7, <1>10, <1>13 DEF IInv, TypeOK
<1>15. BornInv' /\ KeyInv' /\ ReplayInv'
  BY <1>7, <1>13, <1>14, MovesPreserve
<1>16. HeldInv'
  <2>1. \A v \in Workers : held[v] # None => held[v].job \in Jobs /\ held[v].token \in Nat
    BY BoundsAssumption DEF IInv, TypeOK, Holding
  <2>2. \A v \in Workers : held[v] # None /\ held[v].job = j => held[v].token < t
    BY <1>2, <1>6, <2>1 DEF t, IInv, HeldInv, Waiting
  <2>3. h # None => held'[w] = h /\ h.job = j /\ h.token = t
    BY <1>3, <1>11 DEF IInv, TypeOK
  <2>4. \A v \in Workers \ {w} : held'[v] = held[v]
    BY <1>3 DEF IInv, TypeOK
  <2>5. jobs'[j] = new /\ \A i \in Jobs \ {j} : jobs'[i] = jobs[i]
    BY <1>3 DEF IInv, TypeOK
  <2>6. \A v \in Workers \ {w} : held[v] # None =>
           /\ jobs'[held[v].job].status # "unborn"
           /\ jobs'[held[v].job].status # "pruned" =>
                 held[v].token <= jobs'[held[v].job].attempt
    <3> SUFFICES ASSUME NEW v \in Workers \ {w}, held[v] # None
                 PROVE  /\ jobs'[held[v].job].status # "unborn"
                        /\ jobs'[held[v].job].status # "pruned" =>
                              held[v].token <= jobs'[held[v].job].attempt
      OBVIOUS
    <3>1. CASE held[v].job = j
      BY <1>4, <1>9, <2>1, <2>2, <2>5, <3>1
    <3>2. CASE held[v].job # j
      BY <2>1, <2>5, <3>2 DEF IInv, HeldInv
    <3> QED
      BY <3>1, <3>2
  <2>7. jobs'[j].status = "running" /\ t <= jobs'[j].attempt
    BY <1>4, <1>9, <2>5
  <2>8. \A u, v \in Workers \ {w} :
           held[u] # None /\ held[v] # None /\ held[v].job = held[u].job
              /\ held[v].token = held[u].token => v = u
    BY DEF IInv, HeldInv
  <2>9. \A v \in Workers \ {w} : held[v] # None /\ held[v].job = j => held[v].token # t
    BY <1>4, <2>1, <2>2
  <2>10. held'[w] = h
    BY <1>3 DEF IInv, TypeOK
  <2> QED
    BY <1>11, <2>4, <2>6, <2>7, <2>8, <2>9, <2>10 DEF HeldInv
<1> QED
  BY <1>13, <1>14, <1>15, <1>16 DEF IInv

\* The reaper releases every row of its batch.
LEMMA ReapStep ==
    ASSUME IInv, NEW S \in SUBSET Jobs, NEW d \in Delays, ReapExpired(S, d)
    PROVE  IInv'
<1> DEFINE st(j) == ReapStatus(jobs[j])
           n     == IF \E j \in S : st(j) \in Terminal THEN finishes + 1 ELSE finishes
<1>1. \A j \in Jobs : /\ jobs[j] \in Row /\ RowOK(jobs[j], finishes)
                      /\ jobs[j].finished \in Nat /\ jobs[j].attempt \in Nat
                      /\ jobs[j].attempt <= MaxAttempts /\ jobs[j].cancel \in BOOLEAN
                      /\ jobs[j].keep \in Int
  BY RowTypes DEF IInv, TypeOK, RowInv
<1>2. finishes \in Nat /\ -d \in Clocks
  BY ClockValues DEF IInv, TypeOK
<1>3. \A j \in S : jobs[j].status = "running"
  BY DEF ReapExpired, IsBatch, Expired
<1>4. /\ \A j \in S : jobs'[j] = Released(jobs[j], st(j), -d)
      /\ \A j \in Jobs \ S : jobs'[j] = jobs[j]
      /\ jobs' = [j \in Jobs |-> jobs'[j]]
      /\ finishes' = n
      /\ UNCHANGED <<keyRows, held, born>>
  BY DEF ReapExpired
<1>5. \A j \in S : /\ st(j) \in {"cancelled", "retry_wait", "dead_letter"}
                   /\ jobs[j].cancel => st(j) = "cancelled"
                   /\ st(j) = "dead_letter" => jobs[j].attempt = MaxAttempts
  BY <1>1, BoundsAssumption DEF ReapStatus
<1> HIDE DEF st
<1>6. \A j \in S : LET m == IF st(j) \in Terminal THEN finishes + 1 ELSE finishes
                   IN  /\ jobs'[j] \in Row
                       /\ RowOK(jobs'[j], m)
                       /\ MoveOK(jobs[j], jobs'[j])
  BY <1>2, <1>3, <1>4, <1>5, ReleaseStep
<1>7. finishes' \in Nat /\ finishes' >= finishes
      /\ \A j \in S : st(j) \in Terminal => finishes' = finishes + 1
  BY <1>2, <1>4
<1>8. \A j \in Jobs : jobs'[j] \in Row
  BY <1>1, <1>4, <1>6
<1>9. jobs' \in [Jobs -> Row]
  BY <1>4, <1>8
<1>10. RowInv'
  <2> SUFFICES ASSUME NEW j \in Jobs
               PROVE  RowOK(jobs'[j], finishes')
    BY DEF RowInv
  <2>1. jobs'[j].finished \in Nat
    BY <1>8, RowTypes
  <2>2. \E m \in {finishes, finishes + 1} : RowOK(jobs'[j], m) /\ m <= finishes'
    BY <1>1, <1>2, <1>4, <1>6, <1>7
  <2> QED
    BY <1>2, <1>7, <2>1, <2>2 DEF RowOK
<1>11. Moves
  <2>1. \A j \in Jobs : MoveOK(jobs[j], jobs'[j])
    <3>1. \A j \in Jobs : MoveOK(jobs[j], jobs[j])
      BY <1>1 DEF MoveOK
    <3> QED
      BY <1>4, <1>6, <3>1
  <2>2. \A j \in Jobs : jobs[j].status \in Terminal => jobs'[j].keep = jobs[j].keep
    BY <1>3, <1>4 DEF Terminal
  <2> QED
    BY <2>1, <2>2 DEF Moves
<1> QED
  BY <1>4, <1>7, <1>9, <1>10, <1>11, MoveStep DEF IInv, TypeOK

LEMMA TickStep ==
    ASSUME IInv, Tick
    PROVE  IInv'
<1>1. \A j \in Jobs : /\ jobs[j] \in Row /\ RowOK(jobs[j], finishes)
                      /\ jobs[j].finished \in Nat /\ jobs[j].attempt \in Nat
                      /\ jobs[j].keep \in Int
  BY RowTypes DEF IInv, TypeOK, RowInv
<1>2. \A j \in Jobs : jobs[j].lease \in Clocks /\ jobs[j].wait \in Clocks /\ jobs[j].keep \in Clocks
  BY <1>1, Zenon DEF Row
<1>3. finishes' = finishes /\ UNCHANGED <<keyRows, held, born>>
  BY DEF Tick, Elapse
<1> DEFINE L(j) == IF jobs[j].status = "running" THEN Nearer(jobs[j].lease) ELSE jobs[j].lease
           W(j) == IF jobs[j].status \in Waiting THEN Nearer(jobs[j].wait) ELSE jobs[j].wait
           K(j) == IF jobs[j].status \in Terminal THEN Nearer(jobs[j].keep) ELSE jobs[j].keep
           new(j) == [jobs[j] EXCEPT !.lease = L(j), !.wait = W(j), !.keep = K(j)]
<1>4. jobs' = [j \in Jobs |-> new(j)]
  BY DEF Tick, Elapse
<1>5. \A j \in Jobs : L(j) \in Clocks /\ W(j) \in Clocks /\ K(j) \in Clocks
  BY <1>2, ClockValues
<1>6. /\ \A j \in Jobs : K(j) \in Int /\ K(j) <= jobs[j].keep
      /\ \A i, j \in Jobs : /\ jobs[i].status \in Terminal /\ jobs[j].status \in Terminal
                            /\ jobs[i].keep <= jobs[j].keep
                            => K(i) <= K(j)
  BY <1>1, BoundsAssumption DEF Nearer
<1> HIDE DEF L, W, K
<1>7. \A j \in Jobs : new(j) \in Row
  BY <1>1, <1>5, ZenonT(30) DEF Row
<1>8. \A j \in Jobs : /\ new(j).status = jobs[j].status /\ new(j).finished = jobs[j].finished
                      /\ new(j).keep = K(j) /\ new(j).token = jobs[j].token
                      /\ new(j).key = jobs[j].key /\ new(j).attempt = jobs[j].attempt
                      /\ new(j).cancel = jobs[j].cancel /\ new(j).payload = jobs[j].payload
  BY <1>1 DEF Row
<1> HIDE DEF new
<1>9. \A j \in Jobs : jobs'[j] = new(j)
  BY <1>4
<1>10. jobs' \in [Jobs -> Row]
  BY <1>4, <1>7
<1>11. RowInv'
  <2>1. \A j \in Jobs : new(j).keep <= Retention
    BY <1>1, <1>6, <1>8, BoundsAssumption DEF RowOK
  <2> QED
    BY <1>1, <1>3, <1>8, <1>9, <2>1 DEF RowInv, RowOK
<1>12. Moves
  <2>1. \A j \in Jobs : MoveOK(jobs[j], new(j))
    BY <1>1, <1>8 DEF MoveOK
  <2> QED
    BY <1>6, <1>8, <1>9, <2>1 DEF Moves
<1> QED
  BY <1>3, <1>10, <1>11, <1>12, MoveStep DEF IInv, TypeOK

\* A new row under a key that no job has had.
LEMMA InsertStep ==
    ASSUME IInv, NEW j \in Jobs, NEW k \in AllKeys \union {NoKey}, NEW p \in Payloads,
           NEW src \in Jobs \union {None}, NEW ready \in 0..MaxBackoff,
           Insert(j, k, p, src, ready),
           k \in AllKeys => born[k] = {},
           \A s \in Jobs, rk \in ReplayKeys :
               k = <<s, rk>> => jobs[s].status = "dead_letter",
           \/ k \notin Keys /\ keyRows' = keyRows
           \/ /\ k \in Keys
              /\ keyRows' = [keyRows EXCEPT
                     ![k] = [job |-> j, fingerprint |-> p, terminal |-> None]],
           UNCHANGED <<held, finishes>>
    PROVE  IInv'
<1> DEFINE new == NewRow(k, p, src, ready)
           kr  == [job |-> j, fingerprint |-> p, terminal |-> None]
<1>1. ready \in Clocks
  BY ClockValues, BoundsAssumption
<1>2. Absent("queued") \in Row
  BY AbsentIsRow DEF InTable, Waiting
<1>3. new \in Row
  BY <1>1, <1>2, Zenon DEF NewRow, Row
<1>4. /\ new.status = "queued" /\ new.key = k /\ new.payload = p /\ ~new.cancel
      /\ new.finished = 0 /\ new.keep = 0 /\ new.attempt = 0
  BY DEF NewRow, Absent
<1>5. /\ jobs[j].status = "unborn"
      /\ jobs' = [jobs EXCEPT ![j] = new]
      /\ born' = IF k = NoKey THEN born ELSE [born EXCEPT ![k] = @ \union {j}]
  BY DEF Insert
<1>6. kr \in KeyRow /\ kr.job = j /\ kr # None
  BY NullAssumption DEF KeyRow
<1> HIDE DEF new, kr
<1>7. /\ jobs \in [Jobs -> Row] /\ keyRows \in [AllKeys -> KeyRow \union {None}]
      /\ born \in [AllKeys -> SUBSET Jobs] /\ Keys \subseteq AllKeys
  BY DEF IInv, TypeOK, AllKeys
<1>8. jobs'[j] = new /\ \A i \in Jobs \ {j} : jobs'[i] = jobs[i]
  BY <1>5, <1>7
<1>9. \A m \in AllKeys : born'[m] = IF m = k THEN {j} ELSE born[m]
  BY <1>5, <1>7, NamesAssumption
<1>10. born' \in [AllKeys -> SUBSET Jobs]
  BY <1>5, <1>7
<1>11. \A m \in AllKeys : born[m] \subseteq Jobs \ {j}
  BY <1>5, <1>7 DEF IInv, BornInv, Stored, InTable, Waiting, Terminal
<1>12. TypeOK'
  <2>1. jobs' \in [Jobs -> Row]
    BY <1>3, <1>5, <1>7
  <2>2. keyRows' \in [AllKeys -> KeyRow \union {None}]
    BY <1>6, <1>7 DEF kr
  <2> QED
    BY <1>10, <2>1, <2>2 DEF IInv, TypeOK
<1>13. RowInv'
  <2>1. RowOK(new, finishes)
    BY <1>4, BoundsAssumption DEF RowOK, IInv, TypeOK
  <2> QED
    BY <1>8, <2>1 DEF IInv, RowInv
<1>14. BornInv'
  <2>1. \A m \in AllKeys : \A i \in born'[m] :
           jobs'[i].status = "pruned" \/ (jobs'[i].status \in InTable /\ jobs'[i].key = m)
    BY <1>4, <1>8, <1>9, <1>11 DEF IInv, BornInv, Stored, InTable, Waiting
  <2>2. \A i \in Jobs : jobs'[i].status \in InTable /\ jobs'[i].key # NoKey
                           => i \in born'[jobs'[i].key]
    <3> SUFFICES ASSUME NEW i \in Jobs, jobs'[i].status \in InTable, jobs'[i].key # NoKey
                 PROVE  i \in born'[jobs'[i].key]
      OBVIOUS
    <3>1. CASE i = j
      BY <1>4, <1>8, <1>9, <3>1
    <3>2. CASE i # j
      <4>1. jobs[i].key \in AllKeys /\ i \in born[jobs[i].key]
        BY <1>7, <1>8, <3>2 DEF IInv, BornInv, Stored, Row
      <4> QED
        BY <1>8, <1>9, <3>2, <4>1
    <3> QED
      BY <3>1, <3>2
  <2> QED
    BY <2>1, <2>2 DEF BornInv, Stored
<1>15. KeyInv'
  <2> SUFFICES ASSUME NEW m \in Keys
               PROVE  /\ keyRows'[m] = None => born'[m] = {}
                      /\ keyRows'[m] # None => born'[m] = {keyRows'[m].job}
                      /\ \A i \in born'[m] :
                            jobs'[i].status = "pruned" => keyRows'[m].terminal \in Terminal
    BY DEF KeyInv
  <2>1. CASE m = k
    <3>1. keyRows'[m] = kr
      BY <1>7, <2>1 DEF kr
    <3> QED
      BY <1>4, <1>6, <1>7, <1>8, <1>9, <2>1, <3>1
  <2>2. CASE m # k
    <3>1. keyRows'[m] = keyRows[m] /\ born'[m] = born[m]
      BY <1>7, <1>9, <2>2
    <3>2. \A i \in born[m] : jobs'[i] = jobs[i]
      BY <1>7, <1>8, <1>11
    <3> QED
      BY <3>1, <3>2 DEF IInv, KeyInv
  <2> QED
    BY <2>1, <2>2
<1>16. ReplayInv'
  <2> SUFFICES ASSUME NEW s \in Jobs, NEW rk \in ReplayKeys, NEW i \in born'[<<s, rk>>]
               PROVE  /\ \A q \in born'[<<s, rk>>] : q = i
                      /\ jobs'[s].status \in {"dead_letter", "pruned"}
                      /\ jobs'[s].status = "dead_letter" => jobs'[i].status \in InTable
                      /\ jobs'[s].status = "dead_letter" /\ jobs'[i].status \in Terminal =>
                            /\ jobs'[s].finished < jobs'[i].finished
                            /\ jobs'[s].keep <= jobs'[i].keep
    BY DEF ReplayInv, Stored
  <2>1. <<s, rk>> \in AllKeys
    BY DEF AllKeys, ReplayIds
  <2>2. CASE <<s, rk>> = k
    <3>1. i = j /\ born'[<<s, rk>>] = {j} /\ jobs[s].status = "dead_letter"
      BY <1>9, <2>1, <2>2
    <3>2. jobs'[s].status = "dead_letter" /\ jobs'[i].status = "queued"
      BY <1>4, <1>5, <1>8, <3>1
    <3> QED
      BY <3>1, <3>2 DEF InTable, Waiting, Terminal
  <2>3. CASE <<s, rk>> # k
    <3>1. born'[<<s, rk>>] = born[<<s, rk>>] /\ i # j
      BY <1>9, <1>11, <2>1, <2>3
    <3>2. jobs[s].status \in {"dead_letter", "pruned"}
      BY <3>1 DEF IInv, ReplayInv
    <3>3. s # j /\ i \in Jobs
      BY <1>5, <1>7, <2>1, <3>1, <3>2
    <3> QED
      BY <1>8, <3>1, <3>3 DEF IInv, ReplayInv, Stored
  <2> QED
    BY <2>2, <2>3
<1>17. HeldInv'
  <2>1. \A w \in Workers : held[w] # None => held[w].job \in Jobs \ {j}
    BY <1>5 DEF IInv, TypeOK, HeldInv, Holding
  <2> QED
    BY <1>8, <2>1 DEF IInv, HeldInv
<1> QED
  BY <1>12, <1>13, <1>14, <1>15, <1>16, <1>17 DEF IInv

\* A key without a key row has had no job; a replay key without a row in the
\* table has had none while its source is a dead letter.
LEMMA FreshKeys ==
    ASSUME IInv
    PROVE  /\ \A k \in Keys : keyRows[k] = None => born[k] = {}
           /\ \A s \in Jobs, rk \in ReplayKeys :
                 /\ jobs[s].status = "dead_letter"
                 /\ \A i \in Jobs : Stored(i) => jobs[i].key # <<s, rk>>
                 => born[<<s, rk>>] = {}
<1>1. \A k \in Keys : keyRows[k] = None => born[k] = {}
  BY DEF IInv, KeyInv
<1>2. ASSUME NEW s \in Jobs, NEW rk \in ReplayKeys, jobs[s].status = "dead_letter",
             \A i \in Jobs : Stored(i) => jobs[i].key # <<s, rk>>,
             NEW j \in born[<<s, rk>>]
      PROVE  FALSE
  <2>1. <<s, rk>> \in AllKeys
    BY DEF AllKeys, ReplayIds
  <2>2. j \in Jobs
    BY <2>1 DEF IInv, TypeOK
  <2>3. Stored(j)
    BY <1>2 DEF IInv, ReplayInv
  <2>4. jobs[j].key = <<s, rk>>
    BY <2>1, <2>3 DEF IInv, BornInv, Stored, InTable, Waiting, Terminal
  <2> QED
    BY <1>2, <2>2, <2>3, <2>4
<1> QED
  BY <1>1, <1>2

LEMMA EnqueueUnkeyedStep ==
    ASSUME IInv, NEW j \in Jobs, NEW p \in Payloads, NEW ready \in 0..MaxBackoff,
           EnqueueUnkeyed(j, p, ready)
    PROVE  IInv'
<1>1. NoKey \notin AllKeys /\ NoKey \notin Keys
  BY NamesAssumption DEF AllKeys
<1>2. \A s \in Jobs, rk \in ReplayKeys : NoKey # <<s, rk>>
  BY <1>1 DEF AllKeys, ReplayIds
<1> QED
  BY <1>1, <1>2, InsertStep DEF EnqueueUnkeyed

LEMMA EnqueueStep ==
    ASSUME IInv, NEW j \in Jobs, NEW k \in Keys, NEW p \in Payloads,
           NEW ready \in 0..MaxBackoff, Enqueue(j, k, p, ready)
    PROVE  IInv'
<1>1. k \in AllKeys /\ born[k] = {}
  BY FreshKeys DEF AllKeys, Enqueue
<1>2. \A s \in Jobs, rk \in ReplayKeys : k # <<s, rk>>
  BY NamesAssumption DEF ReplayIds
<1> QED
  BY <1>1, <1>2, InsertStep DEF Enqueue

LEMMA ReplayStep ==
    ASSUME IInv, NEW j \in Jobs, NEW s \in Jobs, NEW rk \in ReplayKeys,
           ReplayDeadLetter(j, s, rk)
    PROVE  IInv'
<1> DEFINE k == <<s, rk>>
<1>1. k \in AllKeys /\ k \notin Keys
  BY NamesAssumption DEF AllKeys, ReplayIds
<1>2. born[k] = {} /\ jobs[s].status = "dead_letter"
  BY FreshKeys DEF ReplayDeadLetter
<1>3. jobs[s].payload \in Payloads
  BY <1>2 DEF IInv, RowInv, RowOK, InTable, Terminal
<1>4. \A t \in Jobs, q \in ReplayKeys : k = <<t, q>> => jobs[t].status = "dead_letter"
  BY <1>2
<1>5. Insert(j, k, jobs[s].payload, s, 0) /\ UNCHANGED <<keyRows, held, finishes>>
  BY DEF ReplayDeadLetter
<1>6. 0 \in 0..MaxBackoff
  BY BoundsAssumption
<1> HIDE DEF k
<1> QED
  BY <1>1, <1>2, <1>3, <1>4, <1>5, <1>6, InsertStep

\* Pruning in the order of finished_at takes a dead letter no later than the
\* copies made of it.
LEMMA PruneStep ==
    ASSUME IInv, NEW S \in SUBSET Jobs, PruneTerminal(S)
    PROVE  IInv'
<1>1. /\ jobs \in [Jobs -> Row] /\ keyRows \in [AllKeys -> KeyRow \union {None}]
      /\ born \in [AllKeys -> SUBSET Jobs] /\ Keys \subseteq AllKeys
  BY DEF IInv, TypeOK, AllKeys
<1>2. \A j \in S : /\ jobs[j].status \in Terminal /\ Stored(j)
                   /\ jobs[j].payload \in Payloads
                   /\ \A i \in Stale \ S : jobs[j].finished <= jobs[i].finished
                   /\ jobs[j].keep <= 0
  <2>1. \A j \in S : j \in Stale /\ \A i \in Stale \ S : jobs[j].finished <= jobs[i].finished
    BY DEF PruneTerminal, IsBatch, PruneOrder
  <2>2. \A j \in Stale : jobs[j].status \in Terminal /\ jobs[j].keep <= 0
    <3>1. \A j \in Jobs : jobs[j].keep \in Int
      BY <1>1, RowTypes
    <3> QED
      BY <3>1 DEF Stale, Past
  <2> QED
    BY <2>1, <2>2 DEF IInv, RowInv, RowOK, InTable, Stored
<1>3. /\ \A j \in S : jobs'[j] = Absent("pruned")
      /\ \A j \in Jobs \ S : jobs'[j] = jobs[j]
      /\ \A k \in AllKeys : keyRows'[k] = Tombstone(k, S)
      /\ UNCHANGED <<held, finishes, born>>
  BY DEF PruneTerminal
<1>4. Absent("pruned") \in Row /\ Absent("pruned").status = "pruned"
  BY AbsentIsRow DEF Absent
<1>5. \A k \in AllKeys : Tombstone(k, S) \in KeyRow \union {None}
  <2> SUFFICES ASSUME NEW k \in AllKeys
               PROVE  Tombstone(k, S) \in KeyRow \union {None}
    OBVIOUS
  <2> DEFINE owners == {j \in S : jobs[j].key = k}
             j      == CHOOSE i \in owners : TRUE
  <2>1. CASE owners = {}
    BY <1>1, <2>1 DEF Tombstone
  <2>2. CASE owners # {}
    <3>1. j \in S
      BY <2>2
    <3>2. j \in Jobs /\ jobs[j].payload \in Payloads /\ jobs[j].status \in Terminal
      BY <1>2, <3>1
    <3> HIDE DEF j
    <3>3. [job |-> j, fingerprint |-> jobs[j].payload, terminal |-> jobs[j].status] \in KeyRow
      BY <3>2 DEF KeyRow
    <3>4. keyRows[k] \in KeyRow =>
             [keyRows[k] EXCEPT !.terminal = jobs[j].status] \in KeyRow
      BY <3>2 DEF KeyRow
    <3> QED
      BY <1>1, <2>2, <3>3, <3>4 DEF Tombstone, j
  <2> QED
    BY <2>1, <2>2
<1>6. TypeOK'
  <2>1. jobs' \in [Jobs -> Row]
    BY <1>1, <1>3, <1>4 DEF PruneTerminal
  <2>2. keyRows' \in [AllKeys -> KeyRow \union {None}]
    BY <1>3, <1>5 DEF PruneTerminal
  <2> QED
    BY <1>3, <2>1, <2>2 DEF IInv, TypeOK
<1>7. RowInv'
  <2>1. RowOK(Absent("pruned"), finishes)
    BY BoundsAssumption DEF RowOK, Absent, IInv, TypeOK, InTable, Waiting, Terminal
  <2> QED
    BY <1>3, <2>1 DEF IInv, RowInv
<1>8. BornInv'
  <2>1. \A k \in AllKeys : \A j \in born[k] :
           jobs'[j].status = "pruned" \/ (jobs'[j].status \in InTable /\ jobs'[j].key = k)
    BY <1>1, <1>3, <1>4 DEF IInv, BornInv, Stored
  <2>2. \A j \in Jobs : jobs'[j].status \in InTable /\ jobs'[j].key # NoKey
                           => j \in born[jobs'[j].key]
    BY <1>3, <1>4 DEF IInv, BornInv, Stored, InTable, Waiting, Terminal
  <2> QED
    BY <1>3, <2>1, <2>2 DEF BornInv, Stored
<1>9. KeyInv'
  <2> SUFFICES ASSUME NEW k \in Keys
               PROVE  /\ keyRows'[k] = None => born[k] = {}
                      /\ keyRows'[k] # None => born[k] = {keyRows'[k].job}
                      /\ \A j \in born[k] :
                            jobs'[j].status = "pruned" => keyRows'[k].terminal \in Terminal
    BY <1>3 DEF KeyInv
  <2> DEFINE owners == {j \in S : jobs[j].key = k}
             i      == CHOOSE q \in owners : TRUE
  <2>1. k \in AllKeys /\ k # NoKey
    BY NamesAssumption DEF AllKeys
  <2>2. owners \subseteq born[k]
    BY <1>2, <2>1 DEF IInv, BornInv
  <2>3. born[k] \intersect S \subseteq owners
    BY <1>2, <2>1 DEF IInv, BornInv, Stored, InTable, Waiting, Terminal
  <2>4. CASE owners = {}
    <3>1. keyRows'[k] = keyRows[k]
      BY <1>3, <2>1, <2>4 DEF Tombstone
    <3>2. \A j \in born[k] : jobs'[j] = jobs[j]
      BY <1>1, <1>3, <2>1, <2>3, <2>4
    <3> QED
      BY <3>1, <3>2 DEF IInv, KeyInv
  <2>5. CASE owners # {}
    <3>1. i \in owners
      BY <2>5
    <3>2. keyRows[k] # None /\ born[k] = {keyRows[k].job} /\ i = keyRows[k].job
      BY <2>2, <3>1 DEF IInv, KeyInv
    <3>3. keyRows'[k] = [keyRows[k] EXCEPT !.terminal = jobs[i].status]
      BY <1>3, <2>1, <2>5, <3>2 DEF Tombstone
    <3>4. keyRows[k] \in KeyRow /\ jobs[i].status \in Terminal
      BY <1>1, <1>2, <2>1, <3>1, <3>2
    <3> HIDE DEF i, owners
    <3>5. keyRows'[k] \in KeyRow /\ keyRows'[k].job = keyRows[k].job
          /\ keyRows'[k].terminal \in Terminal
      BY <3>3, <3>4 DEF KeyRow
    <3>6. keyRows'[k] # None
      BY <3>5, NullAssumption
    <3> QED
      BY <3>2, <3>5, <3>6
  <2> QED
    BY <2>4, <2>5
<1>10. ReplayInv'
  <2> SUFFICES ASSUME NEW s \in Jobs, NEW rk \in ReplayKeys, NEW j \in born[<<s, rk>>]
               PROVE  /\ \A q \in born[<<s, rk>>] : q = j
                      /\ jobs'[s].status \in {"dead_letter", "pruned"}
                      /\ jobs'[s].status = "dead_letter" => jobs'[j].status \in InTable
                      /\ jobs'[s].status = "dead_letter" /\ jobs'[j].status \in Terminal =>
                            /\ jobs'[s].finished < jobs'[j].finished
                            /\ jobs'[s].keep <= jobs'[j].keep
    BY <1>3 DEF ReplayInv, Stored
  <2>1. j \in Jobs
    BY <1>1 DEF AllKeys, ReplayIds
  <2>2. /\ \A q \in born[<<s, rk>>] : q = j
        /\ jobs[s].status \in {"dead_letter", "pruned"}
        /\ jobs[s].status = "dead_letter" => Stored(j)
        /\ jobs[s].status = "dead_letter" /\ jobs[j].status \in Terminal =>
              jobs[s].finished < jobs[j].finished /\ jobs[s].keep <= jobs[j].keep
    BY DEF IInv, ReplayInv
  <2>3. CASE s \in S
    BY <1>3, <1>4, <2>2, <2>3
  <2>4. CASE s \notin S
    <3>1. jobs'[s] = jobs[s]
      BY <1>3, <2>4
    <3>2. ASSUME jobs[s].status = "dead_letter", j \in S
          PROVE  FALSE
      <4>1. jobs[s].finished < jobs[j].finished /\ jobs[s].keep <= jobs[j].keep
        BY <1>2, <2>2, <3>2
      <4>2. /\ jobs[s].finished \in Nat /\ jobs[j].finished \in Nat
            /\ jobs[s].keep \in Int /\ jobs[j].keep \in Int
        BY <1>1, <2>1, RowTypes
      <4>3. jobs[s].keep <= 0
        BY <1>2, <3>2, <4>1, <4>2
      <4>4. s \in Stale
        BY <3>2, <4>2, <4>3 DEF Stale, Past, Terminal
      <4>5. jobs[j].finished <= jobs[s].finished
        BY <1>2, <2>4, <3>2, <4>4
      <4> QED
        BY <4>1, <4>2, <4>5
    <3>3. jobs[s].status = "dead_letter" => jobs'[j] = jobs[j]
      BY <1>3, <2>1, <3>2
    <3> QED
      BY <2>2, <3>1, <3>3 DEF Stored
  <2> QED
    BY <2>3, <2>4
<1>11. HeldInv'
  <2>1. \A j \in Jobs : jobs[j].attempt \in Nat
    BY <1>1, RowTypes
  <2>2. \A j \in Jobs : /\ jobs[j].status # "unborn" => jobs'[j].status # "unborn"
                        /\ jobs[j].status = "pruned" => jobs'[j].status = "pruned"
                        /\ \/ jobs'[j].status = "pruned"
                           \/ jobs'[j].attempt >= jobs[j].attempt
    BY <1>3, <1>4, <2>1
  <2> QED
    BY <1>3, <1>6, <2>2, HeldPreserve
<1> QED
  BY <1>6, <1>7, <1>8, <1>9, <1>10, <1>11 DEF IInv

-----------------------------------------------------------------------------
(* The theorems. *)

LEMMA NextInv == IInv /\ [Next]_vars => IInv'
<1> SUFFICES ASSUME IInv, [Next]_vars PROVE IInv'
  OBVIOUS
<1>1. CASE UNCHANGED vars
  BY <1>1 DEF vars, IInv, TypeOK, RowInv, RowOK, BornInv, Stored, KeyInv, ReplayInv, HeldInv
<1>2. CASE Produce
  BY <1>2, EnqueueUnkeyedStep, EnqueueStep, ReplayStep, RequestCancelStep DEF Produce
<1>3. CASE ClaimSome
  BY <1>3, ClaimStep DEF ClaimSome
<1>4. ASSUME NEW w \in Workers, Work(w)
      PROVE  IInv'
  <2>1. PICK d \in Delays :
           \/ Complete(w, d)
           \/ \E r \in BOOLEAN, delay \in 0..MaxBackoff : Fail(w, d, r, delay)
    BY <1>4 DEF Work
  <2>2. \E e, r \in BOOLEAN, delay \in 0..MaxBackoff : Finish(w, d, e, r, delay)
    <3>1. 0 \in 0..MaxBackoff
      BY BoundsAssumption
    <3> QED
      BY <2>1, <3>1 DEF Complete, Fail
  <2> QED
    BY <2>2, FinishStep
<1>5. CASE ReapSome
  BY <1>5, ReapStep DEF ReapSome
<1>6. CASE PruneSome
  BY <1>6, PruneStep DEF PruneSome
<1>7. CASE Tick
  BY <1>7, TickStep
<1>8. ASSUME NEW w \in Workers,
             \/ \E d \in Delays : Heartbeat(w, d)
             \/ HeartbeatLost(w)
             \/ Drop(w)
      PROVE  IInv'
  BY <1>8, HeartbeatStep, ForgetStep
<1> QED
  BY <1>1, <1>2, <1>3, <1>4, <1>5, <1>6, <1>7, <1>8 DEF Next

\* The inductive invariant holds throughout.
THEOREM Inductive == Spec => []IInv
<1> QED
  BY InitInv, NextInv, PTL DEF Spec

\* Every variable keeps its type: in particular no job is ever claimed more
\* than MaxAttempts times.
THEOREM TypeCorrect == Spec => []TypeOK
<1>1. IInv => TypeOK
  BY DEF IInv
<1> QED
  BY <1>1, Inductive, PTL

\* An idempotency key yields at most one job ever, pruning or not.
THEOREM KeysSafe == Spec => []KeyNeverReused
<1>1. IInv => KeyNeverReused
  BY DEF IInv, KeyInv, KeyNeverReused
<1> QED
  BY <1>1, Inductive, PTL

\* A replay key of a dead letter yields at most one copy ever, which is in the
\* table as long as the dead letter is.
THEOREM ReplaySafe == Spec => []ReplayOnce
<1>1. IInv => ReplayOnce
  BY DEF IInv, ReplayInv, ReplayOnce, Stored, InTable, Terminal, Waiting
<1> QED
  BY <1>1, Inductive, PTL

\* The key row of a pruned job keeps its terminal status.
THEOREM OutcomeSafe == Spec => []OutcomeRemembered
<1>1. IInv => OutcomeRemembered
  BY DEF IInv, KeyInv, OutcomeRemembered
<1> QED
  BY <1>1, Inductive, PTL

\* At most one worker passes the fencing test of a job.
THEOREM OwnerSafe == Spec => []UniqueOwner
<1>1. IInv => UniqueOwner
  BY DEF IInv, HeldInv, UniqueOwner, Owns
<1> QED
  BY <1>1, Inductive, PTL

\* A dead letter has used all its attempts.
THEOREM DeadLetterSafe == Spec => []DeadLetterExhausted
<1>1. IInv => DeadLetterExhausted
  BY DEF IInv, RowInv, RowOK, DeadLetterExhausted
<1> QED
  BY <1>1, Inductive, PTL

-----------------------------------------------------------------------------
(* What one step may do to a row and to a claim. *)

\* A terminal row keeps its outcome or is pruned; a row that is to be cancelled
\* is not claimed again and ends in cancelled.
RowStep(row, new) ==
    /\ row.status \in Terminal => new.status \in {row.status, "pruned"}
    /\ row.cancel =>
          \/ new.status = "pruned"
          \/ /\ new.cancel
             /\ new.status \in {"running", "cancelled"}
             /\ new.attempt = row.attempt

\* The release of a running row is such a step when it respects the flag.
LEMMA ReleasedRowStep ==
    ASSUME NEW row \in Row, NEW st \in InTable, NEW b \in Clocks,
           row.status = "running", row.cancel => st = "cancelled"
    PROVE  RowStep(row, Released(row, st, b))
<1>1. row.status \notin Terminal
  BY DEF Terminal
<1>2. LET new == Released(row, st, b)
      IN  new.status = st /\ new.attempt = row.attempt /\ new.cancel = row.cancel
  BY ReleasedColumns
<1> QED
  BY <1>1, <1>2 DEF RowStep

\* Every step of the store treats every row in this way.
LEMMA RowSteps ==
    ASSUME IInv, Next, NEW i \in Jobs
    PROVE  RowStep(jobs[i], jobs'[i])
<1>1. /\ jobs \in [Jobs -> Row] /\ held \in [Workers -> Holding \union {None}]
      /\ \A j \in Jobs : /\ jobs[j] \in Row
                         /\ jobs[j].cancel => jobs[j].status \in {"running", "cancelled"}
  BY DEF IInv, TypeOK, RowInv, RowOK
<1>2. RowStep(jobs[i], jobs[i])
  BY <1>1 DEF RowStep
<1>3. \A new : \A j \in Jobs : jobs' = [jobs EXCEPT ![j] = new] =>
         /\ jobs'[j] = new
         /\ j # i => jobs'[i] = jobs[i]
  BY <1>1
<1>4. ASSUME NEW j \in Jobs, NEW k, NEW p, NEW src, NEW ready, Insert(j, k, p, src, ready)
      PROVE  RowStep(jobs[i], jobs'[i])
  <2>1. jobs[j].status = "unborn" /\ jobs' = [jobs EXCEPT ![j] = NewRow(k, p, src, ready)]
    BY <1>4 DEF Insert
  <2>2. ~jobs[j].cancel /\ jobs[j].status \notin Terminal
    BY <1>1, <2>1 DEF Terminal
  <2> QED
    BY <1>2, <1>3, <2>1, <2>2 DEF RowStep
<1>5. ASSUME NEW j \in Jobs, RequestCancel(j)
      PROVE  RowStep(jobs[i], jobs'[i])
  <2>1. CASE jobs[j].status \in Waiting
    <3>1. ~jobs[j].cancel /\ jobs[j].status \notin Terminal /\ jobs[j].status # "running"
      BY <1>1, <2>1 DEF Terminal, Waiting
    <3>2. PICK new : jobs' = [jobs EXCEPT ![j] = new]
      BY <1>5, <3>1 DEF RequestCancel
    <3> QED
      BY <1>2, <1>3, <3>1, <3>2 DEF RowStep
  <2>2. CASE jobs[j].status = "running"
    <3>1. jobs' = [jobs EXCEPT ![j] = [jobs[j] EXCEPT !.cancel = TRUE]]
      BY <1>5, <2>2 DEF RequestCancel, Waiting
    <3>2. jobs[j].status \notin Terminal
      BY <2>2 DEF Terminal
    <3>3. RowStep(jobs[j], [jobs[j] EXCEPT !.cancel = TRUE])
      BY <1>1, <2>2, <3>2, CancelColumns DEF RowStep
    <3> QED
      BY <1>2, <1>3, <3>1, <3>3
  <2> QED
    BY <1>5, <2>1, <2>2 DEF RequestCancel
<1>6. ASSUME NEW w \in Workers, NEW j \in Jobs, NEW d \in Delays, Claim(w, j, d)
      PROVE  RowStep(jobs[i], jobs'[i])
  <2>1. ~jobs[j].cancel /\ jobs[j].status \notin Terminal
    BY <1>6 DEF Claim, Claimable, Waiting, Terminal
  <2>2. PICK new : jobs' = [jobs EXCEPT ![j] = new]
    BY <1>6 DEF Claim
  <2> QED
    BY <1>2, <1>3, <2>1, <2>2 DEF RowStep
<1>7. ASSUME NEW w \in Workers, NEW d \in Delays, Heartbeat(w, d)
      PROVE  RowStep(jobs[i], jobs'[i])
  <2>1. /\ held[w].job \in Jobs /\ ~jobs[held[w].job].cancel
        /\ jobs[held[w].job].status = "running"
        /\ jobs' = [jobs EXCEPT ![held[w].job].lease = Lease - d]
    BY <1>1, <1>7 DEF Heartbeat, Owns, Holding
  <2>2. PICK new : jobs' = [jobs EXCEPT ![held[w].job] = new]
    BY <2>1
  <2> QED
    BY <1>2, <1>3, <2>1, <2>2 DEF RowStep, Terminal
<1>8. ASSUME NEW w \in Workers, Work(w)
      PROVE  RowStep(jobs[i], jobs'[i])
  <2>1. 0 \in 0..MaxBackoff
    BY BoundsAssumption
  <2>2. PICK d \in Delays, error \in BOOLEAN, retryable \in BOOLEAN, delay \in 0..MaxBackoff :
           Finish(w, d, error, retryable, delay)
    BY <1>8, <2>1 DEF Work, Complete, Fail
  <2> DEFINE j  == held[w].job
             st == FinishStatus(jobs[j], error, retryable)
             b  == IF st = "retry_wait" THEN delay - d ELSE 0
  <2>3. /\ j \in Jobs /\ jobs[j].status = "running"
        /\ jobs' = [jobs EXCEPT ![j] = Released(jobs[j], st, b)]
    BY <1>1, <2>2 DEF Finish, Owns, Holding
  <2>4. st \in InTable /\ (jobs[j].cancel => st = "cancelled")
    BY DEF FinishStatus, InTable, Waiting, Terminal
  <2>5. b \in Clocks
    BY ClockValues, BoundsAssumption DEF Delays
  <2> HIDE DEF st, b, j
  <2>6. RowStep(jobs[j], Released(jobs[j], st, b))
    BY <1>1, <2>3, <2>4, <2>5, ReleasedRowStep
  <2> QED
    BY <1>2, <1>3, <2>3, <2>6
<1>9. ASSUME NEW S \in SUBSET Jobs, NEW d \in Delays, ReapExpired(S, d)
      PROVE  RowStep(jobs[i], jobs'[i])
  <2>1. jobs'[i] = IF i \in S THEN Released(jobs[i], ReapStatus(jobs[i]), -d) ELSE jobs[i]
    BY <1>9 DEF ReapExpired
  <2>2. i \in S => jobs[i].status = "running"
    BY <1>9 DEF ReapExpired, IsBatch, Expired
  <2>3. /\ ReapStatus(jobs[i]) \in InTable
        /\ jobs[i].cancel => ReapStatus(jobs[i]) = "cancelled"
    BY DEF ReapStatus, InTable, Waiting, Terminal
  <2> QED
    BY <1>1, <1>2, <2>1, <2>2, <2>3, ClockValues, ReleasedRowStep
<1>10. ASSUME NEW S \in SUBSET Jobs, PruneTerminal(S)
       PROVE  RowStep(jobs[i], jobs'[i])
  <2>1. jobs'[i] = IF i \in S THEN Absent("pruned") ELSE jobs[i]
    BY <1>10 DEF PruneTerminal
  <2>2. i \in S => jobs'[i].status = "pruned"
    BY <2>1 DEF Absent
  <2> QED
    BY <1>2, <2>1, <2>2 DEF RowStep
<1>11. CASE Tick
  <2>1. /\ jobs'[i].status = jobs[i].status /\ jobs'[i].cancel = jobs[i].cancel
        /\ jobs'[i].attempt = jobs[i].attempt
    BY <1>1, <1>11 DEF Tick, Elapse, Row
  <2> QED
    BY <1>2, <2>1 DEF RowStep
<1>12. CASE jobs' = jobs
  BY <1>2, <1>12
<1>13. CASE Produce
  BY <1>4, <1>5, <1>13 DEF Produce, EnqueueUnkeyed, Enqueue, ReplayDeadLetter
<1>14. ASSUME NEW w \in Workers, HeartbeatLost(w) \/ Drop(w)
       PROVE  jobs' = jobs
  BY <1>14 DEF HeartbeatLost, Drop
<1> QED
  BY <1>6, <1>7, <1>8, <1>9, <1>10, <1>11, <1>12, <1>13, <1>14
  DEF Next, ClaimSome, ReapSome, PruneSome

\* What a row is and where its success comes from, for the modules that compose
\* the queue: a row in the table keeps its payload, and it turns to succeeded
\* only when the worker that holds it completes it.
RowHistory(i) ==
    /\ jobs'[i].status \in InTable =>
          \/ jobs[i].status = "unborn" /\ jobs'[i].status = "queued"
          \/ jobs[i].status \in InTable /\ jobs'[i].payload = jobs[i].payload
    /\ jobs'[i].status = "succeeded" =>
          \/ jobs[i].status = "succeeded"
          \/ \E w \in Workers, d \in Delays : Complete(w, d) /\ held[w].job = i

LEMMA RowHistories ==
    ASSUME IInv, Next, NEW i \in Jobs
    PROVE  RowHistory(i)
<1>1. /\ jobs \in [Jobs -> Row] /\ held \in [Workers -> Holding \union {None}]
      /\ \A j \in Jobs : jobs[j] \in Row
  BY DEF IInv, TypeOK
<1>2. jobs'[i] = jobs[i] => RowHistory(i)
  BY DEF RowHistory
<1>3. \A new : \A j \in Jobs : jobs' = [jobs EXCEPT ![j] = new] =>
         /\ jobs'[j] = new
         /\ j # i => jobs'[i] = jobs[i]
  BY <1>1
<1>4. ASSUME jobs[i].status \in InTable, jobs'[i].payload = jobs[i].payload,
             jobs'[i].status # "succeeded"
      PROVE  RowHistory(i)
  BY <1>4 DEF RowHistory
<1>5. ASSUME NEW j \in Jobs, NEW k, NEW p, NEW src, NEW ready, Insert(j, k, p, src, ready)
      PROVE  RowHistory(i)
  <2>1. jobs[j].status = "unborn" /\ jobs' = [jobs EXCEPT ![j] = NewRow(k, p, src, ready)]
    BY <1>5 DEF Insert
  <2>2. NewRow(k, p, src, ready).status = "queued"
    BY DEF NewRow, Absent
  <2>3. j = i => RowHistory(i)
    BY <1>3, <2>1, <2>2 DEF RowHistory
  <2> QED
    BY <1>2, <1>3, <2>1, <2>3
<1>6. ASSUME NEW j \in Jobs, RequestCancel(j)
      PROVE  RowHistory(i)
  <2>1. CASE jobs[j].status \in Waiting
    <3> DEFINE fin == Finished(jobs[j], "cancelled")
    <3>1. "cancelled" \in InTable /\ jobs[j].status \in InTable /\ jobs[j].status # "running"
      BY <2>1 DEF InTable, Terminal, Waiting
    <3>2. fin \in Row /\ fin.status = "cancelled" /\ fin.payload = jobs[j].payload
      BY <1>1, <3>1, FinishedIsRow, FinishedColumns DEF IInv, TypeOK
    <3>3. jobs' = [jobs EXCEPT ![j] = [fin EXCEPT !.cancel = TRUE]]
      BY <1>6, <3>1 DEF RequestCancel
    <3> HIDE DEF fin
    <3>4. LET new == [fin EXCEPT !.cancel = TRUE]
          IN  new.status = "cancelled" /\ new.payload = jobs[j].payload
      BY <3>2, CancelColumns
    <3>5. jobs'[j].status = "cancelled" /\ jobs'[j].payload = jobs[j].payload
      BY <1>3, <3>3, <3>4
    <3>6. j = i => RowHistory(i)
      BY <1>4, <3>1, <3>5
    <3> QED
      BY <1>2, <1>3, <3>3, <3>6
  <2>2. CASE jobs[j].status = "running"
    <3>1. jobs' = [jobs EXCEPT ![j] = [jobs[j] EXCEPT !.cancel = TRUE]]
      BY <1>6, <2>2 DEF RequestCancel, Waiting
    <3>2. j = i => RowHistory(i)
      BY <1>1, <1>3, <1>4, <2>2, <3>1, CancelColumns DEF InTable
    <3> QED
      BY <1>2, <1>3, <3>1, <3>2
  <2> QED
    BY <1>6, <2>1, <2>2 DEF RequestCancel
<1>7. ASSUME NEW w \in Workers, NEW j \in Jobs, NEW d \in Delays, Claim(w, j, d)
      PROVE  RowHistory(i)
  <2> DEFINE new == [jobs[j] EXCEPT !.status = "running", !.token = NewToken(j),
                                    !.lease = Lease - d,
                                    !.attempt = jobs[j].attempt + 1]
  <2>1. jobs[j].status \in InTable /\ jobs' = [jobs EXCEPT ![j] = new]
    BY <1>7 DEF Claim, Claimable, InTable
  <2>2. new.status = "running" /\ new.payload = jobs[j].payload
    BY <1>1 DEF Row
  <2> HIDE DEF new
  <2>3. j = i => RowHistory(i)
    BY <1>3, <1>4, <2>1, <2>2
  <2> QED
    BY <1>2, <1>3, <2>1, <2>3
<1>8. ASSUME NEW w \in Workers, NEW d \in Delays, Heartbeat(w, d)
      PROVE  RowHistory(i)
  <2> DEFINE j   == held[w].job
             new == [jobs[j] EXCEPT !.lease = Lease - d]
  <2>1. /\ j \in Jobs /\ jobs[j].status = "running" /\ jobs[j].status \in InTable
        /\ jobs' = [jobs EXCEPT ![j] = new]
    BY <1>1, <1>8 DEF Heartbeat, Owns, Holding, InTable
  <2>2. new.status = "running" /\ new.payload = jobs[j].payload
    BY <1>1, <2>1 DEF Row
  <2> HIDE DEF new, j
  <2>3. j = i => RowHistory(i)
    BY <1>3, <1>4, <2>1, <2>2
  <2> QED
    BY <1>2, <1>3, <2>1, <2>3
<1>9. ASSUME NEW w \in Workers, Work(w)
      PROVE  RowHistory(i)
  <2>1. PICK d \in Delays :
           \/ Complete(w, d)
           \/ \E r \in BOOLEAN, delay \in 0..MaxBackoff : Fail(w, d, r, delay)
    BY <1>9 DEF Work
  <2>2. 0 \in 0..MaxBackoff
    BY BoundsAssumption
  <2>3. PICK error \in BOOLEAN, retryable \in BOOLEAN, delay \in 0..MaxBackoff :
           /\ Finish(w, d, error, retryable, delay)
           /\ Complete(w, d) \/ error
    BY <2>1, <2>2 DEF Complete, Fail
  <2> DEFINE j  == held[w].job
             st == FinishStatus(jobs[j], error, retryable)
             b  == IF st = "retry_wait" THEN delay - d ELSE 0
  <2>4. /\ j \in Jobs /\ jobs[j].status \in InTable
        /\ jobs' = [jobs EXCEPT ![j] = Released(jobs[j], st, b)]
    BY <1>1, <2>3 DEF Finish, Owns, Holding, InTable
  <2>5. st \in InTable /\ (st = "succeeded" => ~error)
    BY DEF FinishStatus, InTable, Waiting, Terminal
  <2>6. b \in Clocks
    BY ClockValues, BoundsAssumption DEF Delays
  <2> HIDE DEF st, b
  <2>7. LET new == Released(jobs[j], st, b)
        IN  new.status = st /\ new.payload = jobs[j].payload
    BY <1>1, <2>4, <2>5, <2>6, ReleasedColumns
  <2>8. j = i => RowHistory(i)
    BY <1>3, <2>3, <2>4, <2>5, <2>7 DEF RowHistory
  <2> QED
    BY <1>2, <1>3, <2>4, <2>8
<1>10. ASSUME NEW S \in SUBSET Jobs, NEW d \in Delays, ReapExpired(S, d)
       PROVE  RowHistory(i)
  <2> DEFINE st == ReapStatus(jobs[i])
  <2>1. jobs'[i] = IF i \in S THEN Released(jobs[i], st, -d) ELSE jobs[i]
    BY <1>10 DEF ReapExpired
  <2>2. i \in S => jobs[i].status \in InTable
    BY <1>10 DEF ReapExpired, IsBatch, Expired, InTable
  <2>3. st \in InTable /\ st # "succeeded"
    BY DEF ReapStatus, InTable, Waiting, Terminal
  <2> HIDE DEF st
  <2>4. LET new == Released(jobs[i], st, -d)
        IN  new.status = st /\ new.payload = jobs[i].payload
    BY <1>1, <2>3, ClockValues, ReleasedColumns
  <2> QED
    BY <1>2, <1>4, <2>1, <2>2, <2>3, <2>4
<1>11. ASSUME NEW S \in SUBSET Jobs, PruneTerminal(S)
       PROVE  RowHistory(i)
  <2>1. jobs'[i] = IF i \in S THEN Absent("pruned") ELSE jobs[i]
    BY <1>11 DEF PruneTerminal
  <2>2. i \in S => jobs'[i].status = "pruned"
    BY <2>1 DEF Absent
  <2> QED
    BY <1>2, <2>1, <2>2 DEF RowHistory, InTable, Waiting, Terminal
<1>12. CASE Tick
  <2>1. jobs'[i].status = jobs[i].status /\ jobs'[i].payload = jobs[i].payload
    BY <1>1, <1>12 DEF Tick, Elapse, Row
  <2> QED
    BY <2>1 DEF RowHistory
<1>13. CASE Produce
  BY <1>5, <1>6, <1>13 DEF Produce, EnqueueUnkeyed, Enqueue, ReplayDeadLetter
<1>14. ASSUME NEW w \in Workers, HeartbeatLost(w) \/ Drop(w)
       PROVE  RowHistory(i)
  BY <1>2, <1>14 DEF HeartbeatLost, Drop
<1> QED
  BY <1>7, <1>8, <1>9, <1>10, <1>11, <1>12, <1>13, <1>14
  DEF Next, ClaimSome, ReapSome, PruneSome

\* A claim that ends in a step that writes the table is the current one, and
\* its row is the only one written.
LEMMA ClaimEnds ==
    ASSUME IInv, Next, NEW v \in Workers,
           held[v] # None, held'[v] = None, jobs' # jobs
    PROVE  /\ jobs[held[v].job].status = "running"
           /\ jobs[held[v].job].attempt = held[v].token
           /\ \A i \in Jobs \ {held[v].job} : jobs'[i] = jobs[i]
<1>1. jobs \in [Jobs -> Row] /\ held \in [Workers -> Holding \union {None}]
  BY DEF IInv, TypeOK
<1>2. held' # held
  OBVIOUS
<1>3. ~Produce /\ ~ReapSome /\ ~PruneSome /\ ~Tick
  BY <1>2 DEF Produce, EnqueueUnkeyed, Enqueue, ReplayDeadLetter, RequestCancel,
              ReapSome, ReapExpired, PruneSome, PruneTerminal, Tick, Elapse
<1>4. ~ClaimSome
  <2>1. ASSUME NEW w \in Workers, NEW j \in Jobs, NEW d \in Delays, Claim(w, j, d)
        PROVE  FALSE
    <3>1. held[w] = None /\ \E h : held' = [held EXCEPT ![w] = h]
      BY <2>1 DEF Claim
    <3>2. v # w
      BY <3>1
    <3> QED
      BY <1>1, <3>1, <3>2
  <2> QED
    BY <2>1 DEF ClaimSome
<1>5. \A w \in Workers : ~Drop(w) /\ ~HeartbeatLost(w) /\ \A d \in Delays : ~Heartbeat(w, d)
  BY <1>2 DEF Drop, HeartbeatLost, Heartbeat
<1>6. PICK w \in Workers : Work(w)
  BY <1>3, <1>4, <1>5 DEF Next
<1>7. PICK d, error, retryable, delay : Finish(w, d, error, retryable, delay)
  BY <1>6 DEF Work, Complete, Fail
<1>8. /\ held[w] # None /\ held' = [held EXCEPT ![w] = None]
      /\ jobs[held[w].job].status = "running"
      /\ jobs[held[w].job].token = held[w].token
      /\ \E new : jobs' = [jobs EXCEPT ![held[w].job] = new]
  BY <1>7 DEF Finish, Owns
<1>9. v = w
  BY <1>1, <1>8
<1>10. held[v].job \in Jobs
  BY <1>1 DEF Holding
<1>11. jobs[held[v].job].attempt = held[v].token
  BY <1>8, <1>9, <1>10 DEF IInv, RowInv, RowOK
<1> QED
  BY <1>1, <1>8, <1>9, <1>10, <1>11

\* Only the latest claim of a job can finish it, nothing else is written when
\* it does, and what is finished stays finished until it is pruned.
THEOREM FinishFenced == Spec => FencedFinish
<1> DEFINE A == /\ \A w \in Workers :
                     held[w] # None /\ held'[w] = None /\ jobs' # jobs =>
                        LET j == held[w].job
                        IN  /\ jobs[j].status = "running"
                            /\ jobs[j].attempt = held[w].token
                            /\ \A i \in Jobs \ {j} : jobs'[i] = jobs[i]
                /\ \A j \in Jobs : jobs[j].status \in Terminal =>
                     jobs'[j].status \in {jobs[j].status, "pruned"}
<1>1. IInv /\ [Next]_vars => [A]_vars
  BY ClaimEnds, RowSteps DEF RowStep
<1> QED
  BY <1>1, Inductive, PTL DEF Spec, FencedFinish

\* A requested cancellation holds until the job is pruned.
THEOREM CancelSafe == Spec => CancelHonoured
<1> DEFINE A == \A j \in Jobs : jobs[j].cancel =>
                   \/ jobs'[j].status = "pruned"
                   \/ /\ jobs'[j].cancel
                      /\ jobs'[j].status \in {"running", "cancelled"}
                      /\ jobs'[j].attempt = jobs[j].attempt
<1>1. IInv /\ [Next]_vars => [A]_vars
  BY RowSteps DEF RowStep
<1> QED
  BY <1>1, Inductive, PTL DEF Spec, CancelHonoured
=============================================================================
