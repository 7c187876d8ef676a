------------------------- MODULE ResearchJobsProofs -------------------------
(***************************************************************************)
(* Proofs about ResearchJobs, for any numbers of runners, sections,         *)
(* attempts, generations and events.  RInv is the inductive invariant:      *)
(*   TypeOK      the types;                                                 *)
(*   Consistent  how the columns of the record go together;                 *)
(*   AttemptInv  no attempt id is known before it was made;                 *)
(*   RunInv      what a run remembers of the record it was claimed on.      *)
(***************************************************************************)
EXTENDS ResearchJobs, FiniteSetTheorems, WellFoundedInduction, TLAPS

-----------------------------------------------------------------------------
(* Lease ids: there is always a fresh one. *)

LEMMA InUseFinite ==
    /\ IsFiniteSet(InUse)
    /\ Cardinality(Runners) \in Nat
    /\ Cardinality(InUse) \in Nat
    /\ Cardinality(InUse) <= Cardinality(Runners) + 4
<1> DEFINE A == {run[w].lease : w \in Runners}
           f == [w \in Runners |-> run[w].lease]
           B == {job["evidence"].lease, job["evidence"].drain,
                 job["report"].lease, job["report"].drain}
<1>1. IsFiniteSet(Runners) /\ Cardinality(Runners) \in Nat
  BY BoundsAssumption, FS_CardinalityType
<1>2. f \in Surjection(Runners, A)
  BY DEF Surjection
<1>3. IsFiniteSet(A) /\ Cardinality(A) <= Cardinality(Runners)
  BY <1>1, <1>2, FS_Surjection DEF ExistsSurjection
<1>4. IsFiniteSet(B) /\ Cardinality(B) \in Nat /\ Cardinality(B) <= 4
  <2> DEFINE h == [k \in 1 .. 4 |-> CASE k = 1 -> job["evidence"].lease
                                      [] k = 2 -> job["evidence"].drain
                                      [] k = 3 -> job["report"].lease
                                      [] k = 4 -> job["report"].drain]
  <2>1. h \in Surjection(1 .. 4, B)
    <3>1. h[1] = job["evidence"].lease /\ h[2] = job["evidence"].drain
          /\ h[3] = job["report"].lease /\ h[4] = job["report"].drain
      OBVIOUS
    <3>2. h \in [1 .. 4 -> B]
      OBVIOUS
    <3>3. \A b \in B : \E k \in 1 .. 4 : h[k] = b
      BY <3>1
    <3> HIDE DEF h, B
    <3>4. QED
      BY <3>2, <3>3 DEF Surjection
  <2>2. IsFiniteSet(1 .. 4) /\ Cardinality(1 .. 4) = 4
    <3>1. \A n \in Nat : IsFiniteSet(1 .. n) /\ Cardinality(1 .. n) = n
      BY FS_Interval
    <3>2. QED
      BY <3>1, Zenon, 4 \in Nat
  <2> DEFINE K == 1 .. 4
  <2> HIDE DEF h, B, K
  <2>3. IsFiniteSet(K) /\ Cardinality(K) = 4 /\ h \in Surjection(K, B)
    BY <2>1, <2>2 DEF K
  <2>4. IsFiniteSet(B) /\ Cardinality(B) <= 4
    BY <2>3, FS_Surjection
  <2>5. QED
    BY <2>4, FS_CardinalityType
<1>5. InUse = A \cup B
  <2>1. UNION {{job[p].lease, job[p].drain} : p \in Phases} = B
    BY DEF Phases
  <2>2. QED
    BY <2>1 DEF InUse
<1> HIDE DEF A, B
<1>6. Cardinality(A) \in Nat /\ Cardinality(A \cap B) \in Nat
  BY <1>3, <1>4, FS_CardinalityType, FS_Subset, A \cap B \in SUBSET A
<1>7. IsFiniteSet(A \cup B)
      /\ Cardinality(A \cup B) = Cardinality(A) + Cardinality(B) - Cardinality(A \cap B)
  BY <1>3, <1>4, FS_Union
<1>8. Cardinality(A \cup B) \in Nat
  BY <1>7, FS_CardinalityType
<1>9. QED
  BY <1>1, <1>3, <1>4, <1>5, <1>6, <1>7, <1>8

LEMMA LeaseFresh == FreshLease \in Nat /\ FreshLease \notin InUse
<1> DEFINE n == Cardinality(Runners) + 5
           I == 1 .. n
<1>1. n \in Nat /\ Cardinality(InUse) < n
  BY InUseFinite
<1>2. Cardinality(I) = n
  BY <1>1, FS_Interval
<1>3. \E l \in I : l \notin InUse
  <2> SUFFICES ASSUME I \in SUBSET InUse PROVE FALSE
    OBVIOUS
  <2>1. Cardinality(I) <= Cardinality(InUse)
    BY InUseFinite, FS_Subset
  <2>2. QED
    BY <1>1, <1>2, <2>1, InUseFinite
<1>4. FreshLease \in I /\ FreshLease \notin InUse
  BY <1>3 DEF FreshLease
<1>5. QED
  BY <1>1, <1>4

-----------------------------------------------------------------------------
(* The record. *)

SectionRow == [st : {"pending", "running", "completed", "failed"}, ev : Evidence]

JobRow == [status : Status, exec : 0 .. MaxAttempts, rexec : 0 .. MaxAttempts,
           evidence : Control, report : Control, sec : [Sections -> SectionRow],
           prov : 0 .. MaxGen, rep : Reports,
           rstat : {"not_started", "generating", "failed", "ready", "published"},
           review : {"not_started", "pending", "approved", "changes_requested", "published"}]

Evs(j) == [s \in Sections |-> j.sec[s].ev]
Full(j) == \A s \in Sections : j.sec[s].st = "completed"

(***************************************************************************)
(* The columns of the record: a run control is running exactly as long as  *)
(* the status may say so, no section of a running job has failed, and      *)
(* whoever may write or keep a report has the evidence of every section.   *)
(***************************************************************************)
Consistent(j) ==
    /\ j.evidence.state = "running" => j.status = "running"
    /\ j.evidence.state = "paused" => j.status = "paused"
    /\ j.report.state = "running" => j.status = "generating"
    /\ j.report.state # "paused"
    /\ j.status \in {"planned", "running", "paused"} => j.rstat = "not_started"
    /\ j.status \in {"planned", "running", "paused", "generating"} => j.rep = NoReport
    /\ j.status = "planned" => \A s \in Sections : j.sec[s].st = "pending"
    /\ j.status \in {"running", "paused"} => \A s \in Sections : j.sec[s].st # "failed"
    /\ j.status \in {"evidence_ready", "generating", "completed"} => Full(j)
    /\ j.status = "failed" /\ j.rstat = "failed" => Full(j)
    /\ j.rep # NoReport => j.rep = Evs(j)

Good(j) == j \in JobRow /\ Consistent(j)

\* What a transition from j to k leaves to the runs of earlier attempts; a is the
\* attempt it makes, 0 if none.
Keeps(j, k, a) ==
    /\ k.exec \in {0, a} \/ (k.exec = j.exec /\ k.prov = j.prov)
    /\ k.rexec \in {0, a} \/ k.rexec = j.rexec
    /\ k.status = "generating" =>
          \/ k.rexec \in {0, a}
          \/ /\ j.status = "generating" /\ k.rexec = j.rexec
             /\ \A s \in Sections : k.sec[s].ev = j.sec[s].ev

\* EvidenceOfItsAttempt of a transition from j to k.
Adds(j, k) == \A s \in Sections :
    k.sec[s].ev \notin {j.sec[s].ev, NoEvidence} =>
       k.sec[s].ev = << j.exec, j.prov >> /\ k.exec = j.exec /\ k.prov = j.prov

LEMMA NewControlType ==
    ASSUME NEW a \in 0 .. MaxAttempts
    PROVE  NewControl(a) \in Control /\ NewControl(a).state = "running"
  BY LeaseFresh DEF NewControl, Control

LEMMA NoControlType == NoControl \in Control /\ NoControl.state = "none"
  BY BoundsAssumption DEF NoControl, Control

LEMMA EndedType ==
    ASSUME NEW c \in Control
    PROVE  Ended(c) \in Control /\ Ended(c).state \in {"none", "ended"}
  BY DEF Ended, Control

LEMMA ResetType ==
    ASSUME NEW sec \in [Sections -> SectionRow], NEW from
    PROVE  /\ Reset(sec, from) \in [Sections -> SectionRow]
           /\ \A s \in Sections :
                /\ Reset(sec, from)[s].ev = sec[s].ev
                /\ Reset(sec, from)[s].st = IF sec[s].st \in from THEN "pending" ELSE sec[s].st
  BY DEF Reset, SectionRow

LEMMA RestartGood ==
    ASSUME NEW j, Good(j), NEW a \in 0 .. MaxAttempts, NEW g \in 0 .. MaxGen
    PROVE  /\ Good(Restart(j, a, g))
           /\ Restart(j, a, g).exec = a /\ Restart(j, a, g).rexec = 0
           /\ Restart(j, a, g).prov = g /\ Restart(j, a, g).status = "running"
           /\ Restart(j, a, g) \in JobRow
           /\ Adds(j, Restart(j, a, g))
<1> DEFINE n == NewControl(a)
           z == NoControl
           r == Reset(j.sec, {"running", "failed"})
           k == Restart(j, a, g)
<1>1. /\ j \in JobRow
      /\ n \in Control /\ n.state = "running"
      /\ z \in Control /\ z.state = "none"
  BY NewControlType, NoControlType DEF Good
<1>2. /\ r \in [Sections -> SectionRow]
      /\ \A s \in Sections : /\ r[s].st # "failed"
                             /\ r[s].st = "completed" => j.sec[s].st = "completed"
                             /\ r[s].ev = j.sec[s].ev
  BY <1>1, ResetType DEF JobRow, SectionRow
<1>3. k = [j EXCEPT !.status = "running", !.exec = a, !.rexec = 0, !.prov = g,
                    !.rstat = "not_started", !.rep = NoReport, !.review = "not_started",
                    !.evidence = n, !.report = z, !.sec = r]
  BY Zenon DEF Restart
<1>4. NoReport \in Reports /\ 0 \in 0 .. MaxAttempts
  BY BoundsAssumption DEF Reports
<1> HIDE DEF n, z, r, k
<1>5. k \in JobRow
  BY <1>1, <1>2, <1>3, <1>4 DEF JobRow, Status, Live
<1>6. /\ k.status = "running" /\ k.evidence = n /\ k.report = z /\ k.sec = r
      /\ k.rstat = "not_started" /\ k.rep = NoReport
      /\ k.exec = a /\ k.rexec = 0 /\ k.prov = g
  BY <1>1, <1>3 DEF JobRow
<1>7. Consistent(k)
  BY <1>1, <1>2, <1>6 DEF Consistent
<1>8. Adds(j, k)
  BY <1>2, <1>6 DEF Adds
<1>9. QED
  BY <1>5, <1>6, <1>7, <1>8 DEF Good, k

LEMMA RefreshGood ==
    ASSUME NEW j, Good(j), NEW a \in 0 .. MaxAttempts, NEW g \in 0 .. MaxGen
    PROVE  /\ Good(RefreshEvidence(j, a, g))
           /\ RefreshEvidence(j, a, g).exec = a /\ RefreshEvidence(j, a, g).rexec = 0
           /\ RefreshEvidence(j, a, g).prov = g /\ RefreshEvidence(j, a, g).status = "running"
           /\ Adds(j, RefreshEvidence(j, a, g))
<1> DEFINE i == Restart(j, a, g)
           r == [s \in Sections |-> [st |-> "pending", ev |-> NoEvidence]]
           k == RefreshEvidence(j, a, g)
<1>1. /\ Good(i) /\ i \in JobRow
      /\ i.exec = a /\ i.rexec = 0 /\ i.prov = g /\ i.status = "running"
  BY RestartGood DEF Good
<1>2. /\ r \in [Sections -> SectionRow]
      /\ \A s \in Sections : r[s].st = "pending" /\ r[s].ev = NoEvidence
  BY BoundsAssumption DEF SectionRow, NoEvidence, Evidence
<1>3. k = [i EXCEPT !.sec = r]
  BY Zenon DEF RefreshEvidence
<1> HIDE DEF i, r, k
<1>4. k \in JobRow
  BY <1>1, <1>2, <1>3 DEF JobRow
<1>5. /\ k.status = "running" /\ k.evidence = i.evidence /\ k.report = i.report /\ k.sec = r
      /\ k.rstat = i.rstat /\ k.rep = i.rep
      /\ k.exec = a /\ k.rexec = 0 /\ k.prov = g
  BY <1>1, <1>3 DEF JobRow
<1>6. Consistent(k)
  BY <1>1, <1>2, <1>5 DEF Good, Consistent
<1>7. Adds(j, k)
  BY <1>2, <1>5 DEF Adds
<1>8. QED
  BY <1>4, <1>5, <1>6, <1>7 DEF Good, k

LEMMA MarkEvidenceGood ==
    ASSUME NEW j, Good(j), j.status \in {"running", "paused"}
    PROVE  /\ Good(MarkRunFailed(j, "evidence")) /\ Keeps(j, MarkRunFailed(j, "evidence"), 0)
           /\ Adds(j, MarkRunFailed(j, "evidence"))
           /\ MarkRunFailed(j, "evidence").prov = j.prov
           /\ MarkRunFailed(j, "evidence").status = "failed"
           /\ \A s \in Sections : MarkRunFailed(j, "evidence").sec[s].st # "running"
<1> DEFINE e == Ended(j.evidence)
           r == [s \in Sections |-> IF j.sec[s].st = "running" THEN [j.sec[s] EXCEPT !.st = "failed"]
                                                              ELSE j.sec[s]]
           k == MarkRunFailed(j, "evidence")
<1>1. /\ j \in JobRow /\ j.sec \in [Sections -> SectionRow] /\ j.evidence \in Control
  BY DEF Good, JobRow
<1>2. e \in Control /\ e.state \in {"none", "ended"}
  BY <1>1, EndedType
<1>3. /\ r \in [Sections -> SectionRow]
      /\ \A s \in Sections : /\ r[s].st # "running" /\ r[s].ev = j.sec[s].ev
                             /\ r[s].st = "completed" => j.sec[s].st = "completed"
  BY <1>1 DEF SectionRow
<1>4. k = [j EXCEPT !.status = "failed", !.evidence = e, !.sec = r]
  BY Zenon DEF MarkRunFailed
<1> HIDE DEF e, r, k
<1>5. k \in JobRow
  BY <1>1, <1>2, <1>3, <1>4 DEF JobRow, Status
<1>6. /\ k.status = "failed" /\ k.evidence = e /\ k.report = j.report /\ k.sec = r
      /\ k.rstat = j.rstat /\ k.rep = j.rep
      /\ k.exec = j.exec /\ k.rexec = j.rexec /\ k.prov = j.prov
  BY <1>1, <1>4 DEF JobRow
<1>7. Consistent(k)
  BY <1>2, <1>6 DEF Good, Consistent
<1>8. Adds(j, k) /\ Keeps(j, k, 0)
  BY <1>3, <1>6 DEF Adds, Keeps
<1>9. QED
  BY <1>3, <1>5, <1>6, <1>7, <1>8 DEF Good, k

LEMMA MarkReportGood ==
    ASSUME NEW j, Good(j), j.status = "generating"
    PROVE  /\ Good(MarkRunFailed(j, "report")) /\ Keeps(j, MarkRunFailed(j, "report"), 0)
           /\ Adds(j, MarkRunFailed(j, "report"))
           /\ MarkRunFailed(j, "report").prov = j.prov
<1> DEFINE e == Ended(j.report)
           k == MarkRunFailed(j, "report")
<1>1. j \in JobRow /\ j.report \in Control
  BY DEF Good, JobRow
<1>2. e \in Control /\ e.state \in {"none", "ended"}
  BY <1>1, EndedType
<1>3. k = [j EXCEPT !.status = "failed", !.rstat = "failed", !.report = e]
  BY Zenon DEF MarkRunFailed
<1> HIDE DEF e, k
<1>4. k \in JobRow
  BY <1>1, <1>2, <1>3 DEF JobRow, Status
<1>5. /\ k.status = "failed" /\ k.evidence = j.evidence /\ k.report = e /\ k.sec = j.sec
      /\ k.rstat = "failed" /\ k.rep = j.rep
      /\ k.exec = j.exec /\ k.rexec = j.rexec /\ k.prov = j.prov
  BY <1>1, <1>3 DEF JobRow
<1>6. Consistent(k)
  BY <1>2, <1>5 DEF Good, Consistent, Full, Evs
<1>7. Adds(j, k) /\ Keeps(j, k, 0)
  BY <1>5 DEF Adds, Keeps
<1>8. QED
  BY <1>4, <1>5, <1>6, <1>7 DEF Good, k

LEMMA UnpauseGood ==
    ASSUME NEW j, Good(j), j.status = "paused"
    PROVE  /\ Good(Unpause(j)) /\ Keeps(j, Unpause(j), 0)
           /\ Adds(j, Unpause(j))
           /\ Unpause(j).prov = j.prov
<1>1. CASE j.evidence.late
  BY <1>1, MarkEvidenceGood DEF Unpause
<1>2. CASE ~j.evidence.late
  <2> DEFINE e == [j.evidence EXCEPT !.lease = FreshLease, !.drain = 0, !.state = "running"]
             r == Reset(j.sec, {"running", "failed"})
             k == Unpause(j)
  <2>1. /\ j \in JobRow /\ j.evidence \in Control
    BY DEF Good, JobRow
  <2>2. e \in Control /\ e.state = "running"
    BY <2>1, LeaseFresh DEF Control
  <2>3. /\ r \in [Sections -> SectionRow]
        /\ \A s \in Sections : /\ r[s].st # "failed" /\ r[s].ev = j.sec[s].ev
                               /\ r[s].st = "completed" => j.sec[s].st = "completed"
    BY <2>1, ResetType DEF JobRow, SectionRow
  <2>4. k = [j EXCEPT !.status = "running", !.evidence = e, !.sec = r]
    BY <1>2, Zenon DEF Unpause
  <2> HIDE DEF e, r, k
  <2>5. k \in JobRow
    BY <2>1, <2>2, <2>3, <2>4 DEF JobRow, Status, Live
  <2>6. /\ k.status = "running" /\ k.evidence = e /\ k.report = j.report /\ k.sec = r
        /\ k.rstat = j.rstat /\ k.rep = j.rep
        /\ k.exec = j.exec /\ k.rexec = j.rexec /\ k.prov = j.prov
    BY <2>1, <2>4 DEF JobRow
  <2>7. Consistent(k)
    BY <2>2, <2>3, <2>6 DEF Good, Consistent
  <2>8. Adds(j, k) /\ Keeps(j, k, 0)
    BY <2>3, <2>6 DEF Adds, Keeps
  <2>9. QED
    BY <2>5, <2>6, <2>7, <2>8 DEF Good, k
<1>3. QED
  BY <1>1, <1>2

LEMMA BeginReportGood ==
    ASSUME NEW j, Good(j), NEW a \in 0 .. MaxAttempts,
           j.status \in {"evidence_ready", "completed"} \/ (j.status = "failed" /\ j.rstat = "failed")
    PROVE  /\ Good(BeginReport(j, a)) /\ Keeps(j, BeginReport(j, a), a)
           /\ Adds(j, BeginReport(j, a))
           /\ BeginReport(j, a).exec = j.exec /\ BeginReport(j, a).rexec = a
           /\ BeginReport(j, a).prov = j.prov /\ BeginReport(j, a).status = "generating"
<1> DEFINE n == NewControl(a)
           k == BeginReport(j, a)
<1>1. j \in JobRow /\ n \in Control /\ n.state = "running"
  BY NewControlType DEF Good
<1>2. k = [j EXCEPT !.status = "generating", !.rstat = "generating", !.rexec = a,
                    !.report = n, !.rep = NoReport, !.review = "not_started"]
  BY Zenon DEF BeginReport
<1>3. NoReport \in Reports
  BY DEF Reports
<1> HIDE DEF n, k
<1>4. k \in JobRow
  BY <1>1, <1>2, <1>3 DEF JobRow, Status, Live
<1>5. /\ k.status = "generating" /\ k.evidence = j.evidence /\ k.report = n /\ k.sec = j.sec
      /\ k.rstat = "generating" /\ k.rep = NoReport
      /\ k.exec = j.exec /\ k.rexec = a /\ k.prov = j.prov
  BY <1>1, <1>2 DEF JobRow
<1>6. Consistent(k)
  BY <1>1, <1>5 DEF Good, Consistent, Full
<1>7. Adds(j, k) /\ Keeps(j, k, a)
  BY <1>5 DEF Adds, Keeps
<1>8. QED
  BY <1>4, <1>5, <1>6, <1>7 DEF Good, k

LEMMA PauseGood ==
    ASSUME NEW j, Good(j), j.status = "running"
    PROVE  /\ Good(PauseJob(j)) /\ Keeps(j, PauseJob(j), 0)
           /\ Adds(j, PauseJob(j))
           /\ PauseJob(j).prov = j.prov
<1> DEFINE e == [j.evidence EXCEPT !.drain = j.evidence.lease, !.lease = 0, !.state = "paused"]
           k == PauseJob(j)
<1>1. j \in JobRow /\ j.evidence \in Control
  BY DEF Good, JobRow
<1>2. e \in Control /\ e.state = "paused"
  BY <1>1 DEF Control
<1>3. k = [j EXCEPT !.status = "paused", !.evidence = e]
  BY Zenon DEF PauseJob
<1> HIDE DEF e, k
<1>4. k \in JobRow
  BY <1>1, <1>2, <1>3 DEF JobRow, Status
<1>5. /\ k.status = "paused" /\ k.evidence = e /\ k.report = j.report /\ k.sec = j.sec
      /\ k.rstat = j.rstat /\ k.rep = j.rep
      /\ k.exec = j.exec /\ k.rexec = j.rexec /\ k.prov = j.prov
  BY <1>1, <1>3 DEF JobRow
<1>6. Consistent(k)
  BY <1>2, <1>5 DEF Good, Consistent
<1>7. Adds(j, k) /\ Keeps(j, k, 0)
  BY <1>5 DEF Adds, Keeps
<1>8. QED
  BY <1>4, <1>5, <1>6, <1>7 DEF Good, k

LEMMA CancelGood ==
    ASSUME NEW j, Good(j)
    PROVE  /\ Good(CancelJob(j)) /\ Keeps(j, CancelJob(j), 0)
           /\ Adds(j, CancelJob(j))
           /\ CancelJob(j).prov = j.prov
<1> DEFINE e == Ended(j.evidence)
           p == Ended(j.report)
           r == Reset(j.sec, {"running"})
           t == IF j.rstat = "generating" THEN "failed" ELSE j.rstat
           k == CancelJob(j)
<1>1. j \in JobRow /\ j.evidence \in Control /\ j.report \in Control
  BY DEF Good, JobRow
<1>2. /\ e \in Control /\ e.state \in {"none", "ended"}
      /\ p \in Control /\ p.state \in {"none", "ended"}
  BY <1>1, EndedType
<1>3. /\ r \in [Sections -> SectionRow]
      /\ \A s \in Sections : /\ r[s].ev = j.sec[s].ev
                             /\ r[s].st = "completed" => j.sec[s].st = "completed"
  BY <1>1, ResetType DEF JobRow, SectionRow
<1>4. k = [j EXCEPT !.status = "cancelled", !.exec = 0, !.rexec = 0, !.rstat = t,
                    !.evidence = e, !.report = p, !.sec = r]
  BY <1>1, Zenon DEF CancelJob, JobRow
<1>5. t \in {"not_started", "generating", "failed", "ready", "published"}
      /\ 0 \in 0 .. MaxAttempts
  BY <1>1, BoundsAssumption DEF JobRow
<1> HIDE DEF e, p, r, t, k
<1>6. k \in JobRow
  BY <1>1, <1>2, <1>3, <1>4, <1>5 DEF JobRow, Status
<1>7. /\ k.status = "cancelled" /\ k.evidence = e /\ k.report = p /\ k.sec = r
      /\ k.rep = j.rep /\ k.exec = 0 /\ k.rexec = 0 /\ k.prov = j.prov
  BY <1>1, <1>4 DEF JobRow
<1>8. Evs(k) = Evs(j)
  BY <1>3, <1>7 DEF Evs
<1>9. Consistent(k)
  BY <1>2, <1>7, <1>8 DEF Good, Consistent
<1>10. Adds(j, k) /\ Keeps(j, k, 0)
  BY <1>3, <1>7 DEF Adds, Keeps
<1>11. QED
  BY <1>6, <1>7, <1>9, <1>10 DEF Good, k

\* One section of a running or paused job is written.
LEMMA SectionGood ==
    ASSUME NEW j, Good(j), j.status \in {"running", "paused"},
           NEW s \in Sections, NEW row \in SectionRow, row.st # "failed"
    PROVE  /\ Good([j EXCEPT !.sec[s] = row]) /\ Keeps(j, [j EXCEPT !.sec[s] = row], 0)
           /\ [j EXCEPT !.sec[s] = row].status = j.status
           /\ [j EXCEPT !.sec[s] = row].prov = j.prov
           /\ \A t \in Sections : [j EXCEPT !.sec[s] = row].sec[t] =
                                     IF t = s THEN row ELSE j.sec[t]
           /\ [j EXCEPT !.sec[s] = row].exec = j.exec
           /\ row.ev \in {j.sec[s].ev, << j.exec, j.prov >>} => Adds(j, [j EXCEPT !.sec[s] = row])
<1> DEFINE r == [j.sec EXCEPT ![s] = row]
           k == [j EXCEPT !.sec[s] = row]
<1>1. j \in JobRow /\ j.sec \in [Sections -> SectionRow]
  BY DEF Good, JobRow
<1>2. /\ r \in [Sections -> SectionRow]
      /\ \A t \in Sections : r[t] = IF t = s THEN row ELSE j.sec[t]
  BY <1>1
<1>3. k = [j EXCEPT !.sec = r]
  BY <1>1 DEF JobRow
<1> HIDE DEF r, k
<1>4. k \in JobRow
  BY <1>1, <1>2, <1>3 DEF JobRow
<1>5. /\ k.status = j.status /\ k.evidence = j.evidence /\ k.report = j.report /\ k.sec = r
      /\ k.rstat = j.rstat /\ k.rep = j.rep
      /\ k.exec = j.exec /\ k.rexec = j.rexec /\ k.prov = j.prov
  BY <1>1, <1>3 DEF JobRow
<1>6. Consistent(k)
  BY <1>2, <1>5 DEF Good, Consistent
<1>7. Keeps(j, k, 0)
  BY <1>5 DEF Keeps
<1>8. row.ev \in {j.sec[s].ev, << j.exec, j.prov >>} => Adds(j, k)
  BY <1>2, <1>5 DEF Adds
<1>9. QED
  BY <1>2, <1>4, <1>5, <1>6, <1>7, <1>8 DEF Good, k

-----------------------------------------------------------------------------
(***************************************************************************)
(* What a run, a deadline or a reviewer may do to the record: it stays     *)
(* good, gains evidence of its attempt only, and a user's word stands.     *)
(***************************************************************************)
Harmless(j, k) ==
    /\ Good(k) /\ Keeps(j, k, 0) /\ k.prov = j.prov /\ Adds(j, k)
    /\ j.status = "cancelled" => k = j
    /\ j.status = "paused" =>
          /\ k.status = "paused" \/ (j.evidence.late /\ k.status = "failed")
          /\ \A s \in Sections : k.sec[s].st = "running" => j.sec[s].st = "running"

LEMMA SameHarmless == ASSUME NEW j, Good(j) PROVE Harmless(j, j)
  BY DEF Harmless, Keeps, Adds

LEMMA EvidenceReadyGood ==
    ASSUME NEW j, Good(j), j.status = "running", AllGathered(j.sec)
    PROVE  /\ Harmless(j, EvidenceReady(j))
           /\ EvidenceReady(j).sec = j.sec
           /\ EvidenceReady(j).exec = j.exec /\ EvidenceReady(j).prov = j.prov
<1> DEFINE e == Ended(j.evidence)
           k == EvidenceReady(j)
<1>1. j \in JobRow /\ j.evidence \in Control /\ j.sec \in [Sections -> SectionRow]
  BY DEF Good, JobRow
<1>2. e \in Control /\ e.state \in {"none", "ended"}
  BY <1>1, EndedType
<1>3. k = [j EXCEPT !.status = "evidence_ready", !.evidence = e]
  BY Zenon DEF EvidenceReady
<1>4. Full(j)
  BY <1>1 DEF Good, Consistent, AllGathered, Full, SectionRow
<1> HIDE DEF e, k
<1>5. k \in JobRow
  BY <1>1, <1>2, <1>3 DEF JobRow, Status
<1>6. /\ k.status = "evidence_ready" /\ k.evidence = e /\ k.report = j.report /\ k.sec = j.sec
      /\ k.rstat = j.rstat /\ k.rep = j.rep
      /\ k.exec = j.exec /\ k.rexec = j.rexec /\ k.prov = j.prov
  BY <1>1, <1>3 DEF JobRow
<1>7. Consistent(k)
  BY <1>2, <1>4, <1>6 DEF Good, Consistent, Full
<1>8. Harmless(j, k)
  BY <1>5, <1>6, <1>7 DEF Harmless, Good, Keeps, Adds
<1>9. QED
  BY <1>6, <1>8 DEF k

\* A lease or a deadline is written, and the state of the control stays.
LEMMA ControlGood ==
    ASSUME NEW j, Good(j), j.status # "cancelled", NEW p \in Phases,
           NEW c \in Control, c.state = j[p].state
    PROVE  /\ Harmless(j, [j EXCEPT ![p] = c])
           /\ [j EXCEPT ![p] = c].status = j.status /\ [j EXCEPT ![p] = c].sec = j.sec
<1> DEFINE k == [j EXCEPT ![p] = c]
<1>1. j \in JobRow
  BY DEF Good
<1>2. /\ k \in JobRow
      /\ k.status = j.status /\ k.sec = j.sec /\ k.rstat = j.rstat /\ k.rep = j.rep
      /\ k.exec = j.exec /\ k.rexec = j.rexec /\ k.prov = j.prov
      /\ k.evidence.state = j.evidence.state /\ k.report.state = j.report.state
  <2>1. CASE p = "evidence"
    BY <1>1, <2>1 DEF JobRow
  <2>2. CASE p = "report"
    BY <1>1, <2>2 DEF JobRow
  <2>3. QED
    BY <2>1, <2>2 DEF Phases
<1> HIDE DEF k
<1>3. Evs(k) = Evs(j) /\ (Full(j) => Full(k))
  BY <1>2 DEF Evs, Full
<1>4. Consistent(k)
  BY <1>2, <1>3 DEF Good, Consistent
<1>5. Harmless(j, k)
  BY <1>2, <1>4 DEF Harmless, Good, Keeps, Adds
<1>6. QED
  BY <1>2, <1>5 DEF k

LEMMA ActivatedGood ==
    ASSUME Good(job), NEW k, k.phase \in Phases, IsLive(k)
    PROVE  Harmless(job, Activated(k))
<1> DEFINE p == k.phase
           c == [job[p] EXCEPT !.drain = job[p].lease, !.lease = FreshLease]
           i == [job EXCEPT ![p] = c]
<1>1. /\ job \in JobRow /\ job.evidence \in Control /\ job.report \in Control
      /\ job.sec \in [Sections -> SectionRow]
  BY DEF Good, JobRow
<1>2. job[p] \in Control
  BY <1>1 DEF Phases
<1>3. c \in Control /\ c.state = job[p].state
  BY <1>2, LeaseFresh DEF Control
<1>4. job.status \in {"running", "generating"} /\ (p # "report" => job.status = "running")
  BY DEF IsLive, KeyOf, Live
<1>5. i = [job EXCEPT ![p].drain = job[p].lease, ![p].lease = FreshLease]
  <2>1. CASE p = "evidence"
    BY <1>1, <2>1 DEF JobRow, Control
  <2>2. CASE p = "report"
    BY <1>1, <2>2 DEF JobRow, Control
  <2>3. QED
    BY <2>1, <2>2 DEF Phases
<1> HIDE DEF c, i
<1>6. Harmless(job, i) /\ i.status = job.status /\ i.sec = job.sec
  BY <1>3, <1>4, ControlGood DEF i
<1>7. CASE p = "report"
  BY <1>5, <1>6, <1>7 DEF Activated
<1>8. CASE p # "report"
  <2> DEFINE r == Reset(i.sec, {"running"})
             n == [i EXCEPT !.sec = r]
  <2>1. Activated(k) = n
    BY <1>5, <1>8 DEF Activated
  <2>2. /\ r \in [Sections -> SectionRow]
        /\ \A s \in Sections : /\ r[s].st # "failed" /\ r[s].ev = i.sec[s].ev
                               /\ r[s].st = "completed" => i.sec[s].st = "completed"
    BY <1>1, <1>4, <1>6, <1>8, ResetType DEF SectionRow, Good, Consistent
  <2>3. i \in JobRow /\ Consistent(i)
    BY <1>6 DEF Harmless, Good
  <2> HIDE DEF r, n
  <2>4. n \in JobRow
    BY <2>2, <2>3 DEF JobRow, n
  <2>5. /\ n.status = "running" /\ n.evidence = i.evidence /\ n.report = i.report /\ n.sec = r
        /\ n.rstat = i.rstat /\ n.rep = i.rep
        /\ n.exec = i.exec /\ n.rexec = i.rexec /\ n.prov = i.prov
    BY <1>4, <1>6, <1>8, <2>3 DEF JobRow, n
  <2>6. Consistent(n)
    BY <2>2, <2>3, <2>5, <1>4, <1>6, <1>8 DEF Consistent
  <2>7. Adds(job, n)
    BY <1>6, <2>2, <2>5 DEF Adds
  <2>8. Keeps(job, n, 0)
    BY <1>6, <2>5 DEF Harmless, Keeps
  <2>9. Harmless(job, n)
    BY <1>4, <1>6, <1>8, <2>4, <2>5, <2>6, <2>7, <2>8 DEF Harmless, Good
  <2>10. QED
    BY <2>1, <2>9
<1>9. QED
  BY <1>7, <1>8

-----------------------------------------------------------------------------
(* The inductive invariant. *)

\* No attempt id is known before it was made.
AttemptInv ==
    /\ job.exec <= last /\ job.rexec <= last
    /\ \A a \in Attempts : /\ disp[a].phase # "none" => a <= last
                           /\ disp[a].st # "idle" => disp[a].phase # "none"
    /\ \A w \in Runners : /\ run[w].key.att <= last
                          /\ run[w].pc # "idle" => run[w].key.att # 0
    /\ \A c \in call : c.key.att <= last

\* A run of the job's attempt works on the snapshot of the job, and a report
\* that is about to be saved is of the evidence of the job.
Follows(r, j) ==
    /\ r.pc \in {"sec", "ready"} /\ j.exec = r.key.att => r.gen = j.prov
    /\ r.pc = "built" /\ j.status = "generating" /\ j.rexec = r.key.att => r.src = Evs(j)

Shape(r) ==
    /\ r.pc \in {"loop", "sec", "ready"} => r.key.phase = "evidence"
    /\ r.pc \in {"report", "built"} => r.key.phase = "report"
    /\ r.pc \in {"sec", "ready"} => r.sec \in Sections

RunInv == \A w \in Runners : Shape(run[w]) /\ Follows(run[w], job)

RInv == TypeOK /\ Consistent(job) /\ AttemptInv /\ RunInv

-----------------------------------------------------------------------------
(* The rows of the other variables. *)

DispRow == [st : {"idle", "queued", "running"}, phase : Phases \union {"none"},
            owner : Runners \union {None}, lapsed : BOOLEAN]

RunRow == [pc : {"idle", "claimed", "loop", "sec", "ready", "report",
                 "built", "drop", "return", "end"},
           key : Keys, lease : Nat, sec : 0 .. NSections,
           gen : 0 .. MaxGen, src : Reports, stop : {"no", "paused", "stop"}]

CallRow == [op : {"none", "start", "resume", "compile", "pause", "cancel"},
            pc : {"act", "enqueue", "cancel"}, saw : BOOLEAN,
            prov : 0 .. MaxGen, key : Keys]

LEMMA Rows ==
    TypeOK <=> /\ job \in JobRow
               /\ disp \in [Attempts -> DispRow]
               /\ run \in [Runners -> RunRow]
               /\ call \subseteq CallRow
               /\ gen \in Gens /\ last \in 0 .. MaxAttempts /\ calls \in Nat /\ faults \in Nat
  BY Zenon DEF TypeOK, JobRow, SectionRow, DispRow, RunRow, CallRow

LEMMA RGood == RInv => Good(job)
  BY Rows, Zenon DEF RInv, Good

-----------------------------------------------------------------------------
(* What a run writes. *)

LEMMA MarkHarmless ==
    ASSUME RInv, NEW w \in Runners, Current(w)
    PROVE  Harmless(job, MarkRunFailed(job, run[w].key.phase))
<1>1. Good(job) /\ run[w] \in RunRow
  BY RGood, Rows DEF RInv
<1>2. run[w].key.phase \in Phases
  BY <1>1 DEF RunRow, Keys
<1>3. CASE run[w].key.phase = "evidence"
  <2>1. job.status = "running"
    BY <1>1, <1>3 DEF Current, Good, Consistent
  <2>2. QED
    BY <1>1, <1>3, <2>1, MarkEvidenceGood DEF Harmless
<1>4. CASE run[w].key.phase = "report"
  <2>1. job.status = "generating"
    BY <1>1, <1>4 DEF Current, Good, Consistent
  <2>2. QED
    BY <1>1, <1>4, <2>1, MarkReportGood DEF Harmless
<1>5. QED
  BY <1>2, <1>3, <1>4 DEF Phases

LEMMA CompleteSectionHarmless ==
    ASSUME RInv, NEW w \in Runners, run[w].pc = "ready"
    PROVE  Harmless(job, CompleteSection(w))
<1> DEFINE s == run[w].sec
           row == [st |-> "completed", ev |-> << run[w].key.att, run[w].gen >>]
           done == [job EXCEPT !.sec[s] = row]
<1>1. /\ Good(job) /\ run[w] \in RunRow /\ s \in Sections
  BY RGood, Rows DEF RInv, RunInv, Shape
<1>2. row \in SectionRow
  BY <1>1 DEF SectionRow, Evidence, RunRow, Keys
<1>3. CASE ~Holds(w)
  BY <1>1, <1>3, SameHarmless DEF CompleteSection
<1>4. CASE Holds(w) /\ job.evidence.late
  <2>1. job.status \in {"running", "paused"}
    BY <1>4 DEF Holds
  <2>2. CompleteSection(w) = MarkRunFailed(job, "evidence")
    BY <1>4 DEF CompleteSection
  <2>3. Harmless(job, MarkRunFailed(job, "evidence"))
    BY <1>1, <1>4, <2>1, MarkEvidenceGood DEF Harmless
  <2>4. QED
    BY <2>2, <2>3
<1>5. CASE Holds(w) /\ ~job.evidence.late /\ job.sec[s].st # "running"
  BY <1>1, <1>5, SameHarmless DEF CompleteSection
<1>6. CASE Holds(w) /\ ~job.evidence.late /\ job.sec[s].st = "running"
  <2>1. job.status \in {"running", "paused"} /\ job.exec = run[w].key.att
    BY <1>6 DEF Holds
  <2>2. row.ev = << job.exec, job.prov >> /\ row.st = "completed"
    BY <1>1, <2>1 DEF RInv, RunInv, Follows
  <2>3. CompleteSection(w) = IF job.status = "running" /\ AllGathered(done.sec)
                             THEN EvidenceReady(done) ELSE done
    BY <1>6 DEF CompleteSection
  <2> HIDE DEF row, s
  <2>4. /\ Good(done) /\ Keeps(job, done, 0) /\ done.status = job.status
        /\ done.prov = job.prov /\ done.exec = job.exec
        /\ \A t \in Sections : done.sec[t] = IF t = s THEN row ELSE job.sec[t]
        /\ Adds(job, done)
    BY <1>1, <1>2, <2>1, <2>2, SectionGood
  <2> HIDE DEF done
  <2>5. Harmless(job, done)
    BY <2>1, <2>2, <2>4 DEF Harmless
  <2>6. ASSUME job.status = "running", AllGathered(done.sec)
        PROVE  Harmless(job, EvidenceReady(done))
    <3>1. /\ Harmless(done, EvidenceReady(done))
          /\ EvidenceReady(done).sec = done.sec
          /\ EvidenceReady(done).exec = done.exec /\ EvidenceReady(done).prov = done.prov
      BY <2>4, <2>6, EvidenceReadyGood
    <3>2. Keeps(job, EvidenceReady(done), 0)
      BY <2>4, <2>6, <3>1 DEF Harmless, Keeps
    <3>3. Adds(job, EvidenceReady(done))
      BY <2>4, <3>1 DEF Adds
    <3>4. QED
      BY <2>4, <2>6, <3>1, <3>2, <3>3 DEF Harmless
  <2>7. QED
    BY <2>3, <2>5, <2>6
<1>7. QED
  BY <1>3, <1>4, <1>5, <1>6

LEMMA FailSectionHarmless ==
    ASSUME RInv, NEW w \in Runners, run[w].pc \in {"sec", "ready"}
    PROVE  Harmless(job, FailSection(w))
<1> DEFINE s == run[w].sec
<1>1. /\ Good(job) /\ run[w] \in RunRow /\ s \in Sections
      /\ job \in JobRow /\ job.sec \in [Sections -> SectionRow] /\ job.evidence \in Control
  BY RGood, Rows DEF RInv, RunInv, Shape, JobRow
<1>2. CASE ~Holds(w) \/ job.sec[s].st # "running"
  BY <1>1, <1>2, SameHarmless DEF FailSection
<1>3. CASE Holds(w) /\ job.sec[s].st = "running" /\ job.status = "paused"
  <2> DEFINE row == [job.sec[s] EXCEPT !.st = "pending"]
             k == [job EXCEPT !.sec[s] = row]
  <2>1. row \in SectionRow /\ row.st = "pending" /\ row.ev = job.sec[s].ev
    BY <1>1 DEF SectionRow
  <2>2. FailSection(w) = k
    BY <1>1, <1>3 DEF FailSection, JobRow
  <2> HIDE DEF row, s
  <2>3. /\ Good(k) /\ Keeps(job, k, 0) /\ k.status = job.status
        /\ k.prov = job.prov
        /\ \A t \in Sections : k.sec[t] = IF t = s THEN row ELSE job.sec[t]
        /\ Adds(job, k)
    BY <1>1, <1>3, <2>1, SectionGood
  <2> HIDE DEF k
  <2>4. QED
    BY <1>3, <2>1, <2>2, <2>3 DEF Harmless
<1>4. CASE Holds(w) /\ job.sec[s].st = "running" /\ job.status # "paused"
  <2> DEFINE r == [job.sec EXCEPT ![s].st = "failed"]
             e == Ended(job.evidence)
             k == [job EXCEPT !.sec = r, !.status = "failed", !.evidence = e]
  <2>1. job.status = "running"
    BY <1>4 DEF Holds
  <2>2. /\ r \in [Sections -> SectionRow]
        /\ \A t \in Sections : /\ r[t].ev = job.sec[t].ev
                               /\ r[t].st = "completed" => job.sec[t].st = "completed"
    BY <1>1 DEF SectionRow
  <2>3. e \in Control /\ e.state \in {"none", "ended"}
    BY <1>1, EndedType
  <2>4. FailSection(w) = k
    BY <1>1, <1>4 DEF FailSection, JobRow
  <2> HIDE DEF r, e, k
  <2>5. k \in JobRow
    BY <1>1, <2>2, <2>3 DEF JobRow, Status, k
  <2>6. /\ k.status = "failed" /\ k.evidence = e /\ k.report = job.report /\ k.sec = r
        /\ k.rstat = job.rstat /\ k.rep = job.rep
        /\ k.exec = job.exec /\ k.rexec = job.rexec /\ k.prov = job.prov
    BY <1>1 DEF JobRow, k
  <2>7. Consistent(k)
    BY <1>1, <2>1, <2>3, <2>6 DEF Good, Consistent
  <2>8. Adds(job, k) /\ Keeps(job, k, 0)
    BY <2>2, <2>6 DEF Adds, Keeps
  <2>9. QED
    BY <2>1, <2>4, <2>5, <2>6, <2>7, <2>8 DEF Harmless, Good
<1>5. QED
  BY <1>2, <1>3, <1>4

LEMMA FailReportHarmless ==
    ASSUME RInv, NEW w \in Runners
    PROVE  Harmless(job, FailReport(w))
  BY RGood, SameHarmless, MarkReportGood DEF FailReport, Harmless

LEMMA CompleteReportHarmless ==
    ASSUME RInv, NEW w \in Runners, run[w].pc = "built"
    PROVE  Harmless(job, CompleteReport(w))
<1>1. /\ Good(job) /\ run[w] \in RunRow
      /\ job \in JobRow /\ job.report \in Control
  BY RGood, Rows DEF RInv, JobRow
<1>2. CASE job.status # "generating" \/ job.rexec # run[w].key.att \/ ~Current(w)
  BY <1>1, <1>2, SameHarmless DEF CompleteReport
<1>3. CASE job.status = "generating" /\ job.rexec = run[w].key.att /\ Current(w) /\ job.report.late
  <2>1. Harmless(job, MarkRunFailed(job, "report"))
    BY <1>1, <1>3, MarkReportGood DEF Harmless
  <2>2. QED
    BY <1>3, <2>1 DEF CompleteReport
<1>4. CASE job.status = "generating" /\ job.rexec = run[w].key.att /\ Current(w) /\ ~job.report.late
  <2> DEFINE e == Ended(job.report)
             src == run[w].src
             k == [job EXCEPT !.status = "completed", !.rstat = "ready", !.rep = src,
                              !.review = "pending", !.report = e]
  <2>1. CompleteReport(w) = k
    BY <1>4, Zenon DEF CompleteReport
  <2>2. src = Evs(job) /\ src \in Reports
    BY <1>1, <1>4 DEF RInv, RunInv, Follows, RunRow
  <2>3. e \in Control /\ e.state \in {"none", "ended"}
    BY <1>1, EndedType
  <2> HIDE DEF e, src, k
  <2>4. k \in JobRow
    BY <1>1, <2>2, <2>3 DEF JobRow, Status, k
  <2>5. /\ k.status = "completed" /\ k.evidence = job.evidence /\ k.report = e /\ k.sec = job.sec
        /\ k.rstat = "ready" /\ k.rep = src
        /\ k.exec = job.exec /\ k.rexec = job.rexec /\ k.prov = job.prov
    BY <1>1 DEF JobRow, k
  <2>6. Consistent(k)
    BY <1>1, <1>4, <2>2, <2>3, <2>5 DEF Good, Consistent, Full, Evs
  <2>7. Adds(job, k) /\ Keeps(job, k, 0)
    BY <2>5 DEF Adds, Keeps
  <2>8. QED
    BY <1>4, <2>1, <2>4, <2>5, <2>6, <2>7 DEF Harmless, Good
<1>5. QED
  BY <1>2, <1>3, <1>4

\* The section a run claims is the least of those that are pending.
LEMMA LeastSection ==
    ASSUME NEW S \in SUBSET Sections, S # {}
    PROVE  (CHOOSE s \in S : \A t \in S : s <= t) \in S
<1> DEFINE R == {ss \in Nat \X Nat : ss[1] < ss[2]}
<1>1. S \in SUBSET Nat
  BY BoundsAssumption DEF Sections
<1>2. \E m \in S : \A t \in S : << t, m >> \notin OpToRel(<, Nat)
  BY <1>1, NatLessThanWellFounded, WFMin
<1>3. OpToRel(<, Nat) = R
  BY DEF OpToRel
<1>4. \A x, y \in Nat : x < y => << x, y >> \in R
  OBVIOUS
<1> HIDE DEF R
<1>5. PICK m \in S : \A t \in S : << t, m >> \notin R
  BY <1>2, <1>3
<1>6. m \in Nat /\ \A t \in S : t \in Nat /\ ~(t < m)
  BY <1>1, <1>4, <1>5
<1>7. \A t \in S : m <= t
  BY <1>6
<1>8. QED
  BY <1>7

LEMMA RunStepHarmless ==
    ASSUME RInv, NEW w \in Runners, RunStep(w)
    PROVE  Harmless(job, job')
<1>1. /\ Good(job) /\ run[w] \in RunRow /\ run[w].key.phase \in Phases
      /\ Shape(run[w]) /\ job \in JobRow /\ job.sec \in [Sections -> SectionRow]
  BY RGood, Rows DEF RInv, RunInv, RunRow, Keys, JobRow
<1>2. Harmless(job, job)
  BY <1>1, SameHarmless
<1>3. CASE Activate(w)
  BY <1>1, <1>2, <1>3, ActivatedGood DEF Activate
<1>4. CASE HandBack(w) \/ Forget(w) \/ Stop(w) \/ Retrieve(w) \/ BuildReport(w)
  BY <1>2, <1>4 DEF HandBack, Forget, Stop, Retrieve, BuildReport
<1>5. CASE Expire(w) \/ OverBudget(w)
  BY <1>5, MarkHarmless DEF Expire, OverBudget, Overrun, Stopped
<1>6. CASE RunFails(w)
  <2>1. run[w].key.phase = "evidence"
    BY <1>1, <1>6 DEF RunFails, Shape
  <2>2. QED
    BY <1>2, <1>6, <2>1, MarkHarmless DEF RunFails
<1>7. CASE ClaimNextSection(w)
  <2> DEFINE pending == {s \in Sections : job.sec[s].st = "pending"}
             s == CHOOSE s \in pending : \A t \in pending : s <= t
  <2>1. run[w].key.phase = "evidence" /\ Current(w)
    BY <1>1, <1>7 DEF ClaimNextSection, Shape, Stopped
  <2>2. job.status = "running"
    BY <1>1, <2>1 DEF Current, Good, Consistent
  <2>3. CASE pending = {}
    BY <1>1, <1>2, <1>7, <2>2, <2>3, EvidenceReadyGood DEF ClaimNextSection
  <2>4. CASE pending # {}
    <3>1. s \in pending
      <4>1. pending \in SUBSET Sections
        OBVIOUS
      <4> HIDE DEF pending
      <4>2. QED
        BY <2>4, <4>1, LeastSection
    <3> DEFINE row == [job.sec[s] EXCEPT !.st = "running"]
               k == [job EXCEPT !.sec[s] = row]
    <3>2. job' = k
      <4>1. job' = [job EXCEPT !.sec[s].st = "running"]
        BY <1>7, <2>4 DEF ClaimNextSection
      <4> HIDE DEF s, pending
      <4>2. QED
        BY <4>1, <1>1 DEF JobRow
    <3>3. s \in Sections /\ job.sec[s].st = "pending"
      BY <3>1
    <3>4. row \in SectionRow /\ row.st = "running" /\ row.ev = job.sec[s].ev
      BY <1>1, <3>3 DEF SectionRow
    <3> HIDE DEF row, s, pending
    <3>5. /\ Good(k) /\ Keeps(job, k, 0) /\ k.status = job.status
          /\ k.prov = job.prov
          /\ Adds(job, k)
      BY <1>1, <2>2, <3>3, <3>4, SectionGood
    <3> HIDE DEF k
    <3>6. QED
      BY <2>2, <3>2, <3>5 DEF Harmless
  <2>5. QED
    BY <2>3, <2>4
<1>8. CASE RetrieveFails(w)
  BY <1>8, FailSectionHarmless DEF RetrieveFails
<1>9. CASE Commit(w)
  BY <1>9, CompleteSectionHarmless DEF Commit
<1>10. CASE BuildFails(w)
  BY <1>10, FailReportHarmless DEF BuildFails
<1>11. CASE CommitReport(w)
  BY <1>11, CompleteReportHarmless DEF CommitReport
<1>12. QED
  BY <1>3, <1>4, <1>5, <1>6, <1>7, <1>8, <1>9, <1>10, <1>11 DEF RunStep

-----------------------------------------------------------------------------
(* The invariant, variable by variable. *)

DispOk(d, a, l) ==
    /\ d \in DispRow
    /\ d.phase # "none" => a <= l
    /\ d.st # "idle" => d.phase # "none"

RunOk(r, j, l) ==
    /\ r \in RunRow
    /\ r.key.att <= l /\ (r.pc # "idle" => r.key.att # 0)
    /\ Shape(r) /\ Follows(r, j)

CallOk(c, l) == c \in CallRow /\ c.key.att <= l

JobPart == Good(job) /\ job.exec <= last /\ job.rexec <= last
Counters == gen \in Gens /\ last \in 0 .. MaxAttempts /\ calls \in Nat /\ faults \in Nat
DispPart == disp \in [Attempts -> DispRow] /\ \A a \in Attempts : DispOk(disp[a], a, last)
RunPart == run \in [Runners -> RunRow] /\ \A w \in Runners : RunOk(run[w], job, last)
CallPart == \A c \in call : CallOk(c, last)

LEMMA Parts == RInv <=> JobPart /\ Counters /\ DispPart /\ RunPart /\ CallPart
<1>1. ASSUME RInv PROVE JobPart /\ Counters /\ DispPart /\ RunPart /\ CallPart
  <2>1. /\ job \in JobRow /\ disp \in [Attempts -> DispRow] /\ run \in [Runners -> RunRow]
        /\ call \subseteq CallRow /\ Counters
    BY <1>1, Rows DEF RInv, Counters
  <2>2. JobPart
    BY <1>1, <2>1 DEF RInv, AttemptInv, JobPart, Good
  <2>3. DispPart
    BY <1>1, <2>1 DEF RInv, AttemptInv, DispPart, DispOk
  <2>4. RunPart
    BY <1>1, <2>1 DEF RInv, AttemptInv, RunInv, RunPart, RunOk
  <2>5. CallPart
    BY <1>1, <2>1 DEF RInv, AttemptInv, CallPart, CallOk
  <2>6. QED
    BY <2>1, <2>2, <2>3, <2>4, <2>5
<1>2. ASSUME JobPart, Counters, DispPart, RunPart, CallPart PROVE RInv
  <2>1. TypeOK
    BY <1>2, Rows DEF JobPart, Good, Counters, DispPart, RunPart, CallPart, CallOk
  <2>2. AttemptInv
    BY <1>2 DEF AttemptInv, JobPart, DispPart, DispOk, RunPart, RunOk, CallPart, CallOk
  <2>3. RunInv /\ Consistent(job)
    BY <1>2 DEF RunInv, JobPart, Good, RunPart, RunOk, CallPart, CallOk
  <2>4. QED
    BY <2>1, <2>2, <2>3 DEF RInv
<1>3. QED
  BY <1>1, <1>2

(***************************************************************************)
(* What every step does to the record.  Only a new attempt changes the     *)
(* snapshot that the runs of the present one rely on.                      *)
(***************************************************************************)
Moves ==
    /\ Good(job') /\ Counters'
    /\ \/ last' = last /\ Keeps(job, job', 0)
       \/ last' = last + 1 /\ Keeps(job, job', last + 1)
    /\ Adds(job, job')

LEMMA HarmlessMoves ==
    ASSUME RInv, Harmless(job, job'), Counters', last' = last, gen' = gen
    PROVE  Moves
  BY DEF Moves, Harmless

\* What is left as it is stays good.
LEMMA MovesKeep ==
    ASSUME RInv, Moves
    PROVE  /\ JobPart' /\ Counters' /\ last <= last'
           /\ \A w \in Runners : RunOk(run[w], job', last')
           /\ \A a \in Attempts : DispOk(disp[a], a, last')
           /\ \A c \in call : CallOk(c, last')
           /\ disp' = disp => DispPart'
           /\ run' = run => RunPart'
           /\ call' = call => CallPart'
<1>1. JobPart /\ Counters /\ DispPart /\ RunPart /\ CallPart
  BY Parts
<1>2. /\ last \in Nat /\ last' \in Nat /\ last <= last' /\ MaxAttempts \in Nat /\ MaxGen \in Nat
      /\ last' = last \/ last' = last + 1
  BY <1>1, BoundsAssumption DEF Counters, Moves
<1>3. /\ job \in JobRow /\ job' \in JobRow
      /\ job.exec \in Nat /\ job.rexec \in Nat
      /\ job.exec <= last /\ job.rexec <= last
  BY <1>1 DEF JobPart, Good, Moves, JobRow
<1>4. JobPart'
  BY <1>2, <1>3 DEF JobPart, Moves, Keeps
<1>5. ASSUME NEW w \in Runners PROVE RunOk(run[w], job', last')
  <2> DEFINE r == run[w]
  <2>1. /\ RunOk(r, job, last) /\ r \in RunRow /\ r.key.att \in Nat /\ r.key.att <= last
    BY <1>1 DEF RunPart, RunOk, RunRow, Keys
  <2> HIDE DEF r
  <2>2. ASSUME r.pc \in {"sec", "ready"}, job'.exec = r.key.att PROVE r.gen = job'.prov
    <3>1. r.key.att # 0
      BY <2>1, <2>2 DEF RunOk
    <3>2. job.exec = r.key.att /\ job'.prov = job.prov
      BY <1>2, <2>1, <2>2, <3>1 DEF Moves, Keeps
    <3>3. QED
      BY <2>1, <2>2, <3>2 DEF RunOk, Follows
  <2>3. ASSUME r.pc = "built", job'.status = "generating", job'.rexec = r.key.att
        PROVE  r.src = Evs(job')
    <3>1. r.key.att # 0
      BY <2>1, <2>3 DEF RunOk
    <3>2. /\ job.status = "generating" /\ job.rexec = r.key.att
          /\ \A s \in Sections : job'.sec[s].ev = job.sec[s].ev
      BY <1>2, <2>1, <2>3, <3>1 DEF Moves, Keeps
    <3>3. QED
      BY <2>1, <2>3, <3>2 DEF RunOk, Follows, Evs
  <2>4. QED
    BY <1>2, <2>1, <2>2, <2>3 DEF RunOk, Follows, r
<1>6. ASSUME NEW a \in Attempts PROVE DispOk(disp[a], a, last')
  BY <1>1, <1>2 DEF DispPart, DispOk, Attempts
<1>7. ASSUME NEW c \in call PROVE CallOk(c, last')
  <2>1. CallOk(c, last) /\ c.key.att \in Nat
    BY <1>1 DEF CallPart, CallOk, CallRow, Keys
  <2>2. QED
    BY <1>2, <2>1 DEF CallOk
<1>8. Counters'
  BY DEF Moves
<1>9. disp' = disp => DispPart'
  BY <1>1, <1>6 DEF DispPart
<1>10. run' = run => RunPart'
  BY <1>1, <1>5 DEF RunPart
<1>11. call' = call => CallPart'
  BY <1>7 DEF CallPart
<1>12. QED
  BY <1>2, <1>4, <1>5, <1>6, <1>7, <1>8, <1>9, <1>10, <1>11

-----------------------------------------------------------------------------
(* Pieces of actions. *)

LEMMA EnqueueKeeps ==
    ASSUME RInv, Moves, NEW k \in Keys, k.att <= last', Enqueue(k)
    PROVE  DispPart'
<1>1. /\ disp \in [Attempts -> DispRow] /\ \A a \in Attempts : DispOk(disp[a], a, last')
  BY Parts, MovesKeep DEF DispPart
<1> DEFINE row == [st |-> "queued", phase |-> k.phase, owner |-> None, lapsed |-> FALSE]
<1>2. row \in DispRow /\ row.phase = k.phase /\ row.phase # "none"
  BY DEF DispRow, Keys, Phases
<1>3. disp' = disp \/ disp' = [disp EXCEPT ![k.att] = row]
  BY DEF Enqueue
<1>4. \A a \in Attempts : a = k.att => DispOk(row, a, last')
  BY <1>2 DEF DispOk
<1> HIDE DEF row
<1>5. QED
  BY <1>1, <1>2, <1>3, <1>4 DEF DispPart

LEMMA ReleaseKeeps ==
    ASSUME RInv, Moves, NEW w \in Runners, NEW st \in {"idle", "queued"}, Release(w, st)
    PROVE  DispPart'
<1>1. /\ disp \in [Attempts -> DispRow] /\ \A a \in Attempts : DispOk(disp[a], a, last')
  BY Parts, MovesKeep DEF DispPart
<1> DEFINE k == run[w].key.att
           row(d) == [d EXCEPT !.st = st, !.owner = None, !.lapsed = FALSE]
<1>2. \A d \in DispRow : row(d) \in DispRow /\ row(d).phase = d.phase /\ row(d).st = st
  BY DEF DispRow
<1>3. CASE ~Owns(w)
  BY <1>1, <1>3 DEF Release, DispPart
<1>4. CASE Owns(w)
  <2>1. disp' = [disp EXCEPT ![k].st = st, ![k].owner = None, ![k].lapsed = FALSE]
    BY <1>4 DEF Release
  <2>2. /\ DOMAIN disp' = Attempts /\ disp' = [a \in Attempts |-> disp'[a]]
        /\ \A a \in Attempts : disp'[a] = IF a = k THEN row(disp[a]) ELSE disp[a]
    BY <1>1, <2>1
  <2>3. disp[k].st = "running"
    BY <1>4 DEF Owns
  <2> HIDE DEF row, k
  <2>4. \A a \in Attempts : DispOk(disp'[a], a, last')
    BY <1>1, <1>2, <2>2, <2>3 DEF DispOk
  <2>5. disp' \in [Attempts -> DispRow]
    BY <2>2, <2>4 DEF DispOk
  <2>6. QED
    BY <2>4, <2>5 DEF DispPart
<1>5. QED
  BY <1>3, <1>4

LEMMA RunKeeps ==
    ASSUME RInv, Moves, NEW w \in Runners, NEW r, RunOk(r, job', last'),
           run' = [run EXCEPT ![w] = r]
    PROVE  RunPart'
<1>1. run \in [Runners -> RunRow] /\ \A v \in Runners : RunOk(run[v], job', last')
  BY Parts, MovesKeep DEF RunPart
<1>2. r \in RunRow
  BY DEF RunOk
<1>3. run' \in [Runners -> RunRow]
  BY <1>1, <1>2
<1>4. \A v \in Runners : run'[v] = IF v = w THEN r ELSE run[v]
  BY <1>1
<1>5. QED
  BY <1>1, <1>3, <1>4 DEF RunPart

LEMMA IdleOk ==
    ASSUME RInv, Moves
    PROVE  Idle \in RunRow /\ RunOk(Idle, job', last')
<1>1. Idle \in RunRow
  BY BoundsAssumption DEF Idle, RunRow, NoKey, Keys, Phases, Reports
<1>2. last' \in Nat
  BY DEF Moves, Counters
<1>3. Idle.pc = "idle" /\ Idle.key.att = 0
  BY DEF Idle, NoKey
<1>4. QED
  BY <1>1, <1>2, <1>3, 0 <= last' DEF RunOk, Shape, Follows

LEMMA LeaveKeeps ==
    ASSUME RInv, Moves, NEW w \in Runners, run[w].pc # "idle",
           NEW pc \in {"end", "drop", "return"}, Leave(w, pc)
    PROVE  RunPart'
<1> DEFINE r == [Idle EXCEPT !.pc = pc, !.key = run[w].key]
<1>1. RunOk(run[w], job', last') /\ run[w] \in RunRow
  BY MovesKeep DEF RunOk
<1>2. Idle \in RunRow
  BY IdleOk
<1>3. r \in RunRow /\ r.pc = pc /\ r.key = run[w].key
  BY <1>1, <1>2 DEF RunRow
<1> HIDE DEF r
<1>4. RunOk(r, job', last')
  BY <1>1, <1>3 DEF RunOk, Shape, Follows
<1>5. QED
  BY <1>4, RunKeeps DEF Leave, r

LEMMA BecomesKeeps ==
    ASSUME RInv, Moves, NEW c, NEW C, Becomes(c, C),
           \A d \in C : CallOk(d, last')
    PROVE  CallPart'
  BY MovesKeep DEF CallPart, Becomes

LEMMA NoCallRow ==
    /\ NoKey \in Keys /\ NoKey.att = 0
    /\ NoCall.prov = 0 /\ NoCall.saw = FALSE /\ NoCall.key = NoKey /\ NoCall.op = "none"
    /\ \A op \in {"none", "start", "resume", "compile", "pause", "cancel"},
          pc \in {"act", "enqueue", "cancel"}, k \in Keys :
          /\ [NoCall EXCEPT !.pc = pc, !.key = k] \in CallRow
          /\ [NoCall EXCEPT !.op = op, !.pc = pc] \in CallRow
<1>1. NoKey \in Keys /\ NoKey.att = 0
  BY BoundsAssumption DEF NoKey, Keys, Phases
<1>2. /\ NoCall.prov = 0 /\ NoCall.saw = FALSE /\ NoCall.key = NoKey /\ NoCall.op = "none"
      /\ 0 \in 0 .. MaxGen
  BY BoundsAssumption DEF NoCall
<1>3. ASSUME NEW op \in {"none", "start", "resume", "compile", "pause", "cancel"},
             NEW pc \in {"act", "enqueue", "cancel"}, NEW k \in Keys
      PROVE  /\ [NoCall EXCEPT !.pc = pc, !.key = k] \in CallRow
             /\ [NoCall EXCEPT !.op = op, !.pc = pc] \in CallRow
  BY <1>1, <1>2 DEF NoCall, CallRow
<1>4. QED
  BY <1>1, <1>2, <1>3

LEMMA KeyOfType ==
    ASSUME RInv, Moves
    PROVE  KeyOf(job') \in Keys /\ KeyOf(job').att <= last'
  BY MovesKeep DEF JobPart, Good, JobRow, KeyOf, Keys, Phases

LEMMA TransitionKeeps ==
    ASSUME RInv, Moves, NEW c, NEW j, Transition(c, j)
    PROVE  CallPart'
<1> DEFINE k == KeyOf(job')
           d == [NoCall EXCEPT !.pc = "enqueue", !.key = k]
<1>1. k \in Keys /\ k.att <= last'
  BY KeyOfType
<1>2. Becomes(c, {}) \/ Becomes(c, {d})
  BY DEF Transition
<1> HIDE DEF k
<1>3. d \in CallRow /\ d.op = "none" /\ d.key = k
  BY <1>1, NoCallRow DEF NoCall
<1> HIDE DEF d
<1>4. CallOk(d, last')
  BY <1>1, <1>3 DEF CallOk
<1>5. QED
  BY <1>2, <1>4, BecomesKeeps

-----------------------------------------------------------------------------
(* The calls of users. *)

\* The numbers that the calls below pass on.
LEMMA Numbers ==
    ASSUME RInv
    PROVE  /\ gen \in Nat /\ gen \in 0 .. MaxGen /\ last \in Nat
           /\ calls \in Nat /\ faults \in Nat
           /\ last < MaxAttempts => last + 1 \in 0 .. MaxAttempts
           /\ Good(job) /\ job \in JobRow /\ gen \in Gens /\ last \in 0 .. MaxAttempts
  BY Parts, BoundsAssumption DEF JobPart, Counters, Gens, Good, JobRow

LEMMA SameMoves ==
    ASSUME RInv, job' = job, last' = last, gen' = gen, calls' \in Nat, faults' \in Nat
    PROVE  Moves
<1>1. Counters'
  BY Numbers DEF Counters
<1>2. Harmless(job, job')
  BY Numbers, SameHarmless
<1>3. QED
  BY <1>1, <1>2, HarmlessMoves

LEMMA RefuseKeeps ==
    ASSUME RInv, NEW c, Refuse(c), gen' = gen, calls' \in Nat, faults' \in Nat
    PROVE  Moves /\ CallPart'
<1>1. Moves
  BY SameMoves DEF Refuse
<1>2. CallPart'
  BY <1>1, BecomesKeeps DEF Refuse
<1>3. QED
  BY <1>1, <1>2

\* A transition that makes no attempt.
LEMMA PlainMoves ==
    ASSUME RInv, Good(job'), Keeps(job, job', 0), job'.prov = job.prov,
           Adds(job, job'),
           last' = last, gen' = gen, calls' \in Nat, faults' \in Nat
    PROVE  Moves
  BY Numbers DEF Moves, Counters

\* A transition to a new attempt.
LEMMA AttemptMoves ==
    ASSUME RInv, NewAttempt, Good(job'), Keeps(job, job', last + 1),
           Adds(job, job'),
           gen' = gen, calls' \in Nat, faults' \in Nat
    PROVE  Moves
  BY Numbers DEF Moves, Counters, NewAttempt

LEMMA DoRefreshKeeps ==
    ASSUME RInv, NEW c, DoRefresh(c), gen' = gen, calls' \in Nat, faults' \in Nat
    PROVE  Moves /\ CallPart'
<1>1. CASE ~CanRefresh /\ Refuse(c)
  BY <1>1, RefuseKeeps
<1>2. CASE CanRefresh /\ NewAttempt /\ Transition(c, RefreshEvidence(job, last + 1, gen))
  <2>1. last + 1 \in 0 .. MaxAttempts /\ gen \in 0 .. MaxGen /\ Good(job)
    BY <1>2, Numbers DEF NewAttempt
  <2>2. job' = RefreshEvidence(job, last + 1, gen)
    BY <1>2 DEF Transition
  <2>3. /\ Good(job') /\ job'.exec = last + 1 /\ job'.rexec = 0 /\ job'.prov = gen
        /\ job'.status = "running" /\ Adds(job, job')
    BY <2>1, <2>2, RefreshGood
  <2>4. Keeps(job, job', last + 1)
    BY <2>3 DEF Keeps
  <2>5. Moves
    BY <1>2, <2>3, <2>4, AttemptMoves
  <2>6. QED
    BY <1>2, <2>5, TransitionKeeps
<1>3. QED
  BY <1>1, <1>2 DEF DoRefresh

LEMMA DoStartKeeps ==
    ASSUME RInv, NEW c, DoStart(c), gen' = gen, calls' \in Nat, faults' \in Nat
    PROVE  Moves /\ CallPart'
<1>1. CASE CanStart /\ NewAttempt /\ Transition(c, Restart(job, last + 1, gen))
  <2>1. last + 1 \in 0 .. MaxAttempts /\ gen \in 0 .. MaxGen /\ Good(job)
    BY <1>1, Numbers DEF NewAttempt
  <2>2. job' = Restart(job, last + 1, gen)
    BY <1>1 DEF Transition
  <2>3. /\ Good(job') /\ job'.exec = last + 1 /\ job'.rexec = 0 /\ job'.prov = gen
        /\ job'.status = "running" /\ Adds(job, job')
    BY <2>1, <2>2, RestartGood
  <2>4. Keeps(job, job', last + 1)
    BY <2>3 DEF Keeps
  <2>5. Moves
    BY <1>1, <2>3, <2>4, AttemptMoves
  <2>6. QED
    BY <1>1, <2>5, TransitionKeeps
<1>2. CASE job.status = "paused" /\ Transition(c, Unpause(job)) /\ UNCHANGED last
  <2>1. Moves
    BY <1>2, Numbers, UnpauseGood, PlainMoves DEF Transition
  <2>2. QED
    BY <1>2, <2>1, TransitionKeeps
<1>3. CASE job.status = "running" /\ Transition(c, job) /\ UNCHANGED last
  <2>1. Moves
    BY <1>3, SameMoves DEF Transition
  <2>2. QED
    BY <1>3, <2>1, TransitionKeeps
<1>4. CASE Refuse(c)
  BY <1>4, RefuseKeeps
<1>5. QED
  BY <1>1, <1>2, <1>3, <1>4 DEF DoStart

LEMMA StartKeeps ==
    ASSUME RInv, NEW c \in call, Start(c)
    PROVE  Moves /\ CallPart'
<1>1. gen' = gen /\ calls' \in Nat /\ faults' \in Nat
  BY Numbers DEF Start
<1>2. QED
  BY <1>1, DoRefreshKeeps, DoStartKeeps DEF Start

LEMMA ResumeKeeps ==
    ASSUME RInv, NEW c \in call, Resume(c)
    PROVE  Moves /\ CallPart'
<1>1. gen' = gen /\ last' = last /\ calls' \in Nat /\ faults' \in Nat
  BY Numbers DEF Resume
<1>2. CASE Refuse(c)
  BY <1>1, <1>2, RefuseKeeps
<1>3. ASSUME job.status = "paused", job' = Unpause(job), last' = last PROVE Moves
  BY <1>1, <1>3, Numbers, UnpauseGood, PlainMoves
<1>4. ASSUME job' = job PROVE Moves
  BY <1>1, <1>4, SameMoves
<1>5. \/ Refuse(c) \/ Becomes(c, {})
      \/ Transition(c, Unpause(job)) \/ Transition(c, job)
  BY DEF Resume
<1>6. Refuse(c) \/ Moves
  BY <1>1, <1>3, <1>4 DEF Resume, Transition
<1>7. QED
  BY <1>2, <1>5, <1>6, BecomesKeeps, TransitionKeeps

LEMMA CompileKeeps ==
    ASSUME RInv, NEW c \in call, Compile(c)
    PROVE  Moves /\ CallPart'
<1>1. gen' = gen /\ calls' \in Nat /\ faults' \in Nat
  BY Numbers DEF Compile
<1>2. CASE Refuse(c)
  BY <1>1, <1>2, RefuseKeeps
<1>3. CASE CanReport /\ NewAttempt /\ Transition(c, BeginReport(job, last + 1))
  <2>1. last + 1 \in 0 .. MaxAttempts /\ Good(job)
    BY <1>3, Numbers DEF NewAttempt
  <2>2. job' = BeginReport(job, last + 1)
    BY <1>3 DEF Transition
  <2>3. /\ Good(job') /\ Keeps(job, job', last + 1) /\ job'.prov = job.prov
        /\ Adds(job, job')
    BY <1>3, <2>1, <2>2, BeginReportGood DEF CanReport
  <2>4. Moves
    BY <1>1, <1>3, <2>3, AttemptMoves
  <2>5. QED
    BY <1>3, <2>4, TransitionKeeps
<1>4. CASE /\ job.status = "generating"
           /\ Transition(c, IF job.report.late THEN MarkRunFailed(job, "report") ELSE job)
           /\ UNCHANGED last
  <2>1. Moves
    <3>1. CASE job.report.late
      BY <1>1, <1>4, <3>1, Numbers, MarkReportGood, PlainMoves DEF Transition
    <3>2. CASE ~job.report.late
      BY <1>1, <1>4, <3>2, SameMoves DEF Transition
    <3>3. QED
      BY <3>1, <3>2
  <2>2. QED
    BY <1>4, <2>1, TransitionKeeps
<1>5. QED
  BY <1>2, <1>3, <1>4 DEF Compile

LEMMA RefreshKeeps ==
    ASSUME RInv, Refresh
    PROVE  Moves /\ CallPart'
<1>1. gen' = gen /\ calls' \in Nat /\ faults' \in Nat
  BY Numbers DEF Refresh, Admit
<1>2. QED
  BY <1>1, DoRefreshKeeps DEF Refresh

LEMMA PauseKeeps ==
    ASSUME RInv, Pause
    PROVE  Moves /\ CallPart'
<1> DEFINE d == [NoCall EXCEPT !.op = "pause", !.pc = "cancel"]
<1>1. gen' = gen /\ last' = last /\ calls' \in Nat /\ faults' \in Nat
  BY Numbers DEF Pause, Admit
<1>2. Moves
  BY <1>1, Numbers, PauseGood, PlainMoves, SameMoves DEF Pause
<1>3. d \in CallRow /\ d.key.att = 0 /\ d.op = "pause"
  BY NoCallRow DEF NoCall
<1>4. Becomes(NoCall, {d})
  BY DEF Pause
<1> HIDE DEF d
<1>5. CallOk(d, last')
  BY <1>1, <1>3, Numbers DEF CallOk
<1>6. QED
  BY <1>2, <1>4, <1>5, BecomesKeeps

LEMMA CancelKeeps ==
    ASSUME RInv, Cancel
    PROVE  Moves /\ CallPart'
<1> DEFINE d == [NoCall EXCEPT !.op = "cancel", !.pc = "cancel"]
<1>1. gen' = gen /\ last' = last /\ calls' \in Nat /\ faults' \in Nat
  BY Numbers DEF Cancel, Admit
<1>2. Moves
  BY <1>1, Numbers, CancelGood, PlainMoves, SameMoves DEF Cancel
<1>3. d \in CallRow /\ d.key.att = 0 /\ d.op = "cancel"
  BY NoCallRow DEF NoCall
<1>4. Becomes(NoCall, {d})
  BY DEF Cancel
<1> HIDE DEF d
<1>5. CallOk(d, last')
  BY <1>1, <1>3, Numbers DEF CallOk
<1>6. QED
  BY <1>2, <1>4, <1>5, BecomesKeeps

LEMMA ReadKeeps ==
    ASSUME RInv, NEW op \in {"start", "resume", "compile"}, Read(op)
    PROVE  Moves /\ CallPart'
<1> DEFINE saw == op = "compile" \/ job.status = IF op = "start" THEN "failed" ELSE "paused"
           prov == IF saw THEN job.prov ELSE 0
           d == [NoCall EXCEPT !.op = op, !.pc = "act", !.saw = saw, !.prov = prov]
<1>1. gen' = gen /\ last' = last /\ job' = job /\ calls' \in Nat /\ faults' \in Nat
  BY Numbers DEF Read, Admit
<1>2. Moves
  BY <1>1, SameMoves
<1>3. prov \in 0 .. MaxGen /\ (saw => prov = job.prov) /\ saw \in BOOLEAN
  BY Numbers, BoundsAssumption DEF JobRow
<1>4. Becomes(NoCall, {d})
  BY Zenon DEF Read
<1> HIDE DEF saw, prov
<1> DEFINE e == [NoCall EXCEPT !.op = op, !.pc = "act"]
<1>5. e \in CallRow /\ e.key.att = 0
  BY NoCallRow DEF NoCall
<1>6. d = [e EXCEPT !.saw = saw, !.prov = prov]
  OBVIOUS
<1> HIDE DEF e
<1>7. d \in CallRow /\ d.key.att = 0 /\ d.prov = prov /\ d.saw = saw
  BY <1>3, <1>5, <1>6 DEF CallRow
<1> HIDE DEF d
<1>8. CallOk(d, last')
  BY <1>1, <1>3, <1>7, Numbers DEF CallOk
<1>9. QED
  BY <1>2, <1>4, <1>8, BecomesKeeps

-----------------------------------------------------------------------------
(* The steps of the runs. *)

LEMMA RunStepKeeps ==
    ASSUME RInv, NEW w \in Runners, RunStep(w)
    PROVE  Moves /\ DispPart' /\ RunPart' /\ CallPart'
<1>1. /\ Good(job) /\ run[w] \in RunRow /\ run[w].key.phase \in Phases /\ Shape(run[w])
      /\ RunOk(run[w], job, last)
      /\ job \in JobRow /\ job.sec \in [Sections -> SectionRow] /\ run \in [Runners -> RunRow]
  BY RGood, Parts DEF RInv, RunPart, RunOk, RunRow, Keys, Good, JobRow
<1>0. /\ gen' = gen /\ last' = last /\ calls' = calls /\ call' = call
      /\ faults' = faults \/ faults' = faults + 1
  BY Zenon DEF RunStep, Activate, HandBack, Forget, Expire, OverBudget, RunFails, Stop,
                 ClaimNextSection, Retrieve, RetrieveFails, Commit, BuildReport, BuildFails,
                 CommitReport, Fault
<1>2. gen' = gen /\ last' = last /\ calls' = calls /\ call' = call /\ faults' \in Nat
  BY <1>0, Numbers
<1>3. Harmless(job, job')
  BY RunStepHarmless
<1>4. Moves
  BY <1>2, <1>3, Numbers, HarmlessMoves DEF Counters
<1>5. CallPart'
  BY <1>2, <1>4, MovesKeep
<1>6. /\ RunOk(run[w], job', last') /\ RunOk(Idle, job', last')
      /\ disp' = disp => DispPart'
  BY <1>4, MovesKeep, IdleOk
<1>7. CASE HandBack(w) \/ Forget(w)
  <2>1. DispPart'
    BY <1>4, <1>7, ReleaseKeeps DEF HandBack, Forget
  <2>2. RunPart'
    BY <1>4, <1>6, <1>7, RunKeeps DEF HandBack, Forget
  <2>3. QED
    BY <1>4, <1>5, <2>1, <2>2
<1>8. ASSUME run[w].pc # "idle", NEW pc \in {"end", "drop", "return"}, Leave(w, pc), disp' = disp
      PROVE  DispPart' /\ RunPart'
  BY <1>4, <1>6, <1>8, LeaveKeeps
<1>9. CASE Activate(w)
  <2>1. disp' = disp /\ run[w].pc = "claimed"
    BY <1>9 DEF Activate
  <2> DEFINE st == IF run[w].key.phase = "report" THEN "report" ELSE "loop"
             r == [run[w] EXCEPT !.lease = FreshLease, !.pc = st]
  <2>2. CASE run' = [run EXCEPT ![w].lease = FreshLease, ![w].pc = st]
    <3>1. run' = [run EXCEPT ![w] = r]
      BY <1>1, <2>2 DEF RunRow
    <3>2. st \in {"report", "loop"} /\ (st = "report" <=> run[w].key.phase = "report")
      OBVIOUS
    <3> HIDE DEF st
    <3>3. r \in RunRow /\ r.pc = st /\ r.key = run[w].key
      BY <1>1, <3>2, LeaseFresh DEF RunRow
    <3> HIDE DEF r
    <3>4. RunOk(r, job', last')
      BY <1>1, <1>6, <2>1, <3>2, <3>3 DEF RunOk, Shape, Follows, Phases
    <3>5. RunPart'
      BY <1>4, <3>1, <3>4, RunKeeps
    <3>6. QED
      BY <1>4, <1>5, <1>6, <2>1, <3>5
  <2>3. CASE Leave(w, "drop") \/ Leave(w, "return")
    BY <1>4, <1>5, <1>8, <2>1, <2>3
  <2>4. QED
    BY <1>9, <2>2, <2>3 DEF Activate
<1>10. CASE Expire(w) \/ OverBudget(w) \/ RunFails(w) \/ Stop(w) \/ RetrieveFails(w)
            \/ BuildFails(w) \/ CommitReport(w)
  <2>1. disp' = disp /\ Leave(w, "end") /\ run[w].pc # "idle"
    BY <1>10 DEF Expire, OverBudget, RunFails, Stop, RetrieveFails, BuildFails, CommitReport, Running
  <2>2. QED
    BY <1>4, <1>5, <1>8, <2>1
<1>11. CASE ClaimNextSection(w)
  <2> DEFINE pending == {s \in Sections : job.sec[s].st = "pending"}
             s == CHOOSE s \in pending : \A t \in pending : s <= t
             r == [run[w] EXCEPT !.pc = "sec", !.sec = s, !.gen = job.prov]
  <2>1. disp' = disp /\ run[w].pc = "loop"
    BY <1>11 DEF ClaimNextSection
  <2>2. CASE pending = {}
    <3>1. Leave(w, "end")
      BY <1>11, <2>2 DEF ClaimNextSection
    <3>2. QED
      BY <1>4, <1>5, <1>8, <2>1, <3>1
  <2>3. CASE pending # {}
    <3>1. run' = [run EXCEPT ![w].pc = "sec", ![w].sec = s, ![w].gen = job.prov]
      BY <1>11, <2>3 DEF ClaimNextSection
    <3>2. s \in Sections
      <4>1. pending \in SUBSET Sections
        OBVIOUS
      <4> HIDE DEF pending
      <4>2. QED
        BY <2>3, <4>1, LeastSection
    <3>3. s \in 0 .. NSections
      BY <3>2, BoundsAssumption DEF Sections
    <3> HIDE DEF s, pending
    <3>4. run' = [run EXCEPT ![w] = r]
      BY <1>1, <3>1 DEF RunRow
    <3>5. /\ r \in RunRow /\ r.pc = "sec" /\ r.key = run[w].key /\ r.sec = s
          /\ r.gen = job.prov
      BY <1>1, <3>3 DEF RunRow, JobRow
    <3> HIDE DEF r
    <3>6. RunOk(r, job', last')
      BY <1>1, <1>3, <1>6, <2>1, <3>2, <3>5 DEF RunOk, Shape, Follows, Harmless
    <3>7. RunPart'
      BY <1>4, <3>4, <3>6, RunKeeps
    <3>8. QED
      BY <1>4, <1>5, <1>6, <2>1, <3>7
  <2>4. QED
    BY <2>2, <2>3
<1>12. CASE Retrieve(w)
  <2> DEFINE r == [run[w] EXCEPT !.pc = "ready"]
  <2>1. disp' = disp /\ run[w].pc = "sec" /\ run' = [run EXCEPT ![w] = r]
    BY <1>1, <1>12 DEF Retrieve, Goto, RunRow
  <2>2. /\ r \in RunRow /\ r.pc = "ready" /\ r.key = run[w].key /\ r.sec = run[w].sec
        /\ r.gen = run[w].gen
    BY <1>1 DEF RunRow
  <2> HIDE DEF r
  <2>3. RunOk(r, job', last')
    BY <1>1, <1>6, <2>1, <2>2 DEF RunOk, Shape, Follows
  <2>4. RunPart'
    BY <1>4, <2>1, <2>3, RunKeeps
  <2>5. QED
    BY <1>4, <1>5, <1>6, <2>1, <2>4
<1>13. CASE Commit(w)
  <2> DEFINE r == [run[w] EXCEPT !.pc = "loop", !.sec = 0, !.gen = 0]
  <2>1. disp' = disp /\ run[w].pc = "ready" /\ run' = [run EXCEPT ![w] = r]
    BY <1>1, <1>13 DEF Commit, RunRow
  <2>0. 0 \in 0 .. NSections /\ 0 \in 0 .. MaxGen
    BY BoundsAssumption
  <2>2. r \in RunRow /\ r.pc = "loop" /\ r.key = run[w].key
    BY <1>1, <2>0 DEF RunRow
  <2> HIDE DEF r
  <2>3. RunOk(r, job', last')
    BY <1>1, <1>6, <2>1, <2>2 DEF RunOk, Shape, Follows
  <2>4. RunPart'
    BY <1>4, <2>1, <2>3, RunKeeps
  <2>5. QED
    BY <1>4, <1>5, <1>6, <2>1, <2>4
<1>14. CASE BuildReport(w)
  <2> DEFINE src == [s \in Sections |-> job.sec[s].ev]
             r == [run[w] EXCEPT !.pc = "built", !.src = src]
  <2>1. disp' = disp /\ job' = job /\ run[w].pc = "report" /\ run' = [run EXCEPT ![w] = r]
    BY <1>1, <1>14 DEF BuildReport, RunRow
  <2>2. src = Evs(job) /\ src \in Reports
    BY <1>1 DEF Evs, Reports, SectionRow
  <2> HIDE DEF src
  <2>3. r \in RunRow /\ r.pc = "built" /\ r.key = run[w].key /\ r.src = src
    BY <1>1, <2>2 DEF RunRow
  <2> HIDE DEF r
  <2>4. RunOk(r, job', last')
    BY <1>1, <1>6, <2>1, <2>2, <2>3 DEF RunOk, Shape, Follows
  <2>5. RunPart'
    BY <1>4, <2>1, <2>4, RunKeeps
  <2>6. QED
    BY <1>4, <1>5, <1>6, <2>1, <2>5
<1>15. QED
  BY <1>7, <1>9, <1>10, <1>11, <1>12, <1>13, <1>14 DEF RunStep

-----------------------------------------------------------------------------
(* The other steps. *)

AllKept == Moves /\ DispPart' /\ RunPart' /\ CallPart'

LEMMA UserKeeps == RInv /\ UserNext => AllKept
<1> SUFFICES ASSUME RInv, UserNext PROVE AllKept
  OBVIOUS
<1>1. ASSUME NEW op \in {"start", "resume", "compile"}, Read(op) PROVE AllKept
  <2>1. disp' = disp /\ run' = run
    BY <1>1 DEF Read
  <2>2. QED
    BY <1>1, <2>1, ReadKeeps, MovesKeep DEF AllKept
<1>2. ASSUME NEW c \in call, Start(c) \/ Resume(c) \/ Compile(c) PROVE AllKept
  <2>1. disp' = disp /\ run' = run
    BY <1>2 DEF Start, Resume, Compile
  <2>2. QED
    BY <1>2, <2>1, StartKeeps, ResumeKeeps, CompileKeeps, MovesKeep DEF AllKept
<1>3. CASE Refresh \/ Pause \/ Cancel
  <2>1. disp' = disp /\ run' = run
    BY <1>3 DEF Refresh, Pause, Cancel
  <2>2. QED
    BY <1>3, <2>1, RefreshKeeps, PauseKeeps, CancelKeeps, MovesKeep DEF AllKept
<1>4. ASSUME NEW c \in call, EnqueueCall(c) PROVE AllKept
  <2>1. Moves
    BY <1>4, Numbers, SameMoves DEF EnqueueCall
  <2>2. c.key \in Keys /\ c.key.att <= last'
    BY <1>4, <2>1, MovesKeep DEF CallOk, CallRow
  <2>3. DispPart' /\ CallPart'
    BY <1>4, <2>1, <2>2, EnqueueKeeps, BecomesKeeps DEF EnqueueCall
  <2>4. QED
    BY <1>4, <2>1, <2>3, MovesKeep DEF AllKept, EnqueueCall
<1>5. ASSUME NEW c \in call, CancelCall(c) PROVE AllKept
  <2>1. Moves
    BY <1>5, Numbers, SameMoves DEF CancelCall
  <2>2. CallPart'
    BY <1>5, <2>1, BecomesKeeps DEF CancelCall
  <2>3. DispPart'
    <3>1. disp \in [Attempts -> DispRow] /\ \A a \in Attempts : DispOk(disp[a], a, last')
      BY <2>1, Parts, MovesKeep DEF DispPart
    <3>2. \A a \in Attempts : [disp[a] EXCEPT !.st = "idle", !.owner = None, !.lapsed = FALSE]
                              \in DispRow
      BY <3>1 DEF DispRow
    <3>3. disp' = [a \in Attempts |-> [disp[a] EXCEPT !.st = "idle", !.owner = None,
                                                      !.lapsed = FALSE]]
      BY <1>5 DEF CancelCall, CancelDispatches
    <3>4. \A a \in Attempts : disp'[a].phase = disp[a].phase /\ disp'[a].st = "idle"
      BY <3>1, <3>3 DEF DispRow
    <3>5. QED
      BY <3>1, <3>2, <3>3, <3>4 DEF DispPart, DispOk
  <2>4. RunPart'
    <3>1. run \in [Runners -> RunRow] /\ \A w \in Runners : RunOk(run[w], job', last')
      BY <2>1, Parts, MovesKeep DEF RunPart
    <3>2. PICK st \in {"paused", "stop"}, S \in SUBSET Running :
             run' = [w \in Runners |-> IF w \in S THEN [run[w] EXCEPT !.stop = st] ELSE run[w]]
      <4>1. CASE c.op = "pause"
        BY <1>5, <4>1 DEF CancelCall
      <4>2. CASE c.op # "pause"
        BY <1>5, <4>2 DEF CancelCall
      <4>3. QED
        BY <4>1, <4>2
    <3>3. \A r \in RunRow : RunOk(r, job', last') =>
              /\ [r EXCEPT !.stop = st] \in RunRow
              /\ RunOk([r EXCEPT !.stop = st], job', last')
      BY DEF RunRow, RunOk, Shape, Follows
    <3>4. QED
      BY <3>1, <3>2, <3>3 DEF RunPart
  <2>5. QED
    BY <2>1, <2>2, <2>3, <2>4 DEF AllKept
<1>6. ASSUME NEW d \in {"approved", "changes_requested"}, Review(d) PROVE AllKept
  <2> DEFINE k == [job EXCEPT !.review = d]
  <2>1. /\ job' = k /\ Good(job) /\ job \in JobRow /\ job.status = "completed"
        /\ UNCHANGED << disp, run, call, gen, last, calls, faults >>
    BY <1>6, Numbers DEF Review
  <2> HIDE DEF k
  <2>2. k \in JobRow
    BY <2>1 DEF JobRow, k
  <2>3. /\ k.status = job.status /\ k.evidence = job.evidence /\ k.report = job.report
        /\ k.sec = job.sec /\ k.rstat = job.rstat /\ k.rep = job.rep
        /\ k.exec = job.exec /\ k.rexec = job.rexec /\ k.prov = job.prov
    BY <2>1 DEF JobRow, k
  <2>4. Consistent(k)
    BY <2>1, <2>3 DEF Good, Consistent, Full, Evs
  <2>5. Good(job') /\ Keeps(job, job', 0) /\ job'.prov = job.prov /\ Adds(job, job')
    BY <2>1, <2>2, <2>3, <2>4 DEF Good, Keeps, Adds
  <2>6. Moves
    BY <2>1, <2>5, Numbers, PlainMoves
  <2>7. QED
    BY <2>1, <2>6, MovesKeep DEF AllKept
<1>7. CASE Publish
  <2> DEFINE k == [job EXCEPT !.review = "published", !.rstat = "published"]
  <2>1. /\ job' = k /\ Good(job) /\ job \in JobRow /\ job.status = "completed"
        /\ UNCHANGED << disp, run, call, gen, last, calls, faults >>
    BY <1>7, Numbers DEF Publish
  <2> HIDE DEF k
  <2>2. k \in JobRow
    BY <2>1 DEF JobRow, k
  <2>3. /\ k.status = job.status /\ k.evidence = job.evidence /\ k.report = job.report
        /\ k.sec = job.sec /\ k.rep = job.rep
        /\ k.exec = job.exec /\ k.rexec = job.rexec /\ k.prov = job.prov
    BY <2>1 DEF JobRow, k
  <2>4. Consistent(k)
    BY <2>1, <2>3 DEF Good, Consistent, Full, Evs
  <2>5. Good(job') /\ Keeps(job, job', 0) /\ job'.prov = job.prov /\ Adds(job, job')
    BY <2>1, <2>2, <2>3, <2>4 DEF Good, Keeps, Adds
  <2>6. Moves
    BY <2>1, <2>5, Numbers, PlainMoves
  <2>7. QED
    BY <2>1, <2>6, MovesKeep DEF AllKept
<1>8. QED
  BY <1>1, <1>2, <1>3, <1>4, <1>5, <1>6, <1>7 DEF UserNext

\* A stop changes nothing that the invariant asks of a run.
LEMMA StopOk ==
    ASSUME RInv, Moves, NEW w \in Runners, run' = [run EXCEPT ![w].stop = "stop"]
    PROVE  RunPart'
<1> DEFINE r == [run[w] EXCEPT !.stop = "stop"]
<1>1. run \in [Runners -> RunRow] /\ RunOk(run[w], job', last') /\ run[w] \in RunRow
  BY Parts, MovesKeep DEF RunPart
<1>2. /\ r \in RunRow /\ r.pc = run[w].pc /\ r.key = run[w].key /\ r.sec = run[w].sec
      /\ r.gen = run[w].gen /\ r.src = run[w].src
  BY <1>1 DEF RunRow
<1>3. run' = [run EXCEPT ![w] = r]
  BY <1>1
<1> HIDE DEF r
<1>4. RunOk(r, job', last')
  BY <1>1, <1>2 DEF RunOk, Shape, Follows
<1>5. QED
  BY <1>3, <1>4, RunKeeps

LEMMA RunnerKeeps == RInv /\ RunnerNext => AllKept
<1> SUFFICES ASSUME RInv, NEW w \in Runners,
                    RunStep(w) \/ Heartbeat(w) \/ \E a \in Attempts : Claim(w, a)
             PROVE  AllKept
  BY DEF RunnerNext
<1>1. CASE RunStep(w)
  BY <1>1, RunStepKeeps DEF AllKept
<1>2. CASE Heartbeat(w)
  <2>1. Moves
    BY <1>2, Numbers, SameMoves DEF Heartbeat
  <2>2. QED
    BY <1>2, <2>1, StopOk, MovesKeep DEF AllKept, Heartbeat
<1>3. ASSUME NEW a \in Attempts, Claim(w, a) PROVE AllKept
  <2> DEFINE key == [phase |-> disp[a].phase, att |-> a]
             r == [Idle EXCEPT !.pc = "claimed", !.key = key]
             d == [disp[a] EXCEPT !.st = "running", !.owner = w, !.lapsed = FALSE]
  <2>1. Moves
    BY <1>3, Numbers, SameMoves DEF Claim
  <2>2. /\ disp \in [Attempts -> DispRow] /\ disp[a] \in DispRow
        /\ \A b \in Attempts : DispOk(disp[b], b, last')
        /\ disp[a].st # "idle" /\ disp[a].phase \in Phases /\ a <= last'
    BY <1>3, <2>1, Parts, MovesKeep DEF DispPart, DispOk, DispRow, Claim
  <2>3. d \in DispRow /\ d.phase = disp[a].phase
    BY <2>2 DEF DispRow
  <2>4. disp' = [disp EXCEPT ![a] = d]
    BY <1>3, <2>2 DEF Claim, DispRow
  <2> HIDE DEF d
  <2>5. DispPart'
    BY <2>2, <2>3, <2>4 DEF DispPart, DispOk, Phases
  <2>6. key \in Keys /\ key.att = a /\ a # 0
    BY <2>2 DEF Keys, Attempts
  <2>7. Idle \in RunRow
    BY <2>1, IdleOk
  <2>8. run' = [run EXCEPT ![w] = r]
    BY <1>3, Zenon DEF Claim
  <2> HIDE DEF key
  <2>9. r \in RunRow /\ r.pc = "claimed" /\ r.key = key
    BY <2>6, <2>7 DEF RunRow
  <2> HIDE DEF r
  <2>10. RunOk(r, job', last')
    BY <2>2, <2>6, <2>9 DEF RunOk, Shape, Follows
  <2>11. QED
    BY <1>3, <2>1, <2>5, <2>8, <2>10, RunKeeps, MovesKeep DEF AllKept, Claim
<1>4. QED
  BY <1>1, <1>2, <1>3

LEMMA EnvKeeps == RInv /\ (EnvNext \/ ReconcileOrphans) => AllKept
<1> SUFFICES ASSUME RInv, EnvNext \/ ReconcileOrphans PROVE AllKept
  OBVIOUS
<1>1. CASE SwitchIndex
  <2>1. gen + 1 \in Gens /\ gen' = gen + 1
    BY <1>1, Numbers, BoundsAssumption DEF SwitchIndex, Gens
  <2>2. Harmless(job, job')
    BY <1>1, Numbers, SameHarmless DEF SwitchIndex
  <2>3. Moves
    BY <1>1, <2>1, <2>2, Numbers DEF SwitchIndex, Moves, Counters, Harmless
  <2>4. QED
    BY <1>1, <2>3, MovesKeep DEF AllKept, SwitchIndex
<1>2. ASSUME NEW p \in Phases, DeadlinePasses(p) PROVE AllKept
  <2> DEFINE c == [job[p] EXCEPT !.late = TRUE]
             k == [job EXCEPT ![p] = c]
  <2>1. /\ job \in JobRow /\ Good(job) /\ job[p] \in Control
        /\ job[p].state \in {"running", "paused"}
    BY <1>2, Numbers DEF DeadlinePasses, JobRow, Phases
  <2>2. c \in Control /\ c.state = job[p].state
    BY <2>1 DEF Control
  <2>3. job.status # "cancelled"
    BY <2>1 DEF Good, Consistent, Phases
  <2>4. job' = k
    BY <1>2, <2>1 DEF DeadlinePasses, JobRow, Phases
  <2> HIDE DEF c
  <2>5. Harmless(job, job')
    BY <2>1, <2>2, <2>3, <2>4, ControlGood
  <2>6. Moves
    BY <1>2, <2>5, Numbers, HarmlessMoves DEF DeadlinePasses, Fault, Counters
  <2>7. QED
    BY <1>2, <2>6, MovesKeep DEF AllKept, DeadlinePasses
<1>3. ASSUME NEW w \in Runners, Crash(w) PROVE AllKept
  <2>1. Moves
    BY <1>3, Numbers, SameMoves DEF Crash, Fault
  <2>2. RunPart'
    BY <1>3, <2>1, IdleOk, RunKeeps DEF Crash
  <2>3. DispPart'
    <3> DEFINE k == run[w].key.att
               row(d) == [d EXCEPT !.owner = None]
    <3>1. disp \in [Attempts -> DispRow] /\ \A a \in Attempts : DispOk(disp[a], a, last')
      BY <2>1, Parts, MovesKeep DEF DispPart
    <3>2. \A d \in DispRow : /\ row(d) \in DispRow /\ row(d).phase = d.phase /\ row(d).st = d.st
      BY DEF DispRow
    <3>3. disp' = disp \/ disp' = [disp EXCEPT ![k].owner = None]
      BY <1>3 DEF Crash
    <3>4. /\ DOMAIN disp' = Attempts /\ disp' = [a \in Attempts |-> disp'[a]]
          /\ \A a \in Attempts : disp'[a] = disp[a] \/ disp'[a] = row(disp[a])
      BY <3>1, <3>3
    <3> HIDE DEF row, k
    <3>5. \A a \in Attempts : DispOk(disp'[a], a, last')
      BY <3>1, <3>2, <3>4 DEF DispOk
    <3>6. disp' \in [Attempts -> DispRow]
      BY <3>4, <3>5 DEF DispOk
    <3>7. QED
      BY <3>5, <3>6 DEF DispPart
  <2>4. QED
    BY <1>3, <2>1, <2>2, <2>3, MovesKeep DEF AllKept, Crash
<1>4. ASSUME NEW w \in Runners, Shutdown(w) PROVE AllKept
  <2>1. Moves
    BY <1>4, Numbers, SameMoves DEF Shutdown, Fault
  <2>2. RunPart' /\ DispPart'
    BY <1>4, <2>1, StopOk, ReleaseKeeps DEF Shutdown
  <2>3. QED
    BY <1>4, <2>1, <2>2, MovesKeep DEF AllKept, Shutdown
<1>5. ASSUME NEW a \in Attempts, Lapse(a) PROVE AllKept
  <2> DEFINE d == [disp[a] EXCEPT !.lapsed = TRUE]
  <2>1. Moves
    BY <1>5, Numbers, SameMoves DEF Lapse, Fault
  <2>2. disp \in [Attempts -> DispRow] /\ \A b \in Attempts : DispOk(disp[b], b, last')
    BY <2>1, Parts, MovesKeep DEF DispPart
  <2>3. d \in DispRow /\ d.phase = disp[a].phase /\ d.st = disp[a].st
    BY <2>2 DEF DispRow
  <2>4. disp' = [disp EXCEPT ![a] = d]
    BY <1>5, <2>2 DEF Lapse, DispRow
  <2> HIDE DEF d
  <2>5. DispPart'
    BY <2>2, <2>3, <2>4 DEF DispPart, DispOk
  <2>6. QED
    BY <1>5, <2>1, <2>5, MovesKeep DEF AllKept, Lapse
<1>6. ASSUME NEW a \in Attempts, ReconcileLate(a) PROVE AllKept
  <2> DEFINE k == [phase |-> disp[a].phase, att |-> a]
  <2>1. Moves
    BY <1>6, Numbers, SameMoves DEF ReconcileLate, Fault
  <2>2. k \in Keys /\ k.att <= last'
    BY <1>6, <2>1, MovesKeep DEF DispOk, DispRow, ReconcileLate, Keys, Attempts
  <2>3. Enqueue(k)
    BY <1>6 DEF ReconcileLate
  <2> HIDE DEF k
  <2>4. DispPart'
    BY <2>1, <2>2, <2>3, EnqueueKeeps
  <2>5. QED
    BY <1>6, <2>1, <2>4, MovesKeep DEF AllKept, ReconcileLate
<1>7. ASSUME NEW c \in call, LoseCall(c) PROVE AllKept
  <2>1. Moves
    BY <1>7, Numbers, SameMoves DEF LoseCall, Fault
  <2>2. CallPart'
    BY <1>7, <2>1, BecomesKeeps DEF LoseCall
  <2>3. QED
    BY <1>7, <2>1, <2>2, MovesKeep DEF AllKept, LoseCall
<1>8. CASE ReconcileOrphans
  <2>1. Moves /\ job' = job
    BY <1>8, Numbers, SameMoves DEF ReconcileOrphans
  <2>2. KeyOf(job) \in Keys /\ KeyOf(job).att <= last'
    BY <2>1, KeyOfType
  <2>3. DispPart'
    BY <1>8, <2>1, <2>2, EnqueueKeeps DEF ReconcileOrphans
  <2>4. QED
    BY <1>8, <2>1, <2>3, MovesKeep DEF AllKept, ReconcileOrphans
<1>9. QED
  BY <1>1, <1>2, <1>3, <1>4, <1>5, <1>6, <1>7, <1>8 DEF EnvNext

-----------------------------------------------------------------------------
(* The theorems. *)

LEMMA InitInv == Init => RInv
<1> SUFFICES ASSUME Init PROVE RInv
  OBVIOUS
<1> DEFINE row == [st |-> "pending", ev |-> NoEvidence]
           secs == [s \in Sections |-> row]
<1>1. 0 \in 0 .. MaxAttempts /\ 0 \in 0 .. MaxGen /\ 1 \in Gens /\ 0 \in Nat
  BY BoundsAssumption DEF Gens
<1>2. row \in SectionRow /\ row.st = "pending"
  BY <1>1 DEF SectionRow, NoEvidence, Evidence
<1>3. NoReport \in Reports
  BY DEF Reports
<1> HIDE DEF row
<1>4. secs \in [Sections -> SectionRow] /\ \A s \in Sections : secs[s].st = "pending"
  BY <1>2
<1>5. job = [status |-> "planned", exec |-> 0, rexec |-> 0,
             evidence |-> NoControl, report |-> NoControl, sec |-> secs,
             prov |-> 0, rstat |-> "not_started", rep |-> NoReport,
             review |-> "not_started"]
  BY Zenon DEF Init, row
<1> HIDE DEF secs
<1>6. job \in JobRow
  BY <1>1, <1>3, <1>4, <1>5, NoControlType DEF JobRow, Status
<1>7. Consistent(job)
  BY <1>4, <1>5, NoControlType DEF Consistent
<1>8. Counters
  BY <1>1 DEF Init, Counters
<1>9. JobPart /\ CallPart
  BY <1>1, <1>5, <1>6, <1>7 DEF Init, JobPart, CallPart, Good
<1>10. DispPart
  <2> DEFINE d == [st |-> "idle", phase |-> "none", owner |-> None, lapsed |-> FALSE]
  <2>1. d \in DispRow /\ d.phase = "none" /\ d.st = "idle"
    BY DEF DispRow
  <2>2. disp = [a \in Attempts |-> d]
    BY DEF Init
  <2> HIDE DEF d
  <2>3. QED
    BY <2>1, <2>2 DEF DispPart, DispOk
<1>11. RunPart
  <2>1. Idle \in RunRow
    BY BoundsAssumption DEF Idle, RunRow, NoKey, Keys, Phases, Reports
  <2>2. Idle.pc = "idle" /\ Idle.key.att = 0
    BY DEF Idle, NoKey
  <2>3. run = [w \in Runners |-> Idle] /\ last = 0
    BY DEF Init
  <2>4. QED
    BY <2>1, <2>2, <2>3 DEF RunPart, RunOk, Shape, Follows
<1>12. QED
  BY <1>7, <1>8, <1>9, <1>10, <1>11, Parts

LEMMA PartsNext == JobPart' /\ Counters' /\ DispPart' /\ RunPart' /\ CallPart' => RInv'
<1>1. JobPart /\ Counters /\ DispPart /\ RunPart /\ CallPart => RInv
  BY Parts
<1>2. QED
  BY <1>1, PTL

LEMMA NextKeeps == RInv /\ Next => RInv' /\ Moves
<1> SUFFICES ASSUME RInv, Next PROVE RInv' /\ Moves
  OBVIOUS
<1>1. AllKept
  BY UserKeeps, RunnerKeeps, EnvKeeps DEF Next
<1>2. JobPart' /\ Counters'
  BY <1>1, MovesKeep DEF AllKept
<1>3. QED
  BY <1>1, <1>2, PartsNext DEF AllKept

LEMMA StutterKeeps == RInv /\ UNCHANGED vars => RInv'
<1> SUFFICES ASSUME RInv, UNCHANGED vars PROVE RInv'
  OBVIOUS
<1>1. Moves /\ disp' = disp /\ run' = run /\ call' = call
  BY Numbers, SameMoves DEF vars
<1>2. QED
  BY <1>1, MovesKeep, PartsNext

\* The inductive invariant holds of every reachable state.
THEOREM Inductive == Spec => []RInv
<1>1. Init => RInv
  BY InitInv
<1>2. RInv /\ [Next]_vars => RInv'
  BY NextKeeps, StutterKeeps
<1>3. QED
  BY <1>1, <1>2, PTL DEF Spec

\* Every variable keeps its type: no transition writes a status, a section
\* state, an attempt or a snapshot outside its column's domain
\* (api/research_job_store.py).
THEOREM TypeCorrect == Spec => []TypeOK
<1>1. RInv => TypeOK
  BY DEF RInv
<1>2. QED
  BY <1>1, Inductive, PTL

\* A report is under way or stands only when every section has its evidence,
\* and it was written from exactly the evidence that the record holds now
\* (_begin_report, _complete_report, _refresh_evidence).
THEOREM ReportSafe == Spec => []ReportMatches
<1>1. RInv => ReportMatches
  <2> SUFFICES ASSUME RInv PROVE ReportMatches
    OBVIOUS
  <2>1. Good(job)
    BY RGood
  <2>2. QED
    BY <2>1 DEF Good, Consistent, ReportMatches, Gathered, Full, Evs
<1>2. QED
  BY <1>1, Inductive, PTL

\* Whatever is fenced, paused, resumed, taken over or refreshed, a step adds to
\* the record only evidence of the attempt and the index generation that the
\* record names then (_complete_section, activate_distributed_attempt,
\* _refresh_evidence).
THEOREM EvidenceSafe == Spec => EvidenceOfItsAttempt
<1> DEFINE A == \A s \in Sections :
                   job'.sec[s].ev \notin {job.sec[s].ev, NoEvidence} =>
                      /\ job'.sec[s].ev = << job.exec, job.prov >>
                      /\ job'.exec = job.exec /\ job'.prov = job.prov
<1>1. RInv /\ [Next]_vars => [A]_vars
  BY NextKeeps DEF Moves, Adds
<1>2. QED
  BY <1>1, Inductive, PTL DEF Spec, EvidenceOfItsAttempt

\* What UserWins asks of a step.
Respects ==
    calls' = calls /\ call' = call =>
        /\ job.status = "cancelled" => job' = job
        /\ job.status = "paused" =>
              /\ job'.status = "paused" \/ (job.evidence.late /\ job'.status = "failed")
              /\ \A s \in Sections :
                    job'.sec[s].st = "running" => job.sec[s].st = "running"

LEMMA NextRespects == RInv /\ Next => Respects
<1> SUFFICES ASSUME RInv, Next PROVE Respects
  OBVIOUS
<1>1. ASSUME Harmless(job, job') PROVE Respects
  BY <1>1 DEF Harmless, Respects
<1>2. ASSUME job' = job PROVE Respects
  BY <1>2 DEF Respects
<1>3. ASSUME NEW w \in Runners, RunStep(w) PROVE Respects
  BY <1>1, <1>3, RunStepHarmless
<1>4. ASSUME NEW p \in Phases, DeadlinePasses(p) PROVE Respects
  <2>1. Good(job) /\ job \in JobRow /\ job[p].state \in {"running", "paused"}
    BY <1>4, Numbers DEF DeadlinePasses
  <2>2. job.status # "cancelled" /\ job'.status = job.status /\ job'.sec = job.sec
    BY <1>4, <2>1 DEF DeadlinePasses, JobRow, Phases, Good, Consistent
  <2>3. QED
    BY <2>2 DEF Respects
<1>5. ASSUME NEW d \in {"approved", "changes_requested"}, Review(d) \/ Publish PROVE Respects
  <2>1. job.status = "completed"
    BY <1>5 DEF Review, Publish
  <2>2. QED
    BY <2>1 DEF Respects
<1>6. ASSUME Refresh \/ Pause \/ Cancel PROVE Respects
  <2>1. calls' = calls + 1 /\ calls \in Nat
    BY <1>6, Numbers DEF Refresh, Pause, Cancel, Admit
  <2>2. QED
    BY <2>1 DEF Respects
<1>7. ASSUME NEW c \in call, Start(c) \/ Resume(c) \/ Compile(c) PROVE Respects
  <2>1. c.pc = "act"
    BY <1>7 DEF Start, Resume, Compile
  <2>2. \E d : d.pc = "enqueue" /\ (Becomes(c, {}) \/ Becomes(c, {d}))
    <3>1. \E k : Becomes(c, {}) \/ Becomes(c, {[NoCall EXCEPT !.pc = "enqueue", !.key = k]})
      BY <1>7, Zenon DEF Start, Resume, Compile, DoRefresh, DoStart, Refuse, Transition
    <3>2. PICK k : Becomes(c, {}) \/ Becomes(c, {[NoCall EXCEPT !.pc = "enqueue", !.key = k]})
      BY <3>1
    <3>3. [NoCall EXCEPT !.pc = "enqueue", !.key = k].pc = "enqueue"
      BY DEF NoCall
    <3>4. QED
      BY <3>2, <3>3
  <2>3. c \notin call'
    BY <2>1, <2>2 DEF Becomes
  <2>4. QED
    BY <2>3 DEF Respects
<1>8. ASSUME \/ \E op \in {"start", "resume", "compile"} : Read(op)
             \/ \E c \in call : EnqueueCall(c) \/ CancelCall(c) \/ LoseCall(c)
             \/ ReconcileOrphans \/ SwitchIndex
             \/ \E w \in Runners : \/ Heartbeat(w) \/ Crash(w) \/ Shutdown(w)
                                   \/ \E a \in Attempts : Claim(w, a)
             \/ \E a \in Attempts : Lapse(a) \/ ReconcileLate(a)
      PROVE  Respects
  <2>1. job' = job
    BY <1>8 DEF Read, EnqueueCall, CancelCall, LoseCall, ReconcileOrphans, SwitchIndex,
                Heartbeat, Crash, Shutdown, Claim, Lapse, ReconcileLate
  <2>2. QED
    BY <1>2, <2>1
<1>9. QED
  BY <1>3, <1>4, <1>5, <1>6, <1>7, <1>8 DEF Next, UserNext, RunnerNext, EnvNext

\* Until a user's call changes it, nothing changes a cancelled job, and in a
\* paused one no section begins and only the deadline may end it
\* (_pause_job, _cancel_job, _fail_section, _complete_section).
THEOREM UserWinsSafe == Spec => UserWins
<1>1. RInv /\ [Next]_vars => [Respects]_vars
  BY NextRespects
<1>2. Spec => [][Respects]_vars
  BY <1>1, Inductive, PTL DEF Spec
<1>3. UserWins <=> [][Respects]_vars
  BY DEF UserWins, Respects
<1>4. QED
  BY <1>2, <1>3
=============================================================================
