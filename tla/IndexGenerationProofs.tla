------------------------ MODULE IndexGenerationProofs ------------------------
(***************************************************************************)
(* Proofs about IndexGeneration, for any numbers of generations, builders,   *)
(* readers, collectors and files and any bounds.  The inductive invariant    *)
(* IInv strengthens the safety properties with what they rest on:            *)
(*   FenceInv     fences are unique and none is above the head's;            *)
(*   ManifestInv  a generation that is being built has no manifest;          *)
(*   ObjectInv    objects agree with the row they belong to;                 *)
(*   HeadInv      the current generation is published and complete;          *)
(*   WorkInv      a builder's copy of a row agrees with the row;             *)
(*   GcInv        what a collector has picked is dead;                       *)
(*   ReadInv      nobody collects what a reader has pinned whose lease never  *)
(*                lapsed, and such a lease still runs.                       *)
(***************************************************************************)
EXTENDS IndexGeneration, TLAPS

Rowed(g) == gens[g].status \notin {"unborn", "forgotten"}

FenceInv ==
    /\ \A g \in Gens : gens[g].fence <= head.fence
    /\ \A g, h \in Gens :
          Rowed(g) /\ Rowed(h) /\ gens[g].fence = gens[h].fence => g = h

ManifestInv ==
    \A g \in Gens : gens[g].status = "building" => gens[g].manifest = None

\* The objects of a generation hold nothing but m.
Holds(g, m) ==
    /\ marker[g] \in {None, m}
    /\ \A f \in Files : files[g][f] \in {None, m}

ObjectInv ==
    \A g \in Gens : /\ gens[g].status = "unborn" => Holds(g, None)
                    /\ Rowed(g) => Holds(g, gens[g].manifest)

HeadInv == CurrentServable

\* What a builder carries agrees with the rows.
WorkOK(w, rows) ==
    /\ w.pc = "idle" <=> w.gen = None
    /\ w.pc \in {"upload", "check", "ready"} => w.manifest # None
    /\ w.gen # None =>
          /\ rows[w.gen].status # "unborn"
          /\ rows[w.gen].status # "forgotten" =>
                /\ w.token <= rows[w.gen].token
                /\ w.manifest # None => w.manifest = rows[w.gen].manifest

WorkInv == \A b \in Builders : WorkOK(work[b], gens)

Listed(c) == gc[c].todo \union ({gc[c].gen} \ {None})

GcInv == \A c \in Collectors : \A g \in Listed(c) : Dead(g) /\ gens[g].status # "unborn"

ReadInv ==
    \A r \in Readers : readers[r] # None /\ ~readers[r].lapsed =>
        /\ readers[r].lease > 0
        /\ gens[readers[r].gen].status = "published"
        /\ Verified(readers[r].gen, gens[readers[r].gen].manifest)
        /\ \A c \in Collectors : readers[r].gen \notin Listed(c)

Safe == FenceInv /\ ManifestInv /\ ObjectInv /\ HeadInv /\ GcInv /\ ReadInv

IInv == TypeOK /\ Safe /\ WorkInv

-----------------------------------------------------------------------------
(* Values of the columns. *)

LEMMA ClockValues ==
    /\ 0 \in Clocks
    /\ \A t \in Clocks : t \in Int
    /\ \A d \in Delays : /\ Lease - d \in Clocks
                         /\ ReaderLease - d \in Clocks
                         /\ -d \in Clocks
    /\ \A t \in Clocks : Nearer(t, Floor) \in Clocks /\ Nearer(t, -Lag) \in Clocks
BY BoundsAssumption DEF Clocks, Floor, Delays, Nearer

LEMMA RowTypes ==
    ASSUME NEW row \in Row
    PROVE  /\ row.status \in Statuses /\ row.build \in Builds \union {None}
           /\ row.base \in Gens \union {None} /\ row.fence \in Nat
           /\ row.owner \in Owners \union {None} /\ row.token \in Nat
           /\ row.lease \in Clocks /\ row.ended \in Clocks
           /\ row.manifest \in Contents \union {None}
BY DEF Row

\* What stands for a generation without a row, or starts a new one.
LEMMA NoRowOK ==
    ASSUME NEW status \in Statuses
    PROVE  /\ NoRow(status) \in Row
           /\ NoRow(status).status = status /\ NoRow(status).fence = 0
           /\ NoRow(status).token = 0 /\ NoRow(status).manifest = None
<1>1. 0 \in Clocks /\ 0 \in Nat
  BY ClockValues
<1>2. NoRow(status) \in Row
  BY <1>1, Zenon DEF NoRow, Row
<1> QED
  BY <1>2 DEF NoRow

LEMMA WorkTypes ==
    ASSUME NEW w \in Work
    PROVE  /\ w.pc \in {"idle", "begun", "upload", "check", "ready"}
           /\ w.gen \in Gens \union {None} /\ w.token \in Nat
           /\ w.manifest \in Contents \union {None}
           /\ w.content \in Contents \union {None}
           /\ w.done \in SUBSET Files
BY DEF Work

\* An idle builder carries nothing.
LEMMA IdleOK ==
    ASSUME NEW rows
    PROVE  Idle \in Work /\ WorkOK(Idle, rows)
BY DEF Idle, Work, WorkOK

\* A builder that carries a row as it is.
LEMMA CarryOK ==
    ASSUME NEW rows \in [Gens -> Row], NEW g \in Gens,
           rows[g].status # "unborn",
           NEW w, w = [Idle EXCEPT !.pc = "begun", !.gen = g, !.token = rows[g].token,
                                   !.manifest = rows[g].manifest]
    PROVE  w \in Work /\ WorkOK(w, rows)
<1>1. rows[g].token \in Nat /\ rows[g].manifest \in Contents \union {None}
  BY RowTypes
<1>2. w = [pc |-> "begun", gen |-> g, token |-> rows[g].token,
           manifest |-> rows[g].manifest, content |-> None, done |-> {}]
  BY DEF Idle
<1>3. w \in Work
  BY <1>1, IdleOK, Zenon DEF Work
<1>4. g # None
  BY NamesAssumption
<1>5. /\ w.pc = "begun" /\ w.gen = g /\ w.token = rows[g].token
      /\ w.manifest = rows[g].manifest
  BY <1>2
<1> QED
  BY <1>1, <1>3, <1>4, <1>5 DEF WorkOK

-----------------------------------------------------------------------------
(* Steps, by what they change. *)

\* A step of one builder that leaves the tables and the objects alone.
LEMMA WorkStep ==
    ASSUME IInv, NEW b \in Builders, NEW w \in Work, WorkOK(w, gens),
           work' = [work EXCEPT ![b] = w],
           UNCHANGED <<head, gens, files, marker, readers, gc>>
    PROVE  IInv'
<1>1. TypeOK'
  BY DEF IInv, TypeOK
<1>2. WorkInv'
  BY DEF IInv, WorkInv, TypeOK
<1>3. Safe'
  BY DEF IInv, Safe, FenceInv, ManifestInv, ObjectInv, Holds, HeadInv, CurrentServable,
         Verified, GcInv, Listed, Dead, ReadInv, Rowed
<1> QED
  BY <1>1, <1>2, <1>3 DEF IInv

\* A transaction that changes the row of a generation that is not published,
\* and the builder that asked for it.
LEMMA RowStep ==
    ASSUME IInv, NEW g \in Gens, NEW row \in Row, NEW b \in Builders, NEW w \in Work,
           gens[g].status \in Open \union {"aborted"},
           row.status \in Open \union {"aborted"},
           gens[g].status = "aborted" => row.status = "aborted",
           row.fence = gens[g].fence,
           row.token >= gens[g].token,
           row.status = "building" => row.manifest = None,
           row.manifest = gens[g].manifest \/ gens[g].status = "building",
           gens' = [gens EXCEPT ![g] = row],
           work' = [work EXCEPT ![b] = w],
           WorkOK(w, gens'),
           UNCHANGED <<head, files, marker, readers, gc>>
    PROVE  IInv'
<1>1. /\ gens \in [Gens -> Row] /\ gens' \in [Gens -> Row]
      /\ gens'[g] = row
      /\ \A h \in Gens : h # g => gens'[h] = gens[h]
  BY DEF IInv, TypeOK
<1>2. TypeOK'
  BY <1>1 DEF IInv, TypeOK
<1>3. /\ \A h \in Gens : gens'[h].fence = gens[h].fence
      /\ \A h \in Gens : Rowed(h)' <=> Rowed(h)
      /\ \A h \in Gens : gens'[h].status = "unborn" <=> gens[h].status = "unborn"
      /\ \A h \in Gens : gens'[h].status = "forgotten" <=> gens[h].status = "forgotten"
  BY <1>1 DEF Rowed, Open
<1>4. FenceInv'
  BY <1>3 DEF IInv, Safe, FenceInv
<1>5. ManifestInv'
  BY <1>1 DEF IInv, Safe, ManifestInv
<1>6. ObjectInv'
  <2> SUFFICES ASSUME NEW h \in Gens
               PROVE  /\ gens'[h].status = "unborn" => Holds(h, None)
                      /\ Rowed(h)' => Holds(h, gens'[h].manifest)
    BY DEF ObjectInv, Holds
  <2>1. CASE h # g
    BY <1>1, <1>3, <2>1 DEF IInv, Safe, ObjectInv
  <2>2. CASE h = g
    <3>1. Rowed(g) /\ gens[g].status # "unborn"
      BY DEF Rowed, Open
    <3>2. Holds(g, gens[g].manifest)
      BY <3>1 DEF IInv, Safe, ObjectInv
    <3>3. gens[g].status = "building" => gens[g].manifest = None
      BY DEF IInv, Safe, ManifestInv
    <3>4. Holds(g, row.manifest)
      BY <3>2, <3>3 DEF Holds
    <3> QED
      BY <1>1, <1>3, <2>2, <3>1, <3>4
  <2> QED
    BY <2>1, <2>2
<1>7. head.current # None => head.current # g /\ head.current \in Gens
  BY DEF IInv, Safe, HeadInv, CurrentServable, Open, TypeOK
<1>8. HeadInv'
  BY <1>1, <1>7 DEF IInv, Safe, HeadInv, CurrentServable, Verified
<1>9. GcInv'
  <2> SUFFICES ASSUME NEW c \in Collectors, NEW h \in Listed(c)
               PROVE  Dead(h)' /\ gens'[h].status # "unborn"
    BY DEF GcInv, Listed
  <2>1. Dead(h) /\ gens[h].status # "unborn"
    BY DEF IInv, Safe, GcInv
  <2>2. h \in Gens
    BY DEF IInv, TypeOK, Listed, Collection
  <2> QED
    BY <1>1, <1>3, <2>1, <2>2 DEF Dead, Closed, Open
<1>10. ReadInv'
  <2> SUFFICES ASSUME NEW r \in Readers, readers[r] # None, ~readers[r].lapsed
               PROVE  /\ readers[r].lease > 0
                      /\ gens'[readers[r].gen].status = "published"
                      /\ Verified(readers[r].gen, gens'[readers[r].gen].manifest)
                      /\ \A c \in Collectors : readers[r].gen \notin Listed(c)
    BY DEF ReadInv, Verified, Listed
  <2>1. readers[r].gen \in Gens
    BY DEF IInv, TypeOK, ReaderRow
  <2>2. /\ readers[r].lease > 0
        /\ gens[readers[r].gen].status = "published"
        /\ Verified(readers[r].gen, gens[readers[r].gen].manifest)
        /\ \A c \in Collectors : readers[r].gen \notin Listed(c)
    BY DEF IInv, Safe, ReadInv
  <2> QED
    BY <1>1, <2>1, <2>2 DEF Open
<1>11. WorkInv'
  <2> SUFFICES ASSUME NEW a \in Builders
               PROVE  WorkOK(work'[a], gens')
    BY DEF WorkInv
  <2>1. CASE a = b
    BY <2>1 DEF IInv, TypeOK
  <2>2. CASE a # b
    <3>1. work'[a] = work[a] /\ work[a] \in Work /\ WorkOK(work[a], gens)
      BY <2>2 DEF IInv, TypeOK, WorkInv
    <3>2. work[a].token \in Nat /\ work[a].gen \in Gens \union {None}
      BY <3>1, WorkTypes
    <3>3. gens[g].token \in Nat /\ row.token \in Nat
      BY <1>1, RowTypes
    <3>4. gens[g].status = "building" => gens[g].manifest = None
      BY DEF IInv, Safe, ManifestInv
    <3> QED
      BY <1>1, <1>3, <3>1, <3>2, <3>3, <3>4 DEF WorkOK, Open
  <2> QED
    BY <2>1, <2>2
<1> QED
  BY <1>2, <1>4, <1>5, <1>6, <1>8, <1>9, <1>10, <1>11 DEF IInv, Safe

-----------------------------------------------------------------------------
(* Builders *)

\* The new row of BeginNew.
LEMMA BeginNewStep ==
    ASSUME IInv, NEW b \in Builders, NEW g \in Gens, NEW build \in Builds,
           NEW d \in Delays, BeginNew(b, g, build, d)
    PROVE  IInv'
<1> DEFINE row == [NoRow("building") EXCEPT
                     !.build = build, !.base = head.current,
                     !.fence = head.fence + 1, !.owner = OwnerOf[b],
                     !.token = 1, !.lease = Lease - d]
           w == [Idle EXCEPT !.pc = "begun", !.gen = g, !.token = row.token,
                             !.manifest = row.manifest]
<1>1. /\ gens[g].status = "unborn"
      /\ gens' = [gens EXCEPT ![g] = row]
      /\ work' = [work EXCEPT ![b] = w]
      /\ head' = [head EXCEPT !.fence = head.fence + 1]
      /\ UNCHANGED <<files, marker, readers, gc>>
  BY DEF BeginNew, Carry
<1>2. /\ head.fence \in Nat /\ head.current \in Gens \union {None}
      /\ head'.fence = head.fence + 1 /\ head'.current = head.current
      /\ head' \in [current : Gens \union {None}, fence : Nat]
  BY <1>1 DEF IInv, TypeOK
<1>3. /\ NoRow("building") \in Row
      /\ NoRow("building").status = "building" /\ NoRow("building").manifest = None
  BY NoRowOK DEF Statuses, Open
<1>4. /\ Lease - d \in Clocks /\ 0 \in Clocks /\ OwnerOf[b] \in Owners
      /\ "building" \in Statuses
  BY ClockValues DEF Owners, Statuses, Open
<1>5. /\ row.status = "building" /\ row.fence = head.fence + 1
      /\ row.token = 1 /\ row.manifest = None
  BY <1>3 DEF Row
<1>6. row \in Row
  <2>1. head.fence + 1 \in Nat /\ 1 \in Nat
    BY <1>2
  <2> QED
    BY <1>2, <1>3, <1>4, <2>1, Zenon DEF Row
<1> HIDE DEF row
<1>7. /\ gens \in [Gens -> Row] /\ gens' \in [Gens -> Row]
      /\ gens'[g] = row
      /\ \A h \in Gens : h # g => gens'[h] = gens[h]
  BY <1>1, <1>6 DEF IInv, TypeOK
<1>8. w \in Work /\ WorkOK(w, gens')
  BY <1>5, <1>7, CarryOK
<1> HIDE DEF w
<1>9. TypeOK'
  BY <1>1, <1>2, <1>7, <1>8 DEF IInv, TypeOK
<1>10. \A h \in Gens : gens[h].fence \in Nat /\ gens[h].fence <= head.fence
  BY <1>7, RowTypes DEF IInv, Safe, FenceInv
<1>11. FenceInv'
  <2>1. \A h \in Gens : gens'[h].fence <= head'.fence
    BY <1>2, <1>5, <1>7, <1>10
  <2>2. ASSUME NEW h \in Gens, NEW k \in Gens, Rowed(h)', Rowed(k)',
               gens'[h].fence = gens'[k].fence
        PROVE  h = k
    <3>1. CASE h # g /\ k # g
      BY <1>7, <2>2, <3>1 DEF IInv, Safe, FenceInv, Rowed
    <3>2. CASE h = g \/ k = g
      BY <1>2, <1>5, <1>7, <1>10, <2>2, <3>2
    <3> QED
      BY <3>1, <3>2
  <2> QED
    BY <2>1, <2>2 DEF FenceInv
<1>12. ManifestInv'
  BY <1>5, <1>7 DEF IInv, Safe, ManifestInv
<1>13. ObjectInv'
  BY <1>1, <1>5, <1>7 DEF IInv, Safe, ObjectInv, Holds, Rowed
<1>14. HeadInv'
  BY <1>1, <1>2, <1>7 DEF IInv, Safe, HeadInv, CurrentServable, Verified
<1>15. GcInv'
  <2> SUFFICES ASSUME NEW c \in Collectors, NEW h \in Listed(c)
               PROVE  Dead(h)' /\ gens'[h].status # "unborn"
    BY <1>1 DEF GcInv, Listed
  <2>1. Dead(h) /\ gens[h].status # "unborn"
    BY DEF IInv, Safe, GcInv
  <2>2. h \in Gens
    BY DEF IInv, TypeOK, Listed, Collection
  <2> QED
    BY <1>1, <1>2, <1>7, <1>10, <2>1, <2>2 DEF Dead
<1>16. ReadInv'
  <2> SUFFICES ASSUME NEW r \in Readers, readers[r] # None, ~readers[r].lapsed
               PROVE  /\ readers[r].lease > 0
                      /\ gens'[readers[r].gen].status = "published"
                      /\ Verified(readers[r].gen, gens'[readers[r].gen].manifest)
                      /\ \A c \in Collectors : readers[r].gen \notin Listed(c)
    BY <1>1 DEF ReadInv, Verified, Listed
  <2>1. readers[r].gen \in Gens
    BY DEF IInv, TypeOK, ReaderRow
  <2>2. /\ readers[r].lease > 0
        /\ gens[readers[r].gen].status = "published"
        /\ Verified(readers[r].gen, gens[readers[r].gen].manifest)
        /\ \A c \in Collectors : readers[r].gen \notin Listed(c)
    BY DEF IInv, Safe, ReadInv
  <2> QED
    BY <1>1, <1>7, <2>1, <2>2
<1>17. WorkInv'
  <2> SUFFICES ASSUME NEW a \in Builders, a # b
               PROVE  WorkOK(work'[a], gens')
    BY <1>1, <1>8 DEF WorkInv, IInv, TypeOK
  <2>1. work'[a] = work[a] /\ work[a] \in Work /\ WorkOK(work[a], gens)
    BY <1>1 DEF IInv, TypeOK, WorkInv
  <2>2. work[a].gen \in Gens \union {None}
    BY <2>1, WorkTypes
  <2> QED
    BY <1>1, <1>7, <2>1, <2>2 DEF WorkOK
<1> QED
  BY <1>9, <1>11, <1>12, <1>13, <1>14, <1>15, <1>16, <1>17 DEF IInv, Safe

LEMMA BeginAgainStep ==
    ASSUME IInv, NEW b \in Builders, NEW g \in Gens, NEW d \in Delays,
           BeginAgain(b, g, d)
    PROVE  IInv'
<1> DEFINE w == [Idle EXCEPT !.pc = "begun", !.gen = g, !.token = gens[g].token,
                             !.manifest = gens[g].manifest]
<1>1. /\ gens \in [Gens -> Row] /\ gens[g].status # "unborn"
      /\ work' = [work EXCEPT ![b] = w]
      /\ UNCHANGED <<head, gens, files, marker, readers, gc>>
  BY DEF BeginAgain, Carry, IInv, TypeOK, Open
<1>2. w \in Work /\ WorkOK(w, gens)
  BY <1>1, CarryOK
<1> QED
  BY <1>1, <1>2, WorkStep

\* A row under a new token.
LEMMA RotatedRow ==
    ASSUME NEW row \in Row, NEW b \in Builders, NEW d \in Delays
    PROVE  /\ Rotated(row, OwnerOf[b], d) \in Row
           /\ Rotated(row, OwnerOf[b], d).status = row.status
           /\ Rotated(row, OwnerOf[b], d).fence = row.fence
           /\ Rotated(row, OwnerOf[b], d).token = row.token + 1
           /\ Rotated(row, OwnerOf[b], d).manifest = row.manifest
<1>1. /\ row.token + 1 \in Nat /\ OwnerOf[b] \in Owners \union {None}
      /\ Lease - d \in Clocks
  BY RowTypes, ClockValues DEF Owners
<1>2. Rotated(row, OwnerOf[b], d) \in Row
  BY <1>1, Zenon DEF Rotated, Row
<1> QED
  BY <1>2 DEF Rotated, Row

LEMMA TakeOverStep ==
    ASSUME IInv, NEW b \in Builders, NEW g \in Gens, NEW d \in Delays,
           BeginExpired(b, g, d) \/ Resume(b, g, d)
    PROVE  IInv'
<1> DEFINE row == Rotated(gens[g], OwnerOf[b], d)
           w == [Idle EXCEPT !.pc = "begun", !.gen = g, !.token = row.token,
                             !.manifest = row.manifest]
<1>1. /\ gens[g] \in Row /\ gens[g].status \in Open \union {"aborted"}
      /\ gens' = [gens EXCEPT ![g] = row]
      /\ work' = [work EXCEPT ![b] = w]
      /\ UNCHANGED <<head, files, marker, readers, gc>>
  BY DEF BeginExpired, Resume, Carry, IInv, TypeOK
<1>2. /\ row \in Row /\ row.status = gens[g].status /\ row.fence = gens[g].fence
      /\ row.token = gens[g].token + 1 /\ row.manifest = gens[g].manifest
  BY <1>1, RotatedRow
<1>3. row.token >= gens[g].token
  BY <1>1, <1>2, RowTypes
<1> HIDE DEF row
<1>4. gens' \in [Gens -> Row] /\ gens'[g] = row
  BY <1>1, <1>2 DEF IInv, TypeOK
<1>5. w \in Work /\ WorkOK(w, gens')
  BY <1>1, <1>2, <1>4, CarryOK DEF Open
<1> HIDE DEF w
<1>6. row.status = "building" => row.manifest = None
  BY <1>2 DEF IInv, Safe, ManifestInv
<1> QED
  BY <1>1, <1>2, <1>3, <1>5, <1>6, RowStep

\* A row with a new lease only.
LEMMA ReleasedRow ==
    ASSUME NEW row \in Row, NEW t \in Clocks
    PROVE  LET new == [row EXCEPT !.lease = t]
           IN  /\ new \in Row /\ new.status = row.status /\ new.fence = row.fence
               /\ new.token = row.token /\ new.manifest = row.manifest
<1>1. [row EXCEPT !.lease = t] \in Row
  BY Zenon DEF Row
<1> QED
  BY <1>1 DEF Row

LEMMA HandOverStep ==
    ASSUME IInv, NEW b \in Builders, NEW g \in Gens, NEW d \in Delays,
           HandOver(b, g, d)
    PROVE  IInv'
<1> DEFINE row == [gens[g] EXCEPT !.lease = Lease - d]
           w == [Idle EXCEPT !.pc = "begun", !.gen = g, !.token = row.token,
                             !.manifest = row.manifest]
<1>1. /\ gens[g] \in Row /\ gens[g].status \in Open
      /\ gens' = [gens EXCEPT ![g] = row]
      /\ work' = [work EXCEPT ![b] = w]
      /\ UNCHANGED <<head, files, marker, readers, gc>>
  BY DEF HandOver, Carry, IInv, TypeOK
<1>2. /\ row \in Row /\ row.status = gens[g].status /\ row.fence = gens[g].fence
      /\ row.token = gens[g].token /\ row.manifest = gens[g].manifest
  BY <1>1, ReleasedRow, ClockValues
<1>3. row.token >= gens[g].token
  BY <1>1, <1>2, RowTypes
<1> HIDE DEF row
<1>4. gens' \in [Gens -> Row] /\ gens'[g] = row
  BY <1>1, <1>2 DEF IInv, TypeOK
<1>5. w \in Work /\ WorkOK(w, gens')
  BY <1>1, <1>2, <1>4, CarryOK DEF Open
<1> HIDE DEF w
<1>6. row.status = "building" => row.manifest = None
  BY <1>2 DEF IInv, Safe, ManifestInv
<1> QED
  BY <1>1, <1>2, <1>3, <1>5, <1>6, RowStep DEF Open

\* A live builder works for a row in the table under the row's token.
LEMMA LiveRow ==
    ASSUME IInv, NEW b \in Builders, NEW S, NEW d, Live(b, S, d)
    PROVE  /\ work[b] \in Work /\ WorkOK(work[b], gens)
           /\ work[b].gen \in Gens
           /\ gens[work[b].gen] \in Row
           /\ gens[work[b].gen].status \in S
           /\ gens[work[b].gen].token = work[b].token
BY WorkTypes DEF IInv, TypeOK, WorkInv, Live

LEMMA HeartbeatStep ==
    ASSUME IInv, NEW b \in Builders, NEW d \in Delays, Heartbeat(b, d)
    PROVE  IInv'
<1> DEFINE g == work[b].gen
           row == [gens[g] EXCEPT !.lease = Lease - d]
<1>1. /\ g \in Gens /\ gens[g] \in Row /\ gens[g].status \in Open
      /\ work[b] \in Work /\ WorkOK(work[b], gens)
      /\ gens[g].token = work[b].token
  BY LiveRow DEF Heartbeat
<1>2. /\ gens' = [gens EXCEPT ![g] = row]
      /\ work' = [work EXCEPT ![b] = work[b]]
      /\ UNCHANGED <<head, files, marker, work, readers, gc>>
  BY <1>1 DEF Heartbeat, IInv, TypeOK
<1>3. /\ row \in Row /\ row.status = gens[g].status /\ row.fence = gens[g].fence
      /\ row.token = gens[g].token /\ row.manifest = gens[g].manifest
  BY <1>1, ReleasedRow, ClockValues
<1>4. row.token >= gens[g].token
  BY <1>1, <1>3, RowTypes
<1> HIDE DEF row
<1>5. gens'[g] = row
  BY <1>1, <1>2, <1>3 DEF IInv, TypeOK
<1>6. WorkOK(work[b], gens')
  BY <1>1, <1>3, <1>5 DEF WorkOK, Open
<1>7. row.status = "building" => row.manifest = None
  BY <1>1, <1>3 DEF IInv, Safe, ManifestInv
<1> HIDE DEF g
<1> QED
  BY <1>1, <1>2, <1>3, <1>4, <1>6, <1>7, RowStep DEF Open

LEMMA PrepareStep ==
    ASSUME IInv, NEW b \in Builders, NEW c \in Contents, NEW d \in Delays,
           Prepare(b, c, d)
    PROVE  IInv'
<1> DEFINE g == work[b].gen
           w == [work[b] EXCEPT !.pc = "upload", !.manifest = c, !.content = c]
           row == [gens[g] EXCEPT !.status = "prepared", !.manifest = c]
<1>1. /\ g \in Gens /\ gens[g] \in Row /\ gens[g].status \in Open
      /\ work[b] \in Work /\ WorkOK(work[b], gens)
      /\ gens[g].token = work[b].token
  BY LiveRow DEF Prepare
<1>2. /\ work' = [work EXCEPT ![b] = w]
      /\ UNCHANGED <<head, files, marker, readers, gc>>
      /\ c # None
  BY <1>1, NamesAssumption DEF Prepare, IInv, TypeOK
<1>3. /\ w.pc = "upload" /\ w.gen = g /\ w.token = work[b].token /\ w.manifest = c
  BY <1>1 DEF Work
<1>4. w \in Work
  BY <1>1, Zenon DEF Work
<1> HIDE DEF w
<1>5. g # None /\ work[b].token \in Nat
  BY <1>1, NamesAssumption, WorkTypes
<1>6. CASE /\ gens[g].status = "prepared" /\ gens[g].manifest = c /\ UNCHANGED gens
  <2>1. WorkOK(w, gens)
    BY <1>1, <1>2, <1>3, <1>5, <1>6 DEF WorkOK
  <2> QED
    BY <1>2, <1>4, <1>6, <2>1, WorkStep
<1>7. CASE /\ gens[g].status = "building"
           /\ gens' = [gens EXCEPT ![g].status = "prepared", ![g].manifest = c]
  <2>1. gens' = [gens EXCEPT ![g] = row]
    BY <1>1, <1>7 DEF IInv, TypeOK
  <2>2. /\ row.status = "prepared" /\ row.fence = gens[g].fence
        /\ row.token = gens[g].token /\ row.manifest = c
    BY <1>1 DEF Row
  <2>3. row \in Row
    <3>1. "prepared" \in Statuses
      BY DEF Statuses, Open
    <3> QED
      BY <1>1, <3>1, Zenon DEF Row
  <2>4. row.token >= gens[g].token
    BY <1>1, <2>2, RowTypes
  <2> HIDE DEF row
  <2>5. gens'[g] = row
    BY <1>1, <2>1, <2>3 DEF IInv, TypeOK
  <2>6. WorkOK(w, gens')
    BY <1>1, <1>2, <1>3, <1>5, <2>2, <2>5 DEF WorkOK
  <2> HIDE DEF g
  <2> QED
    BY <1>1, <1>2, <1>4, <1>7, <2>1, <2>2, <2>3, <2>4, <2>6, RowStep DEF Open
<1> QED
  BY <1>6, <1>7 DEF Prepare

LEMMA AbortStep ==
    ASSUME IInv, NEW b \in Builders, NEW d \in Delays, Abort(b, d)
    PROVE  IInv'
<1> DEFINE g == work[b].gen
           row == [gens[g] EXCEPT !.status = "aborted", !.lease = -d, !.ended = -d]
<1>1. /\ g \in Gens /\ gens[g] \in Row /\ gens[g].status \in Open
  BY LiveRow DEF Abort
<1>2. /\ gens' = [gens EXCEPT ![g] = row]
      /\ work' = [work EXCEPT ![b] = Idle]
      /\ UNCHANGED <<head, files, marker, readers, gc>>
  BY <1>1 DEF Abort, IInv, TypeOK
<1>3. /\ row.status = "aborted" /\ row.fence = gens[g].fence
      /\ row.token = gens[g].token /\ row.manifest = gens[g].manifest
  BY <1>1 DEF Row
<1>4. row \in Row
  <2>1. "aborted" \in Statuses /\ -d \in Clocks
    BY ClockValues DEF Statuses, Closed
  <2> QED
    BY <1>1, <2>1, Zenon DEF Row
<1>5. row.token >= gens[g].token
  BY <1>1, <1>3, RowTypes
<1>6. Idle \in Work /\ WorkOK(Idle, gens')
  BY IdleOK
<1> HIDE DEF row, g
<1> QED
  BY <1>1, <1>2, <1>3, <1>4, <1>5, <1>6, RowStep DEF Open

LEMMA LocalStep ==
    ASSUME IInv, NEW b \in Builders,
           \/ \E c \in Contents : Rebuild(b, c)
           \/ Adopt(b)
           \/ \E d \in Delays : Check(b, d)
           \/ Quit(b)
    PROVE  IInv'
<1>1. work[b] \in Work /\ WorkOK(work[b], gens)
  BY DEF IInv, TypeOK, WorkInv
<1>2. ASSUME NEW c \in Contents, Rebuild(b, c)
      PROVE  IInv'
  <2> DEFINE w == [work[b] EXCEPT !.pc = "upload", !.content = c]
  <2>1. /\ work' = [work EXCEPT ![b] = w]
        /\ UNCHANGED <<head, gens, files, marker, readers, gc>>
        /\ work[b].pc = "begun" /\ work[b].manifest # None
    BY <1>2 DEF Rebuild, IInv, TypeOK
  <2>2. /\ w.pc = "upload" /\ w.gen = work[b].gen /\ w.token = work[b].token
        /\ w.manifest = work[b].manifest
    BY <1>1 DEF Work
  <2>3. w \in Work
    BY <1>1, Zenon DEF Work
  <2> HIDE DEF w
  <2>4. WorkOK(w, gens)
    BY <1>1, <2>1, <2>2 DEF WorkOK
  <2> QED
    BY <2>1, <2>3, <2>4, WorkStep
<1>3. ASSUME NEW pc \in {"check", "ready"}, work[b].pc # "idle", work[b].manifest # None,
             work' = [work EXCEPT ![b].pc = pc],
             UNCHANGED <<head, gens, files, marker, readers, gc>>
      PROVE  IInv'
  <2> DEFINE w == [work[b] EXCEPT !.pc = pc]
  <2>1. work' = [work EXCEPT ![b] = w]
    BY <1>3 DEF IInv, TypeOK
  <2>2. /\ w.pc = pc /\ w.gen = work[b].gen /\ w.token = work[b].token
        /\ w.manifest = work[b].manifest
    BY <1>1 DEF Work
  <2>3. w \in Work
    BY <1>1, Zenon DEF Work
  <2> HIDE DEF w
  <2>4. WorkOK(w, gens)
    BY <1>1, <1>3, <2>2 DEF WorkOK
  <2> QED
    BY <1>3, <2>1, <2>3, <2>4, WorkStep
<1>4. CASE Adopt(b)
  BY <1>3, <1>4 DEF Adopt
<1>5. ASSUME NEW d \in Delays, Check(b, d)
      PROVE  IInv'
  BY <1>1, <1>3, <1>5 DEF Check, WorkOK
<1>6. CASE Quit(b)
  BY <1>6, IdleOK, WorkStep DEF Quit
<1> QED
  BY <1>2, <1>4, <1>5, <1>6

\* Putting an object of the builder's generation: it has the manifest of the
\* row, if the row is still there.
LEMMA PutStep ==
    ASSUME IInv, NEW b \in Builders,
           (\E f \in Files : Upload(b, f)) \/ PutMarker(b)
    PROVE  IInv'
<1> DEFINE g == work[b].gen
           m == work[b].manifest
<1>1. work[b] \in Work /\ WorkOK(work[b], gens) /\ work[b].pc = "upload"
  BY DEF IInv, TypeOK, WorkInv, Upload, PutMarker
<1>2. /\ g \in Gens /\ m \in Contents /\ m # None
      /\ gens[g].status # "unborn"
      /\ gens[g].status # "forgotten" => gens[g].manifest = m
  BY <1>1, WorkTypes DEF WorkOK
<1>3. /\ UNCHANGED <<head, gens, readers, gc>>
      /\ marker' \in [Gens -> Contents \union {None}]
      /\ files' \in [Gens -> [Files -> Contents \union {None}]]
      /\ \A h \in Gens : h # g => marker'[h] = marker[h] /\ files'[h] = files[h]
      /\ marker'[g] \in {marker[g], m}
      /\ \A f \in Files : files'[g][f] \in {files[g][f], m}
      /\ marker[g] = m => marker'[g] = m
      /\ \A f \in Files : files[g][f] = m => files'[g][f] = m
  <2>1. CASE PutMarker(b)
    BY <1>2, <2>1 DEF PutMarker, IInv, TypeOK
  <2>2. ASSUME NEW f \in Files, Upload(b, f)
        PROVE  <1>3!2 /\ <1>3!3 /\ <1>3!4 /\ <1>3!5 /\ <1>3!6 /\ <1>3!7 /\ <1>3!8
               /\ UNCHANGED <<head, gens, readers, gc>>
    BY <1>2, <2>2 DEF Upload, IInv, TypeOK
  <2> QED
    BY <2>1, <2>2
<1> DEFINE w == work'[b]
<1>4. /\ work' = [work EXCEPT ![b] = w]
      /\ w \in Work /\ WorkOK(w, gens)
  <2>1. CASE PutMarker(b)
    <3>1. work' = [work EXCEPT ![b] = [work[b] EXCEPT !.pc = "check"]]
      BY <2>1 DEF PutMarker, IInv, TypeOK
    <3>2. [work[b] EXCEPT !.pc = "check"] \in Work
      BY <1>1, Zenon DEF Work
    <3>3. w = [work[b] EXCEPT !.pc = "check"]
      BY <3>1 DEF IInv, TypeOK
    <3>4. w.pc = "check" /\ w.gen = g /\ w.token = work[b].token /\ w.manifest = m
      BY <1>1, <3>3 DEF Work
    <3> QED
      BY <1>1, <3>1, <3>2, <3>3, <3>4 DEF WorkOK
  <2>2. ASSUME NEW f \in Files, Upload(b, f)
        PROVE  <1>4
    <3> DEFINE done == work[b].done \union {f}
    <3>1. work' = [work EXCEPT ![b] = [work[b] EXCEPT !.done = done]]
      BY <2>2 DEF Upload, IInv, TypeOK
    <3>2. [work[b] EXCEPT !.done = done] \in Work
      <4>1. done \in SUBSET Files
        BY <1>1, WorkTypes
      <4> QED
        BY <1>1, <4>1, Zenon DEF Work
    <3>3. w = [work[b] EXCEPT !.done = done]
      BY <3>1 DEF IInv, TypeOK
    <3>4. w.pc = "upload" /\ w.gen = g /\ w.token = work[b].token /\ w.manifest = m
      BY <1>1, <3>3 DEF Work
    <3> QED
      BY <1>1, <3>1, <3>2, <3>3, <3>4 DEF WorkOK
  <2> QED
    BY <2>1, <2>2
<1> HIDE DEF w, m, g
<1>5. TypeOK'
  BY <1>3, <1>4 DEF IInv, TypeOK
<1>6. WorkInv'
  BY <1>3, <1>4 DEF IInv, TypeOK, WorkInv
<1>7. FenceInv' /\ ManifestInv' /\ GcInv'
  BY <1>3 DEF IInv, Safe, FenceInv, ManifestInv, GcInv, Listed, Dead, Rowed
<1>8. ObjectInv'
  <2> SUFFICES ASSUME NEW h \in Gens
               PROVE  /\ gens[h].status = "unborn" => Holds(h, None)'
                      /\ Rowed(h) => Holds(h, gens[h].manifest)'
    BY <1>3 DEF ObjectInv, Rowed, Holds
  <2>1. /\ gens[h].status = "unborn" => Holds(h, None)
        /\ Rowed(h) => Holds(h, gens[h].manifest)
    BY DEF IInv, Safe, ObjectInv
  <2> QED
    BY <1>2, <1>3, <2>1 DEF Holds, Rowed
\* Verified generations stay verified.
<1>9. ASSUME NEW h \in Gens, gens[h].status = "published",
             Verified(h, gens[h].manifest)
      PROVE  Verified(h, gens[h].manifest)'
  BY <1>2, <1>3, <1>9 DEF Verified
<1>10. HeadInv'
  BY <1>3, <1>9 DEF IInv, Safe, HeadInv, CurrentServable, TypeOK
<1>11. ReadInv'
  <2> SUFFICES ASSUME NEW r \in Readers, readers[r] # None, ~readers[r].lapsed
               PROVE  /\ readers[r].lease > 0
                      /\ gens[readers[r].gen].status = "published"
                      /\ Verified(readers[r].gen, gens[readers[r].gen].manifest)'
                      /\ \A c \in Collectors : readers[r].gen \notin Listed(c)
    BY <1>3 DEF ReadInv, Listed, Verified
  <2>1. readers[r].gen \in Gens
    BY DEF IInv, TypeOK, ReaderRow
  <2>2. /\ readers[r].lease > 0
        /\ gens[readers[r].gen].status = "published"
        /\ Verified(readers[r].gen, gens[readers[r].gen].manifest)
        /\ \A c \in Collectors : readers[r].gen \notin Listed(c)
    BY DEF IInv, Safe, ReadInv
  <2> QED
    BY <1>3, <1>9, <2>1, <2>2 DEF Verified
<1> QED
  BY <1>5, <1>6, <1>7, <1>8, <1>10, <1>11 DEF IInv, Safe

-----------------------------------------------------------------------------
(* Publication *)

LEMMA PublishStep ==
    ASSUME IInv, NEW b \in Builders, NEW d \in Delays, Publish(b, d)
    PROVE  IInv'
<1> DEFINE g == work[b].gen
           row == [gens[g] EXCEPT !.status = "published", !.lease = -d, !.ended = -d]
<1>1. /\ g \in Gens /\ gens[g] \in Row /\ gens[g].status = "prepared"
      /\ gens[g].fence = head.fence
      /\ Verified(g, gens[g].manifest)
  <2>1. Live(b, {"prepared"}, d)
    BY DEF Publish, Publishable
  <2>2. g \in Gens /\ gens[g] \in Row /\ gens[g].status = "prepared"
    BY <2>1, LiveRow
  <2>3. QED
    BY <2>2 DEF Publish, Publishable
<1>2. /\ gens' = [gens EXCEPT ![g] = row]
      /\ head' = [head EXCEPT !.current = g]
      /\ work' = [work EXCEPT ![b] = Idle]
      /\ UNCHANGED <<files, marker, readers, gc>>
  BY <1>1 DEF Publish, IInv, TypeOK
<1>3. /\ row.status = "published" /\ row.fence = gens[g].fence
      /\ row.token = gens[g].token /\ row.manifest = gens[g].manifest
  BY <1>1 DEF Row
<1>4. row \in Row
  <2>1. "published" \in Statuses /\ -d \in Clocks
    BY ClockValues DEF Statuses, Closed
  <2> QED
    BY <1>1, <2>1, Zenon DEF Row
<1> HIDE DEF row, g
<1>5. /\ gens \in [Gens -> Row] /\ gens' \in [Gens -> Row]
      /\ gens'[g] = row
      /\ \A h \in Gens : h # g => gens'[h] = gens[h]
  BY <1>1, <1>2, <1>4 DEF IInv, TypeOK
<1>6. /\ head' \in [current : Gens \union {None}, fence : Nat]
      /\ head'.current = g /\ head'.fence = head.fence
  BY <1>1, <1>2 DEF IInv, TypeOK
<1>7. TypeOK'
  BY <1>2, <1>5, <1>6, IdleOK DEF IInv, TypeOK
<1>8. /\ \A h \in Gens : /\ gens'[h].fence = gens[h].fence
                         /\ gens'[h].token = gens[h].token
                         /\ gens'[h].manifest = gens[h].manifest
                         /\ Rowed(h)' <=> Rowed(h)
                         /\ gens'[h].status = "unborn" <=> gens[h].status = "unborn"
                         /\ gens'[h].status = "forgotten" <=> gens[h].status = "forgotten"
                         /\ gens'[h].status = "building" => gens[h].status = "building"
  BY <1>1, <1>3, <1>5 DEF Rowed
<1>9. FenceInv' /\ ManifestInv'
  BY <1>6, <1>8 DEF IInv, Safe, FenceInv, ManifestInv
<1>10. ObjectInv'
  BY <1>2, <1>8 DEF IInv, Safe, ObjectInv, Holds
<1>11. HeadInv'
  BY <1>1, <1>2, <1>3, <1>5, <1>6 DEF HeadInv, CurrentServable, Verified
<1>12. GcInv'
  <2> SUFFICES ASSUME NEW c \in Collectors, NEW h \in Listed(c)
               PROVE  Dead(h)' /\ gens'[h].status # "unborn"
    BY <1>2 DEF GcInv, Listed
  <2>1. Dead(h) /\ gens[h].status # "unborn"
    BY DEF IInv, Safe, GcInv
  <2>2. h \in Gens
    BY DEF IInv, TypeOK, Listed, Collection
  <2>3. h # g
    <3>1. ~(gens[g].fence < head.fence)
      BY <1>1, RowTypes
    <3> QED
      BY <1>1, <2>1, <3>1 DEF Dead, Closed
  <2> QED
    BY <1>5, <1>6, <2>1, <2>2, <2>3 DEF Dead
<1>13. ReadInv'
  <2> SUFFICES ASSUME NEW r \in Readers, readers[r] # None, ~readers[r].lapsed
               PROVE  /\ readers[r].lease > 0
                      /\ gens'[readers[r].gen].status = "published"
                      /\ Verified(readers[r].gen, gens'[readers[r].gen].manifest)
                      /\ \A c \in Collectors : readers[r].gen \notin Listed(c)
    BY <1>2 DEF ReadInv, Verified, Listed
  <2>1. readers[r].gen \in Gens
    BY DEF IInv, TypeOK, ReaderRow
  <2>2. /\ readers[r].lease > 0
        /\ gens[readers[r].gen].status = "published"
        /\ Verified(readers[r].gen, gens[readers[r].gen].manifest)
        /\ \A c \in Collectors : readers[r].gen \notin Listed(c)
    BY DEF IInv, Safe, ReadInv
  <2> QED
    BY <1>3, <1>5, <1>8, <2>1, <2>2
<1>14. WorkInv'
  <2> SUFFICES ASSUME NEW a \in Builders
               PROVE  WorkOK(work'[a], gens')
    BY DEF WorkInv
  <2>1. CASE a = b
    BY <1>2, <2>1, IdleOK DEF IInv, TypeOK
  <2>2. CASE a # b
    <3>1. work'[a] = work[a] /\ work[a] \in Work /\ WorkOK(work[a], gens)
      BY <1>2, <2>2 DEF IInv, TypeOK, WorkInv
    <3>2. work[a].gen \in Gens \union {None}
      BY <3>1, WorkTypes
    <3> QED
      BY <1>8, <3>1, <3>2 DEF WorkOK
  <2> QED
    BY <2>1, <2>2
<1> QED
  BY <1>7, <1>9, <1>10, <1>11, <1>12, <1>13, <1>14 DEF IInv, Safe

-----------------------------------------------------------------------------
(* Readers, collectors and time *)

\* A reader lease that is set to run for another t.
LEMMA LeasedRow ==
    ASSUME NEW row \in ReaderRow, NEW t \in Clocks
    PROVE  /\ Leased(row, t) \in ReaderRow
           /\ Leased(row, t).gen = row.gen
           /\ Leased(row, t).lease = t
           /\ ~Leased(row, t).lapsed => ~row.lapsed /\ t > 0
<1> DEFINE over == row.lapsed \/ t <= 0
<1>1. row.gen \in Gens /\ row.lapsed \in BOOLEAN /\ t \in Int
  BY ClockValues DEF ReaderRow
<1>2. over \in BOOLEAN
  BY <1>1, Zenon
<1>3. ~over => ~row.lapsed /\ t > 0
  BY <1>1
<1>4. Leased(row, t) = [row EXCEPT !.lease = t, !.lapsed = over]
  BY Zenon DEF Leased
<1> HIDE DEF over
<1>5. [row EXCEPT !.lease = t, !.lapsed = over] \in ReaderRow
  BY <1>2, Zenon DEF ReaderRow
<1>6. LET r == [row EXCEPT !.lease = t, !.lapsed = over]
      IN  r.gen = row.gen /\ r.lease = t /\ r.lapsed = over
  BY <1>2, Zenon DEF ReaderRow
<1> QED
  BY <1>3, <1>4, <1>5, <1>6

LEMMA ReaderStep ==
    ASSUME IInv, (\E r \in Readers : Read(r)) \/ (\E d \in Delays : PruneReaders(d))
    PROVE  IInv'
<1>1. UNCHANGED <<head, gens, files, marker, work, gc>>
  BY DEF Read, Acquire, HeartbeatReader, Release, PruneReaders
\* Whatever a lease becomes, it protects what it may protect.
<1> DEFINE Fine(x) ==
      x # None /\ ~x.lapsed =>
        /\ x.lease > 0
        /\ gens[x.gen].status = "published"
        /\ Verified(x.gen, gens[x.gen].manifest)
        /\ \A c \in Collectors : x.gen \notin Listed(c)
<1>2. \A r \in Readers : readers[r] \in ReaderRow \union {None} /\ Fine(readers[r])
  BY DEF IInv, TypeOK, Safe, ReadInv
<1>3. ASSUME NEW r \in Readers, NEW d \in Delays, Acquire(r, d)
      PROVE  readers' \in [Readers -> ReaderRow \union {None}]
             /\ \A q \in Readers : Fine(readers'[q])
  <2> DEFINE new == [gen |-> head.current, lease |-> 0, lapsed |-> FALSE]
             x == Leased(new, ReaderLease - d)
  <2>1. readers' = [readers EXCEPT ![r] = x] /\ head.current # None
    BY <1>3 DEF Acquire
  <2>2. head.current \in Gens /\ ReaderLease - d \in Clocks /\ 0 \in Clocks
    BY <2>1, ClockValues DEF IInv, TypeOK
  <2>3. /\ x \in ReaderRow /\ x.gen = head.current
        /\ ~x.lapsed => x.lease > 0
    <3>1. new \in ReaderRow /\ new.gen = head.current
      BY <2>2 DEF ReaderRow
    <3> HIDE DEF new
    <3> QED
      BY <2>2, <3>1, LeasedRow
  <2>4. \A c \in Collectors : head.current \notin Listed(c)
    BY DEF IInv, Safe, GcInv, Dead
  <2>5. Fine(x)
    BY <2>1, <2>3, <2>4 DEF IInv, Safe, HeadInv, CurrentServable
  <2> HIDE DEF x, Fine
  <2> QED
    BY <1>2, <2>1, <2>3, <2>5 DEF IInv, TypeOK
<1>4. ASSUME NEW r \in Readers, NEW d \in Delays, HeartbeatReader(r, d)
      PROVE  readers' \in [Readers -> ReaderRow \union {None}]
             /\ \A q \in Readers : Fine(readers'[q])
  <2> DEFINE x == Leased(readers[r], ReaderLease - d)
  <2>1. /\ readers[r] # None /\ readers[r] \in ReaderRow
        /\ readers' = [readers EXCEPT ![r] = x]
    BY <1>2, <1>4 DEF HeartbeatReader, IInv, TypeOK
  <2>2. /\ x \in ReaderRow /\ x.gen = readers[r].gen
        /\ ~x.lapsed => ~readers[r].lapsed /\ x.lease > 0
    <3>1. ReaderLease - d \in Clocks
      BY ClockValues
    <3> QED
      BY <2>1, <3>1, LeasedRow, SMT
  <2> HIDE DEF x
  <2>3. Fine(x)
    BY <1>2, <2>1, <2>2
  <2> HIDE DEF Fine
  <2> QED
    BY <1>2, <2>1, <2>2, <2>3 DEF IInv, TypeOK
<1>5. ASSUME \A r \in Readers : readers'[r] \in {None, readers[r]},
             readers' = [r \in Readers |-> readers'[r]]
      PROVE  readers' \in [Readers -> ReaderRow \union {None}]
             /\ \A q \in Readers : Fine(readers'[q])
  <2>1. \A q \in Readers : readers'[q] \in ReaderRow \union {None} /\ Fine(readers'[q])
    BY <1>2, <1>5
  <2> HIDE DEF Fine
  <2> QED
    BY <1>5, <2>1
<1>6. /\ readers' \in [Readers -> ReaderRow \union {None}]
      /\ \A q \in Readers : Fine(readers'[q])
  <2>1. ASSUME NEW r \in Readers, Release(r)
        PROVE  /\ \A q \in Readers : readers'[q] \in {None, readers[q]}
               /\ readers' = [q \in Readers |-> readers'[q]]
    BY <2>1 DEF Release, IInv, TypeOK
  <2>2. ASSUME NEW d \in Delays, PruneReaders(d)
        PROVE  /\ \A q \in Readers : readers'[q] \in {None, readers[q]}
               /\ readers' = [q \in Readers |-> readers'[q]]
    BY <2>2 DEF PruneReaders
  <2> HIDE DEF Fine
  <2> QED
    BY <1>3, <1>4, <1>5, <2>1, <2>2 DEF Read
<1>7. TypeOK' /\ WorkInv'
  BY <1>1, <1>6 DEF IInv, TypeOK, WorkInv
<1>8. FenceInv' /\ ManifestInv' /\ ObjectInv' /\ HeadInv' /\ GcInv'
  BY <1>1 DEF IInv, Safe, FenceInv, ManifestInv, ObjectInv, Holds, HeadInv,
              CurrentServable, Verified, GcInv, Listed, Dead, Rowed
<1>9. ReadInv'
  BY <1>1, <1>6 DEF ReadInv, Verified, Listed
<1> QED
  BY <1>7, <1>8, <1>9 DEF IInv, Safe

\* A step of a collector that only changes what it has picked: everything new in
\* its list is dead, and no reader holds it whose lease never lapsed.
LEMMA PickStep ==
    ASSUME IInv, NEW c \in Collectors, NEW x \in Collection,
           gc' = [gc EXCEPT ![c] = x],
           UNCHANGED <<head, gens, files, marker, work, readers>>,
           \A g \in x.todo \union ({x.gen} \ {None}) :
              \/ g \in Listed(c)
              \/ /\ Dead(g) /\ gens[g].status # "unborn"
                 /\ \A r \in Readers :
                       readers[r] # None /\ readers[r].gen = g => readers[r].lapsed
    PROVE  IInv'
<1>1. /\ gc \in [Collectors -> Collection] /\ gc' \in [Collectors -> Collection]
      /\ gc'[c] = x /\ \A e \in Collectors : e # c => gc'[e] = gc[e]
  BY DEF IInv, TypeOK
<1>2. TypeOK' /\ WorkInv'
  BY <1>1 DEF IInv, TypeOK, WorkInv
<1>3. FenceInv' /\ ManifestInv' /\ ObjectInv' /\ HeadInv'
  BY DEF IInv, Safe, FenceInv, ManifestInv, ObjectInv, Holds, HeadInv,
         CurrentServable, Verified, Rowed
<1>4. GcInv'
  BY <1>1 DEF IInv, Safe, GcInv, Listed, Dead
<1>5. ReadInv'
  <2> SUFFICES ASSUME NEW r \in Readers, readers[r] # None, ~readers[r].lapsed
               PROVE  /\ readers[r].lease > 0
                      /\ gens[readers[r].gen].status = "published"
                      /\ Verified(readers[r].gen, gens[readers[r].gen].manifest)
                      /\ \A e \in Collectors : readers[r].gen \notin Listed(e)'
    BY DEF ReadInv, Verified
  <2> QED
    BY <1>1 DEF IInv, Safe, ReadInv, Listed
<1> QED
  BY <1>2, <1>3, <1>4, <1>5 DEF IInv, Safe

LEMMA CollectStep ==
    ASSUME IInv, NEW c \in Collectors, NEW S \in SUBSET Gens, NEW d \in Delays,
           Collect(c, S, d)
    PROVE  IInv'
<1> DEFINE x == [gc[c] EXCEPT !.todo = S]
<1>1. /\ gc[c] = Resting /\ gc[c] \in Collection
      /\ \A g \in S : Collectable(g, d)
      /\ gc' = [gc EXCEPT ![c] = x]
      /\ UNCHANGED <<head, gens, files, marker, work, readers>>
  BY DEF Collect, IInv, TypeOK
<1>2. x \in Collection
  BY <1>1, Zenon DEF Collection
<1>3. x.todo = S /\ x.gen = None
  BY <1>1 DEF Collection, Resting
<1> HIDE DEF x
<1>4. ASSUME NEW g \in S
      PROVE  Dead(g) /\ gens[g].status # "unborn"
  BY <1>1, <1>4 DEF Collectable, Dead, Closed, Open
<1>5. ASSUME NEW g \in S, NEW r \in Readers, readers[r] # None, readers[r].gen = g
      PROVE  readers[r].lapsed
  <2>1. readers[r].lease \in Int
    BY <1>5, ClockValues DEF IInv, TypeOK, ReaderRow
  <2>2. Past(readers[r].lease, d)
    BY <1>1, <1>5 DEF Collectable
  <2>3. ~(readers[r].lease > 0)
    BY <2>1, <2>2 DEF Past, Delays
  <2> QED
    BY <1>5, <2>3 DEF IInv, Safe, ReadInv
<1> QED
  BY <1>1, <1>2, <1>3, <1>4, <1>5, PickStep

LEMMA ListOrFailStep ==
    ASSUME IInv, NEW c \in Collectors,
           (\E g \in Gens : ListKeys(c, g)) \/ CollectFail(c)
    PROVE  IInv'
<1>1. gc[c] \in Collection /\ gc[c].todo \in SUBSET Gens
  BY DEF IInv, TypeOK, Collection
<1>2. ASSUME NEW g \in Gens, ListKeys(c, g)
      PROVE  IInv'
  <2> DEFINE x == [todo |-> gc[c].todo \ {g}, gen |-> g,
                   files |-> {f \in Files : files[g][f] # None},
                   marker |-> marker[g] # None]
  <2>1. /\ gc' = [gc EXCEPT ![c] = x] /\ g \in gc[c].todo
        /\ UNCHANGED <<head, gens, files, marker, work, readers>>
    BY <1>2 DEF ListKeys
  <2>2. /\ gc[c].todo \ {g} \in SUBSET Gens
        /\ {f \in Files : files[g][f] # None} \in SUBSET Files
        /\ (marker[g] # None) \in BOOLEAN
    BY <1>1
  <2>3. x \in Collection
    BY <2>2, Zenon DEF Collection
  <2>4. x.todo \subseteq gc[c].todo /\ x.gen \in gc[c].todo
    BY <2>1
  <2> HIDE DEF x
  <2> QED
    BY <2>1, <2>3, <2>4, PickStep DEF Listed
<1>3. CASE CollectFail(c)
  <2>1. PICK x : /\ gc' = [gc EXCEPT ![c] = x]
                 /\ \/ x = [Resting EXCEPT !.todo = gc[c].todo]
                    \/ x = Resting
                 /\ UNCHANGED <<head, gens, files, marker, work, readers>>
    BY <1>3 DEF CollectFail
  <2>2. Resting \in Collection
    BY DEF Resting, Collection
  <2>3. x \in Collection
    BY <1>1, <2>1, <2>2, Zenon DEF Collection
  <2>4. x.todo \subseteq gc[c].todo /\ x.gen = None
    BY <2>1 DEF Resting
  <2> QED
    BY <2>1, <2>3, <2>4, PickStep DEF Listed
<1> QED
  BY <1>2, <1>3

\* Deleting an object of the generation that a collector is working on.
LEMMA DeleteStep ==
    ASSUME IInv, NEW c \in Collectors,
           DeleteMarker(c) \/ \E f \in Files : DeleteFile(c, f)
    PROVE  IInv'
<1> DEFINE g == gc[c].gen
<1>1. gc[c] \in Collection /\ g # None /\ g \in Gens /\ g \in Listed(c)
  BY DEF IInv, TypeOK, Collection, DeleteMarker, DeleteFile, Listed
<1>2. /\ UNCHANGED <<head, gens, work, readers>>
      /\ marker' \in [Gens -> Contents \union {None}]
      /\ files' \in [Gens -> [Files -> Contents \union {None}]]
      /\ \A h \in Gens : h # g => marker'[h] = marker[h] /\ files'[h] = files[h]
      /\ marker'[g] \in {None, marker[g]}
      /\ \A f \in Files : files'[g][f] \in {None, files[g][f]}
  <2>1. CASE DeleteMarker(c)
    BY <1>1, <2>1 DEF DeleteMarker, IInv, TypeOK
  <2>2. ASSUME NEW f \in Files, DeleteFile(c, f)
        PROVE  <1>2!1 /\ <1>2!2 /\ <1>2!3 /\ <1>2!4 /\ <1>2!5 /\ <1>2!6
    BY <1>1, <2>2 DEF DeleteFile, IInv, TypeOK
  <2> QED
    BY <2>1, <2>2
<1>3. /\ gc' \in [Collectors -> Collection]
      /\ \A e \in Collectors : Listed(e)' = Listed(e)
  <2>1. CASE DeleteMarker(c)
    <3> DEFINE x == [gc[c] EXCEPT !.marker = FALSE]
    <3>1. gc' = [gc EXCEPT ![c] = x]
      BY <2>1 DEF DeleteMarker, IInv, TypeOK
    <3>2. x \in Collection /\ x.todo = gc[c].todo /\ x.gen = gc[c].gen
      BY <1>1 DEF Collection
    <3> HIDE DEF x
    <3> QED
      BY <3>1, <3>2 DEF IInv, TypeOK, Listed
  <2>2. ASSUME NEW f \in Files, DeleteFile(c, f)
        PROVE  <1>3!1 /\ <1>3!2
    <3> DEFINE left == gc[c].files \ {f}
               x == [gc[c] EXCEPT !.files = left]
    <3>1. gc' = [gc EXCEPT ![c] = x]
      BY <2>2 DEF DeleteFile, IInv, TypeOK
    <3>2. left \in SUBSET Files
      BY <1>1 DEF Collection
    <3>3. x \in Collection
      BY <1>1, <3>2, Zenon DEF Collection
    <3>4. x.todo = gc[c].todo /\ x.gen = gc[c].gen
      BY <1>1 DEF Collection
    <3> HIDE DEF x
    <3> QED
      BY <3>1, <3>3, <3>4 DEF IInv, TypeOK, Listed
  <2> QED
    BY <2>1, <2>2
<1>4. g # head.current
  BY <1>1 DEF IInv, Safe, GcInv, Dead
<1> HIDE DEF g
<1>5. TypeOK' /\ WorkInv'
  BY <1>2, <1>3 DEF IInv, TypeOK, WorkInv
<1>6. FenceInv' /\ ManifestInv'
  BY <1>2 DEF IInv, Safe, FenceInv, ManifestInv, Rowed
<1>7. ObjectInv'
  BY <1>1, <1>2 DEF IInv, Safe, ObjectInv, Holds, Rowed
<1>8. HeadInv'
  BY <1>2, <1>4 DEF IInv, Safe, HeadInv, CurrentServable, Verified, TypeOK
<1>9. GcInv'
  BY <1>2, <1>3 DEF IInv, Safe, GcInv, Dead
<1>10. ReadInv'
  <2> SUFFICES ASSUME NEW r \in Readers, readers[r] # None, ~readers[r].lapsed
               PROVE  /\ readers[r].lease > 0
                      /\ gens[readers[r].gen].status = "published"
                      /\ Verified(readers[r].gen, gens[readers[r].gen].manifest)'
                      /\ \A e \in Collectors : readers[r].gen \notin Listed(e)
    BY <1>2, <1>3 DEF ReadInv, Verified
  <2>1. readers[r].gen \in Gens
    BY DEF IInv, TypeOK, ReaderRow
  <2>2. /\ readers[r].lease > 0
        /\ gens[readers[r].gen].status = "published"
        /\ Verified(readers[r].gen, gens[readers[r].gen].manifest)
        /\ \A e \in Collectors : readers[r].gen \notin Listed(e)
    BY DEF IInv, Safe, ReadInv
  <2> QED
    BY <1>1, <1>2, <2>1, <2>2 DEF Verified
<1> QED
  BY <1>5, <1>6, <1>7, <1>8, <1>9, <1>10 DEF IInv, Safe

LEMMA ForgetStep ==
    ASSUME IInv, NEW c \in Collectors, NEW d \in Delays, Forget(c, d)
    PROVE  IInv'
<1> DEFINE g == gc[c].gen
           x == [gc[c] EXCEPT !.gen = None]
<1>1. gc[c] \in Collection /\ g # None /\ g \in Gens /\ g \in Listed(c)
  BY DEF IInv, TypeOK, Collection, Forget, Listed
<1>2. /\ gc' = [gc EXCEPT ![c] = x]
      /\ UNCHANGED <<head, files, marker, work, readers>>
  BY DEF Forget, IInv, TypeOK
<1>3. x \in Collection /\ x.todo = gc[c].todo /\ x.gen = None
  BY <1>1 DEF Collection
<1> HIDE DEF x
<1>4. CASE UNCHANGED gens
  BY <1>2, <1>3, <1>4, PickStep DEF Listed
<1>5. CASE gens' = [gens EXCEPT ![g] = NoRow("forgotten")]
  <2>1. /\ NoRow("forgotten") \in Row /\ NoRow("forgotten").status = "forgotten"
        /\ NoRow("forgotten").fence = 0
    BY NoRowOK DEF Statuses
  <2>2. /\ gens \in [Gens -> Row] /\ gens' \in [Gens -> Row]
        /\ gens'[g].status = "forgotten" /\ gens'[g].fence = 0
        /\ \A h \in Gens : h # g => gens'[h] = gens[h]
    BY <1>1, <1>5, <2>1 DEF IInv, TypeOK
  <2>3. /\ gc' \in [Collectors -> Collection]
        /\ \A e \in Collectors : Listed(e)' \subseteq Listed(e)
    BY <1>2, <1>3 DEF IInv, TypeOK, Listed
  <2>4. Dead(g) /\ g # head.current
    BY <1>1 DEF IInv, Safe, GcInv, Dead
  <2>5. head.fence \in Nat
    BY DEF IInv, TypeOK
  <2> HIDE DEF g
  <2>6. TypeOK'
    BY <1>2, <2>2, <2>3 DEF IInv, TypeOK
  <2>7. FenceInv' /\ ManifestInv'
    BY <1>2, <2>2, <2>5 DEF IInv, Safe, FenceInv, ManifestInv, Rowed
  <2>8. ObjectInv'
    BY <1>2, <2>2 DEF IInv, Safe, ObjectInv, Holds, Rowed
  <2>9. HeadInv'
    BY <1>2, <2>2, <2>4 DEF IInv, Safe, HeadInv, CurrentServable, Verified, TypeOK
  <2>10. GcInv'
    <3> SUFFICES ASSUME NEW e \in Collectors, NEW h \in Listed(e)
                 PROVE  Dead(h)' /\ gens'[h].status # "unborn"
      BY <2>3 DEF GcInv
    <3>1. Dead(h) /\ gens[h].status # "unborn"
      BY DEF IInv, Safe, GcInv
    <3>2. h \in Gens
      BY DEF IInv, TypeOK, Listed, Collection
    <3> QED
      BY <1>2, <2>2, <3>1, <3>2 DEF Dead
  <2>11. ReadInv'
    <3> SUFFICES ASSUME NEW r \in Readers, readers[r] # None, ~readers[r].lapsed
                 PROVE  /\ readers[r].lease > 0
                        /\ gens'[readers[r].gen].status = "published"
                        /\ Verified(readers[r].gen, gens'[readers[r].gen].manifest)
                        /\ \A e \in Collectors : readers[r].gen \notin Listed(e)
      BY <1>2, <2>3 DEF ReadInv, Verified
    <3>1. readers[r].gen \in Gens
      BY DEF IInv, TypeOK, ReaderRow
    <3>2. /\ readers[r].lease > 0
          /\ gens[readers[r].gen].status = "published"
          /\ Verified(readers[r].gen, gens[readers[r].gen].manifest)
          /\ \A e \in Collectors : readers[r].gen \notin Listed(e)
      BY DEF IInv, Safe, ReadInv
    <3> QED
      BY <1>1, <2>2, <3>1, <3>2
  <2>12. WorkInv'
    <3> SUFFICES ASSUME NEW a \in Builders
                 PROVE  WorkOK(work[a], gens')
      BY <1>2 DEF WorkInv
    <3>1. work[a] \in Work /\ WorkOK(work[a], gens)
      BY DEF IInv, TypeOK, WorkInv
    <3>2. work[a].gen \in Gens \union {None}
      BY <3>1, WorkTypes
    <3> QED
      BY <2>2, <3>1, <3>2 DEF WorkOK
  <2> QED
    BY <2>6, <2>7, <2>8, <2>9, <2>10, <2>11, <2>12 DEF IInv, Safe
<1> QED
  BY <1>4, <1>5 DEF Forget

LEMMA TickStep ==
    ASSUME IInv, Tick
    PROVE  IInv'
<1> DEFINE L(g) == IF gens[g].status \in Open \union Closed
                     THEN Nearer(gens[g].lease, Floor) ELSE gens[g].lease
           E(g) == IF gens[g].status \in Closed
                     THEN Nearer(gens[g].ended, Floor) ELSE gens[g].ended
           row(g) == [gens[g] EXCEPT !.lease = L(g), !.ended = E(g)]
           x(r) == Leased(readers[r], Nearer(readers[r].lease, -Lag))
<1>1. /\ gens' = [g \in Gens |-> row(g)]
      /\ readers' = [r \in Readers |-> IF readers[r] = None THEN None ELSE x(r)]
      /\ UNCHANGED <<head, files, marker, work, gc>>
  BY DEF Tick, Elapse
<1>2. \A g \in Gens : gens[g] \in Row /\ gens[g].lease \in Clocks /\ gens[g].ended \in Clocks
  BY RowTypes DEF IInv, TypeOK
<1>3. \A g \in Gens : L(g) \in Clocks /\ E(g) \in Clocks
  BY <1>2, ClockValues
<1> HIDE DEF L, E
<1>4. \A g \in Gens : row(g) \in Row
  BY <1>2, <1>3, Zenon DEF Row
<1>5. \A g \in Gens : /\ row(g).status = gens[g].status /\ row(g).fence = gens[g].fence
                      /\ row(g).token = gens[g].token /\ row(g).manifest = gens[g].manifest
  BY <1>2 DEF Row
<1> HIDE DEF row
<1>6. /\ gens' \in [Gens -> Row]
      /\ \A g \in Gens : /\ gens'[g].status = gens[g].status
                         /\ gens'[g].fence = gens[g].fence
                         /\ gens'[g].token = gens[g].token
                         /\ gens'[g].manifest = gens[g].manifest
  BY <1>1, <1>4, <1>5
<1>7. ASSUME NEW r \in Readers, readers[r] # None
      PROVE  /\ readers[r].gen \in Gens
             /\ x(r) \in ReaderRow /\ x(r).gen = readers[r].gen
             /\ ~x(r).lapsed => ~readers[r].lapsed /\ x(r).lease > 0
  <2>1. readers[r] \in ReaderRow
    BY <1>7 DEF IInv, TypeOK
  <2>2. readers[r].lease \in Clocks /\ readers[r].gen \in Gens
    BY <2>1 DEF ReaderRow
  <2>3. Nearer(readers[r].lease, -Lag) \in Clocks
    BY <2>2, ClockValues
  <2> QED
    BY <2>1, <2>2, <2>3, LeasedRow
<1> HIDE DEF x
<1>8. /\ readers' \in [Readers -> ReaderRow \union {None}]
      /\ \A r \in Readers : readers'[r] # None =>
            /\ readers[r] # None /\ readers[r].gen \in Gens
            /\ readers'[r].gen = readers[r].gen
            /\ ~readers'[r].lapsed => ~readers[r].lapsed /\ readers'[r].lease > 0
  <2>1. \A r \in Readers : x(r) # None \/ readers[r] = None
    BY <1>7, NullAssumption
  <2> QED
    BY <1>1, <1>7, <2>1
<1>9. TypeOK'
  BY <1>1, <1>6, <1>8 DEF IInv, TypeOK
<1>10. FenceInv' /\ ManifestInv'
  BY <1>1, <1>6 DEF IInv, Safe, FenceInv, ManifestInv, Rowed
<1>11. ObjectInv'
  BY <1>1, <1>6 DEF IInv, Safe, ObjectInv, Holds, Rowed
<1>12. HeadInv'
  BY <1>1, <1>6 DEF IInv, Safe, HeadInv, CurrentServable, Verified, TypeOK
<1>13. GcInv'
  <2> SUFFICES ASSUME NEW c \in Collectors, NEW h \in Listed(c)
               PROVE  Dead(h)' /\ gens'[h].status # "unborn"
    BY <1>1 DEF GcInv, Listed
  <2>1. Dead(h) /\ gens[h].status # "unborn"
    BY DEF IInv, Safe, GcInv
  <2>2. h \in Gens
    BY DEF IInv, TypeOK, Listed, Collection
  <2> QED
    BY <1>1, <1>6, <2>1, <2>2 DEF Dead
<1>14. ReadInv'
  <2> SUFFICES ASSUME NEW r \in Readers, readers'[r] # None, ~readers'[r].lapsed
               PROVE  /\ readers'[r].lease > 0
                      /\ gens'[readers'[r].gen].status = "published"
                      /\ Verified(readers'[r].gen, gens'[readers'[r].gen].manifest)
                      /\ \A c \in Collectors : readers'[r].gen \notin Listed(c)
    BY <1>1 DEF ReadInv, Verified, Listed
  <2>1. /\ readers[r].lease > 0
        /\ gens[readers[r].gen].status = "published"
        /\ Verified(readers[r].gen, gens[readers[r].gen].manifest)
        /\ \A c \in Collectors : readers[r].gen \notin Listed(c)
    BY <1>8 DEF IInv, Safe, ReadInv
  <2> QED
    BY <1>6, <1>8, <2>1
<1>15. WorkInv'
  <2> SUFFICES ASSUME NEW a \in Builders
               PROVE  WorkOK(work[a], gens')
    BY <1>1 DEF WorkInv
  <2>1. work[a] \in Work /\ WorkOK(work[a], gens)
    BY DEF IInv, TypeOK, WorkInv
  <2>2. work[a].gen \in Gens \union {None}
    BY <2>1, WorkTypes
  <2> QED
    BY <1>6, <2>1, <2>2 DEF WorkOK
<1> QED
  BY <1>9, <1>10, <1>11, <1>12, <1>13, <1>14, <1>15 DEF IInv, Safe

-----------------------------------------------------------------------------
(* Theorems *)

LEMMA InitIInv == Init => IInv
<1> SUFFICES ASSUME Init PROVE IInv
  OBVIOUS
<1>1. /\ NoRow("unborn") \in Row /\ NoRow("unborn").status = "unborn"
      /\ NoRow("unborn").fence = 0
  BY NoRowOK DEF Statuses
<1>2. Resting \in Collection /\ Resting.todo = {} /\ Resting.gen = None
  BY DEF Resting, Collection
<1>3. TypeOK
  BY <1>1, <1>2, IdleOK DEF Init, TypeOK
<1>4. FenceInv /\ ManifestInv
  BY <1>1 DEF Init, FenceInv, ManifestInv, Rowed
<1>5. ObjectInv
  BY <1>1 DEF Init, ObjectInv, Holds, Rowed
<1>6. HeadInv
  BY DEF Init, HeadInv, CurrentServable
<1>7. GcInv
  BY <1>2 DEF Init, GcInv, Listed
<1>8. ReadInv
  BY DEF Init, ReadInv
<1>9. WorkInv
  BY IdleOK DEF Init, WorkInv
<1> QED
  BY <1>3, <1>4, <1>5, <1>6, <1>7, <1>8, <1>9 DEF IInv, Safe

LEMMA NextIInv == IInv /\ [Next]_vars => IInv'
<1> SUFFICES ASSUME IInv, [Next]_vars PROVE IInv'
  OBVIOUS
<1>1. ASSUME NEW b \in Builders, Begin(b) PROVE IInv'
  BY <1>1, BeginNewStep, BeginAgainStep, TakeOverStep, HandOverStep DEF Begin
<1>2. ASSUME NEW b \in Builders, NEW d \in Delays, Heartbeat(b, d) \/ Abort(b, d)
      PROVE  IInv'
  BY <1>2, HeartbeatStep, AbortStep
<1>3. ASSUME NEW b \in Builders, Build(b) PROVE IInv'
  BY <1>3, PrepareStep, PublishStep, LocalStep, PutStep DEF Build
<1>4. ASSUME NEW b \in Builders, Quit(b) PROVE IInv'
  BY <1>4, LocalStep
<1>5. CASE (\E r \in Readers : Read(r)) \/ (\E d \in Delays : PruneReaders(d))
  BY <1>5, ReaderStep
<1>6. ASSUME NEW c \in Collectors, Sweep(c) \/ CollectFail(c) PROVE IInv'
  BY <1>6, CollectStep, ListOrFailStep, DeleteStep, ForgetStep DEF Sweep
<1>7. CASE Tick
  BY <1>7, TickStep
<1>8. CASE UNCHANGED vars
  <2>1. UNCHANGED <<head, gens, files, marker, work, readers, gc>>
    BY <1>8 DEF vars
  <2>2. TypeOK' /\ WorkInv'
    BY <2>1 DEF IInv, TypeOK, WorkInv
  <2> QED
    BY <2>1, <2>2 DEF IInv, Safe, FenceInv, ManifestInv, ObjectInv, Holds, HeadInv,
       CurrentServable, Verified, GcInv, Listed, Dead, ReadInv, Rowed
<1> QED
  BY <1>1, <1>2, <1>3, <1>4, <1>5, <1>6, <1>7, <1>8 DEF Next

\* IInv is an invariant of the generation store, its builders, readers and
\* collectors.
THEOREM Inductive == Spec => []IInv
BY InitIInv, NextIInv, PTL DEF Spec

\* Every column and every local variable keeps its type; leases in particular
\* never reach further than one lease from now.
THEOREM TypeCorrect == Spec => []TypeOK
<1>1. IInv => TypeOK
  BY DEF IInv
<1> QED
  BY <1>1, Inductive, PTL

\* What the head names is always published and complete in the object store.
THEOREM CurrentSafe == Spec => []CurrentServable
<1>1. IInv => CurrentServable
  BY DEF IInv, Safe, HeadInv
<1> QED
  BY <1>1, Inductive, PTL

\* A collector's snapshot never goes stale in a way that matters: nothing it
\* holds can become current before its objects are deleted.
THEOREM CollectorSafe == Spec => []CollectedIsDead
<1>1. IInv => CollectedIsDead
  BY DEF IInv, Safe, GcInv, Listed, CollectedIsDead
<1> QED
  BY <1>1, Inductive, PTL

\* The objects of a generation agree with the manifest of its row, whoever wrote
\* them.
THEOREM ObjectsSafe == Spec => []ObjectsMatch
<1>1. IInv => ObjectsMatch
  BY DEF IInv, Safe, ObjectInv, Holds, ObjectsMatch, Rowed
<1> QED
  BY <1>1, Inductive, PTL

\* A reader lease that has run without a gap protects the objects of its
\* generation, however old the clock readings of any transaction are: what a
\* collector finds expired has lapsed.
THEOREM ReaderSafe == Spec => []ReaderProtected
<1>1. IInv => ReaderProtected
  BY DEF IInv, Safe, ReadInv, ReaderProtected
<1> QED
  BY <1>1, Inductive, PTL

\* The head moves only by a publication that is fenced and built on what it
\* replaces.
THEOREM HeadSafe == Spec => HeadAdvances
<1> DEFINE A == head'.current # head.current =>
                  /\ head'.current # None
                  /\ gens[head'.current].status = "prepared"
                  /\ gens[head'.current].base = head.current
                  /\ head.current # None =>
                        gens[head.current].fence < gens[head'.current].fence
<1>1. ASSUME IInv, [Next]_vars PROVE [A]_vars
  <2>1. CASE head'.current = head.current
    BY <2>1
  <2>2. ASSUME NEW b \in Builders, NEW d \in Delays, Publish(b, d)
        PROVE  A
    <3> DEFINE g == work[b].gen
    <3>1. /\ g \in Gens /\ gens[g] \in Row /\ gens[g].status = "prepared"
          /\ gens[g].fence = head.fence /\ gens[g].base = head.current
          /\ head' = [head EXCEPT !.current = g]
      <4>1. Live(b, {"prepared"}, d)
        BY <2>2 DEF Publish, Publishable
      <4>2. g \in Gens /\ gens[g] \in Row /\ gens[g].status = "prepared"
        BY <1>1, <4>1, LiveRow
      <4>3. QED
        BY <2>2, <4>2 DEF Publish, Publishable
    <3>2. head'.current = g /\ g # None /\ head.current \in Gens \union {None}
      BY <1>1, <3>1, NamesAssumption DEF IInv, TypeOK
    <3>3. ASSUME head.current # None
          PROVE  gens[head.current].fence < gens[g].fence
      <4> DEFINE h == head.current
      <4>1. h \in Gens /\ gens[h].status = "published" /\ gens[h] \in Row
        BY <1>1, <3>2, <3>3 DEF IInv, Safe, HeadInv, CurrentServable, TypeOK
      <4>2. gens[h].fence <= head.fence /\ gens[h].fence # gens[g].fence
        BY <1>1, <3>1, <4>1 DEF IInv, Safe, FenceInv, Rowed
      <4> HIDE DEF h, g
      <4>3. gens[h].fence \in Nat /\ gens[g].fence \in Nat
        BY <3>1, <4>1, RowTypes
      <4>4. gens[h].fence < gens[g].fence
        BY <3>1, <4>2, <4>3
      <4> QED
        BY <4>4 DEF h
    <3> QED
      BY <3>1, <3>2, <3>3
  <2>3. ASSUME NEW b \in Builders, NEW g \in Gens, NEW build \in Builds,
               NEW d \in Delays, BeginNew(b, g, build, d)
        PROVE  head'.current = head.current
    BY <1>1, <2>3 DEF BeginNew, IInv, TypeOK
  <2>4. CASE UNCHANGED head
    BY <2>4
  <2> HIDE DEF A
  <2>5. \/ UNCHANGED head
        \/ \E b \in Builders, g \in Gens, build \in Builds, d \in Delays :
              BeginNew(b, g, build, d)
        \/ \E b \in Builders, d \in Delays : Publish(b, d)
    <3>1. CASE \E b \in Builders : Begin(b)
      BY <3>1 DEF Begin, BeginAgain, BeginExpired, Resume, HandOver
    <3>2. CASE \E b \in Builders : Build(b)
      BY <3>2, ZenonT(30) DEF Build, Prepare, Check, Rebuild, Adopt, Upload, PutMarker
    <3>3. CASE \E b \in Builders : Quit(b) \/ \E d \in Delays : Heartbeat(b, d) \/ Abort(b, d)
      BY <3>3 DEF Quit, Heartbeat, Abort
    <3>4. CASE (\E r \in Readers : Read(r)) \/ (\E d \in Delays : PruneReaders(d))
      BY <3>4 DEF Read, Acquire, HeartbeatReader, Release, PruneReaders
    <3>5. CASE \E c \in Collectors : Sweep(c) \/ CollectFail(c)
      BY <3>5 DEF Sweep, Collect, ListKeys, DeleteMarker, DeleteFile, Forget, CollectFail
    <3>6. CASE Tick \/ UNCHANGED vars
      BY <3>6 DEF Tick, Elapse, vars
    <3> QED
      BY <1>1, <3>1, <3>2, <3>3, <3>4, <3>5, <3>6 DEF Next
  <2>6. head'.current = head.current => A
    BY DEF A
  <2> QED
    BY <2>2, <2>3, <2>5, <2>6
<1>2. IInv /\ [Next]_vars => [A]_vars
  BY <1>1
<1> QED
  BY <1>2, Inductive, PTL DEF Spec, HeadAdvances

\* A takeover kills every capability that was handed out for the generation
\* before: tokens only grow, and only the latest passes _require_live.
THEOREM TakeoverSafe == Spec => TakeoverFences
<1> DEFINE A == \A g \in Gens, b \in Builders :
                  /\ gens'[g].owner # gens[g].owner
                  /\ work[b].gen = g
                  /\ work'[b] = work[b]
                  => ~Live(b, Open, 0)'
<1>1. ASSUME IInv, [Next]_vars, NEW g \in Gens, NEW b \in Builders,
             gens'[g].owner # gens[g].owner, work[b].gen = g, work'[b] = work[b]
      PROVE  ~Live(b, Open, 0)'
  <2>1. /\ gens \in [Gens -> Row] /\ gens[g] \in Row
        /\ work[b] \in Work /\ WorkOK(work[b], gens)
    BY <1>1 DEF IInv, TypeOK, WorkInv
  <2>2. g # None /\ gens[g].status # "unborn" /\ work[b].token \in Nat
    BY <1>1, <2>1, NamesAssumption, WorkTypes DEF WorkOK
  \* The steps that change an owner.
  <2>3. ASSUME NEW a \in Builders, NEW h \in Gens, NEW d \in Delays,
               BeginExpired(a, h, d) \/ Resume(a, h, d)
        PROVE  ~Live(b, Open, 0)'
    <3>1. /\ gens' = [gens EXCEPT ![h] = Rotated(gens[h], OwnerOf[a], d)]
          /\ gens[h].status \in Open \union {"aborted"}
      BY <2>3 DEF BeginExpired, Resume
    <3>2. h = g
      BY <1>1, <2>1, <3>1
    <3>3. gens'[g].token = gens[g].token + 1
      BY <2>1, <3>1, <3>2, RotatedRow
    <3>4. gens[g].status # "forgotten"
      BY <3>1, <3>2 DEF Open
    <3>5. work[b].token <= gens[g].token /\ gens[g].token \in Nat
      BY <1>1, <2>1, <2>2, <3>4, RowTypes DEF WorkOK
    <3>6. gens'[g].token # work[b].token
      BY <2>2, <3>3, <3>5
    <3> QED
      BY <1>1, <3>6 DEF Live
  <2>4. ASSUME NEW c \in Collectors, NEW d \in Delays, Forget(c, d)
        PROVE  ~Live(b, Open, 0)'
    <3>1. /\ gens' = [gens EXCEPT ![gc[c].gen] = NoRow("forgotten")]
          /\ gc[c].gen = g
      BY <1>1, <2>1, <2>4 DEF Forget
    <3>2. gens'[g].status = "forgotten"
      BY <2>1, <3>1, NoRowOK DEF Statuses
    <3> QED
      BY <1>1, <3>2 DEF Live, Open
  <2>5. ASSUME NEW a \in Builders, NEW h \in Gens, NEW build \in Builds,
               NEW d \in Delays, BeginNew(a, h, build, d)
        PROVE  FALSE
    BY <1>1, <2>1, <2>2, <2>5 DEF BeginNew
  \* All others leave it alone.
  <2>6. ASSUME NEW a \in Builders, NEW d \in Delays,
               \/ \E h \in Gens : HandOver(a, h, d)
               \/ Heartbeat(a, d)
               \/ \E c \in Contents : Prepare(a, c, d)
               \/ Publish(a, d)
               \/ Abort(a, d)
        PROVE  FALSE
    <3>1. \A h \in Gens : HandOver(a, h, d) => FALSE
      BY <1>1, <2>1 DEF HandOver, Row
    <3>2. Heartbeat(a, d) => FALSE
      BY <1>1, <2>1 DEF Heartbeat, Row
    <3>3. \A c \in Contents : Prepare(a, c, d) => FALSE
      BY <1>1, <2>1 DEF Prepare, Row
    <3>4. Publish(a, d) => FALSE
      BY <1>1, <2>1 DEF Publish, Row
    <3>5. Abort(a, d) => FALSE
      BY <1>1, <2>1 DEF Abort, Row
    <3> QED
      BY <2>6, <3>1, <3>2, <3>3, <3>4, <3>5
  <2>7. CASE Tick
    BY <1>1, <2>1, <2>7 DEF Tick, Elapse, Row
  <2>8. CASE UNCHANGED gens
    BY <1>1, <2>8
  <2>9. \/ UNCHANGED gens
        \/ Tick
        \/ \E a \in Builders, d \in Delays :
              \/ Heartbeat(a, d) \/ Publish(a, d) \/ Abort(a, d)
              \/ \E c \in Contents : Prepare(a, c, d)
              \/ \E h \in Gens : HandOver(a, h, d)
        \/ \E a \in Builders, h \in Gens, d \in Delays :
              \/ BeginExpired(a, h, d) \/ Resume(a, h, d)
              \/ \E build \in Builds : BeginNew(a, h, build, d)
        \/ \E c \in Collectors, d \in Delays : Forget(c, d)
    <3>1. CASE \E a \in Builders : Begin(a)
      BY <3>1 DEF Begin, BeginAgain
    <3>2. CASE \E a \in Builders : Build(a)
      BY <3>2 DEF Build, Check, Rebuild, Adopt, Upload, PutMarker
    <3>3. CASE \E a \in Builders : Quit(a) \/ \E d \in Delays : Heartbeat(a, d) \/ Abort(a, d)
      BY <3>3 DEF Quit
    <3>4. CASE (\E r \in Readers : Read(r)) \/ (\E d \in Delays : PruneReaders(d))
      BY <3>4 DEF Read, Acquire, HeartbeatReader, Release, PruneReaders
    <3>5. CASE \E c \in Collectors : Sweep(c) \/ CollectFail(c)
      BY <3>5 DEF Sweep, Collect, ListKeys, DeleteMarker, DeleteFile, CollectFail
    <3>6. CASE UNCHANGED vars
      BY <3>6 DEF vars
    <3> QED
      BY <1>1, <3>1, <3>2, <3>3, <3>4, <3>5, <3>6 DEF Next
  <2> QED
    BY <2>3, <2>4, <2>5, <2>6, <2>7, <2>8, <2>9
<1>2. IInv /\ [Next]_vars => [A]_vars
  BY <1>1
<1> QED
  BY <1>2, Inductive, PTL DEF Spec, TakeoverFences
=============================================================================
