--------------------------- MODULE IndexGeneration ---------------------------
(***************************************************************************)
(* Publication, reading and collection of immutable index generations for   *)
(* one knowledge base: IndexGenerationStore (ha/index_generation.py), the    *)
(* objects that ObjectIndexRepository keeps for it (ha/object_store.py), the *)
(* builders that drive them (DistributedIndexWorker._execute, the mirror and *)
(* the command line), the reader leases of RegistryIndexProvider.pin and the *)
(* collection pass of the maintenance runner (ha/maintenance.py).            *)
(*                                                                         *)
(* A database transaction is one action; an object-store call is another,    *)
(* so a builder, a collector and a reader interleave between any two of      *)
(* them.  Deadlines are relative to now and clock readings may be up to Lag  *)
(* old, as in JobQueue.                                                      *)
(***************************************************************************)
EXTENDS Integers

CONSTANTS
    Gens,           \* generation ids (uuid4, never drawn twice)
    Builds,         \* build_id values
    Builders,       \* build threads: queue workers, mirrors, command lines
    OwnerOf,        \* the worker_id of each builder's process
    Readers,        \* executions that pin a generation
    Collectors,     \* maintenance runners
    Files,          \* the files of an index
    Contents,       \* what an index directory may hold: the manifest digest
    None,           \* SQL NULL, a missing object
    Lease,          \* lease_seconds of a build
    ReaderLease,    \* lease_seconds of a reader
    Retention,      \* retention_seconds of the maintenance runner
    Lag,            \* bound on the age of a clock reading at commit
    MaxTokens       \* bound on the lease tokens drawn for one generation

ASSUME BoundsAssumption ==
    /\ Lease \in Nat \ {0}
    /\ ReaderLease \in Nat \ {0}
    /\ Retention \in Nat
    /\ Lag \in Nat
    /\ MaxTokens \in Nat \ {0}

ASSUME NamesAssumption == None \notin Gens \union Contents \union Builds

VARIABLES
    head,       \* the row of ha_index_heads
    gens,       \* table ha_index_generations
    files,      \* objects below <generation>/files/
    marker,     \* the object <generation>/manifest.json
    work,       \* what each builder is doing
    readers,    \* table ha_index_reader_leases
    gc          \* what each collector is doing

vars == <<head, gens, files, marker, work, readers, gc>>

Delays == 0..Lag
Floor  == -(Retention + Lag)
Clocks == Floor..(Lease + ReaderLease)
Owners == {OwnerOf[b] : b \in Builders}

Open     == {"building", "prepared"}
Closed   == {"published", "aborted"}
Statuses == Open \union Closed \union {"unborn", "forgotten"}

(***************************************************************************)
(* A generation row.  lease is lease_expires_at and ended is published_at or *)
(* aborted_at, relative to now.  A lease token is a random string; the       *)
(* number of tokens drawn for the generation so far stands for it.           *)
(***************************************************************************)
Row == [status   : Statuses,
        build    : Builds \union {None},
        base     : Gens \union {None},
        fence    : Nat,
        owner    : Owners \union {None},
        token    : Nat,
        lease    : Clocks,
        ended    : Clocks,
        manifest : Contents \union {None}]

NoRow(status) ==
    [status |-> status, build |-> None, base |-> None, fence |-> 0,
     owner |-> None, token |-> 0, lease |-> 0, ended |-> 0, manifest |-> None]

(***************************************************************************)
(* A builder: idle; begun (it holds a lease and builds a directory); upload  *)
(* (materialize is putting objects); check (everything is put, verification *)
(* comes next); ready (verified outside the publishing transaction).         *)
(* manifest is that of the generation dict it carries, content what its      *)
(* directory holds, done the files it has put.                               *)
(***************************************************************************)
Work == [pc       : {"idle", "begun", "upload", "check", "ready"},
         gen      : Gens \union {None},
         token    : Nat,
         manifest : Contents \union {None},
         content  : Contents \union {None},
         done     : SUBSET Files]

Idle == [pc |-> "idle", gen |-> None, token |-> 0, manifest |-> None,
         content |-> None, done |-> {}]

\* A collector: the snapshot of candidates still to collect, and the one whose
\* objects it is deleting with the keys it listed.
Collection == [todo : SUBSET Gens,
               gen  : Gens \union {None},
               files : SUBSET Files,
               marker : BOOLEAN]

Resting == [todo |-> {}, gen |-> None, files |-> {}, marker |-> FALSE]

\* A reader lease.  lapsed is a history variable: the lease has been over at some
\* moment since it was acquired, whether or not it runs again.  No step reads it.
ReaderRow == [gen : Gens, lease : Clocks, lapsed : BOOLEAN]

ASSUME NullAssumption == None \notin ReaderRow

TypeOK ==
    /\ head \in [current : Gens \union {None}, fence : Nat]
    /\ gens \in [Gens -> Row]
    /\ files \in [Gens -> [Files -> Contents \union {None}]]
    /\ marker \in [Gens -> Contents \union {None}]
    /\ work \in [Builders -> Work]
    /\ readers \in [Readers -> ReaderRow \union {None}]
    /\ gc \in [Collectors -> Collection]

Init ==
    /\ head = [current |-> None, fence |-> 0]
    /\ gens = [g \in Gens |-> NoRow("unborn")]
    /\ files = [g \in Gens |-> [f \in Files |-> None]]
    /\ marker = [g \in Gens |-> None]
    /\ work = [b \in Builders |-> Idle]
    /\ readers = [r \in Readers |-> None]
    /\ gc = [c \in Collectors |-> Resting]

\* The deadline has come for a clock reading that is d old.
Past(deadline, d) == deadline + d <= 0

\* ObjectIndexRepository.verify of a generation with the given manifest.
Verified(g, m) ==
    /\ m # None
    /\ marker[g] = m
    /\ \A f \in Files : files[g][f] = m

-----------------------------------------------------------------------------
(* Builders *)

\* The builder now works for the row (as the transaction leaves it).
Carry(b, g, row) ==
    work' = [work EXCEPT ![b] =
               [Idle EXCEPT !.pc = "begun", !.gen = g, !.token = row.token,
                            !.manifest = row.manifest]]

\* Mutant: the new lease keeps the old capability.
RotatedKeepsToken(row, owner, d) ==
    [row EXCEPT !.owner = owner, !.lease = Lease - d]

\* A row whose lease passes to a new owner under a new token.
Rotated(row, owner, d) ==
    [row EXCEPT !.owner = owner, !.token = row.token + 1, !.lease = Lease - d]

Existing(build) ==
    {g \in Gens : /\ gens[g].status \notin {"unborn", "forgotten"}
                  /\ gens[g].build = build}

\* begin_build, no row for the build_id: a new generation takes the next fence
\* and freezes the current generation as its base.
BeginNew(b, g, build, d) ==
    /\ work[b].pc = "idle"
    /\ Existing(build) = {}
    /\ gens[g].status = "unborn"
    /\ LET row == [NoRow("building") EXCEPT
                     !.build = build, !.base = head.current,
                     !.fence = head.fence + 1, !.owner = OwnerOf[b],
                     !.token = 1, !.lease = Lease - d]
       IN  /\ gens' = [gens EXCEPT ![g] = row]
           /\ Carry(b, g, row)
    /\ head' = [head EXCEPT !.fence = head.fence + 1]
    /\ UNCHANGED <<files, marker, readers, gc>>

\* begin_build, live lease of the same owner: the row is handed out again.
\* (A published row ends the builder's work, another owner's is a conflict.)
BeginAgain(b, g, d) ==
    /\ work[b].pc = "idle"
    /\ gens[g].status \in Open \union {"aborted"}
    /\ ~Past(gens[g].lease, d)
    /\ gens[g].owner = OwnerOf[b]
    /\ Carry(b, g, gens[g])
    /\ UNCHANGED <<head, gens, files, marker, readers, gc>>

\* begin_build, expired lease: the capability rotates while the generation
\* still has the newest fence.  The status is not looked at: an aborted row is
\* handed out too.
BeginExpired(b, g, d) ==
    /\ work[b].pc = "idle"
    /\ gens[g].status \in Open \union {"aborted"}
    /\ Past(gens[g].lease, d)
    /\ gens[g].fence = head.fence
    /\ gens[g].token < MaxTokens
    /\ LET row == Rotated(gens[g], OwnerOf[b], d)
       IN  /\ gens' = [gens EXCEPT ![g] = row]
           /\ Carry(b, g, row)
    /\ UNCHANGED <<head, files, marker, readers, gc>>

\* resume_build: the same for an open generation named by its id.
Resume(b, g, d) ==
    /\ work[b].pc = "idle"
    /\ gens[g].status \in Open
    /\ gens[g].fence = head.fence
    /\ Past(gens[g].lease, d)
    /\ gens[g].token < MaxTokens
    /\ LET row == Rotated(gens[g], OwnerOf[b], d)
       IN  /\ gens' = [gens EXCEPT ![g] = row]
           /\ Carry(b, g, row)
    /\ UNCHANGED <<head, files, marker, readers, gc>>

\* A queue worker was handed the capability of a live lease by its holder: it
\* renews the lease, whose owner stays what it was.
HandOver(b, g, d) ==
    /\ work[b].pc = "idle"
    /\ gens[g].status \in Open
    /\ ~Past(gens[g].lease, d)
    /\ LET row == [gens[g] EXCEPT !.lease = Lease - d]
       IN  /\ gens' = [gens EXCEPT ![g] = row]
           /\ Carry(b, g, row)
    /\ UNCHANGED <<head, files, marker, readers, gc>>

\* _require_live for the builder's generation and token.
Live(b, statuses, d) ==
    /\ work[b].gen # None
    /\ LET row == gens[work[b].gen]
       IN  /\ row.status \in statuses
           /\ row.token = work[b].token
           /\ ~Past(row.lease, d)

\* heartbeat: a live lease starts again.
Heartbeat(b, d) ==
    /\ Live(b, Open, d)
    /\ gens' = [gens EXCEPT ![work[b].gen].lease = Lease - d]
    /\ UNCHANGED <<head, files, marker, work, readers, gc>>

\* prepare: the manifest is fixed once, by the lease holder at the newest fence.
Prepare(b, c, d) ==
    /\ work[b].pc = "begun"
    /\ work[b].manifest = None
    /\ Live(b, Open, d)
    /\ LET g == work[b].gen
       IN  \/ /\ gens[g].status = "prepared"
              /\ gens[g].manifest = c
              /\ UNCHANGED gens
           \/ /\ gens[g].status = "building"
              /\ gens[g].fence = head.fence
              /\ gens' = [gens EXCEPT ![g].status = "prepared", ![g].manifest = c]
    /\ work' = [work EXCEPT ![b].pc = "upload", ![b].manifest = c, ![b].content = c]
    /\ UNCHANGED <<head, files, marker, readers, gc>>

\* The mirror and the command line materialize a prepared generation again from
\* their own directory.
Rebuild(b, c) ==
    /\ work[b].pc = "begun"
    /\ work[b].manifest # None
    /\ work' = [work EXCEPT ![b].pc = "upload", ![b].content = c]
    /\ UNCHANGED <<head, gens, files, marker, readers, gc>>

\* The queue worker only verifies a prepared generation.
Adopt(b) ==
    /\ work[b].pc = "begun"
    /\ work[b].manifest # None
    /\ work' = [work EXCEPT ![b].pc = "check"]
    /\ UNCHANGED <<head, gens, files, marker, readers, gc>>

\* put_file: the local bytes must have the manifest's hash, an object that is
\* already there must have it too (it is kept), no lease is asked for.
Upload(b, f) ==
    /\ work[b].pc = "upload"
    /\ f \notin work[b].done
    /\ work[b].content = work[b].manifest
    /\ files[work[b].gen][f] \in {None, work[b].manifest}
    /\ files' = [files EXCEPT ![work[b].gen][f] = work[b].manifest]
    /\ work' = [work EXCEPT ![b].done = @ \union {f}]
    /\ UNCHANGED <<head, gens, marker, readers, gc>>

\* The commit marker goes last.
PutMarker(b) ==
    /\ work[b].pc = "upload"
    /\ work[b].done = Files
    /\ work[b].content = work[b].manifest
    /\ marker[work[b].gen] \in {None, work[b].manifest}
    /\ marker' = [marker EXCEPT ![work[b].gen] = work[b].manifest]
    /\ work' = [work EXCEPT ![b].pc = "check"]
    /\ UNCHANGED <<head, gens, files, readers, gc>>

\* verify, outside any transaction: at the end of materialize and again at the
\* start of publish, where the row must be live too.
Check(b, d) ==
    /\ work[b].pc = "check"
    /\ Live(b, {"prepared"}, d)
    /\ Verified(work[b].gen, work[b].manifest)
    /\ work' = [work EXCEPT ![b].pc = "ready"]
    /\ UNCHANGED <<head, gens, files, marker, readers, gc>>

\* Mutant: no comparison with the head.
PublishableByLease(b, d) ==
    /\ Live(b, {"prepared"}, d)
    /\ Verified(work[b].gen, gens[work[b].gen].manifest)

\* The conditions of the publishing transaction.
Publishable(b, d) ==
    /\ Live(b, {"prepared"}, d)
    /\ LET g == work[b].gen
       IN  /\ gens[g].fence = head.fence
           /\ Verified(g, gens[g].manifest)
           /\ head.current = gens[g].base

\* publish: head and generation change together.
Publish(b, d) ==
    /\ work[b].pc = "ready"
    /\ Publishable(b, d)
    /\ LET g == work[b].gen
       IN  /\ head' = [head EXCEPT !.current = g]
           /\ gens' = [gens EXCEPT ![g].status = "published",
                                   ![g].lease = -d, ![g].ended = -d]
    /\ work' = [work EXCEPT ![b] = Idle]
    /\ UNCHANGED <<files, marker, readers, gc>>

\* abort: the mirror gives up a generation that the local index has overtaken.
Abort(b, d) ==
    /\ work[b].pc = "check"
    /\ Live(b, Open, d)
    /\ gens' = [gens EXCEPT ![work[b].gen].status = "aborted",
                            ![work[b].gen].lease = -d, ![work[b].gen].ended = -d]
    /\ work' = [work EXCEPT ![b] = Idle]
    /\ UNCHANGED <<head, files, marker, readers, gc>>

\* An exception or a crash: the builder forgets what it was doing.
Quit(b) ==
    /\ work[b].pc # "idle"
    /\ work' = [work EXCEPT ![b] = Idle]
    /\ UNCHANGED <<head, gens, files, marker, readers, gc>>

-----------------------------------------------------------------------------
(* Readers *)

\* The row of a reader lease that runs for another t.
Leased(row, t) == [row EXCEPT !.lease = t, !.lapsed = @ \/ t <= 0]

\* acquire_reader: a lease on whatever is current.
Acquire(r, d) ==
    /\ readers[r] = None
    /\ head.current # None
    /\ gens[head.current].status = "published"
    /\ readers' = [readers EXCEPT ![r] =
                     Leased([gen |-> head.current, lease |-> 0, lapsed |-> FALSE],
                            ReaderLease - d)]
    /\ UNCHANGED <<head, gens, files, marker, work, gc>>

\* heartbeat_reader: a lease that had expired when the clock was read is not
\* renewed; it may have expired between that reading and the transaction.
HeartbeatReader(r, d) ==
    /\ readers[r] # None
    /\ ~Past(readers[r].lease, d)
    /\ readers' = [readers EXCEPT ![r] = Leased(readers[r], ReaderLease - d)]
    /\ UNCHANGED <<head, gens, files, marker, work, gc>>

\* release_reader, whether the lease has expired or not.
Release(r) ==
    /\ readers[r] # None
    /\ readers' = [readers EXCEPT ![r] = None]
    /\ UNCHANGED <<head, gens, files, marker, work, gc>>

\* prune_reader_leases: rows of readers that vanished; its LIMIT counts those of
\* every knowledge base, so some may stay.
PruneReaders(d) ==
    /\ \E old \in (SUBSET {r \in Readers : readers[r] # None /\ Past(readers[r].lease, d)}) \ {{}} :
          readers' = [r \in Readers |-> IF r \in old THEN None ELSE readers[r]]
    /\ UNCHANGED <<head, gens, files, marker, work, gc>>

-----------------------------------------------------------------------------
(* Collectors *)

\* Mutant: an expired lease is enough, whatever the fence.
CollectableExpired(g, d) ==
    /\ g # head.current
    /\ \/ /\ gens[g].status \in Closed
          /\ Past(gens[g].ended + Retention, d)
       \/ /\ gens[g].status \in Open
          /\ Past(gens[g].lease + Retention, d)
    /\ \A r \in Readers :
          readers[r] # None /\ readers[r].gen = g => Past(readers[r].lease, d)

\* Mutant: reader leases are not asked for.
CollectableUnread(g, d) ==
    /\ g # head.current
    /\ \/ /\ gens[g].status \in Closed
          /\ Past(gens[g].ended + Retention, d)
       \/ /\ gens[g].status \in Open
          /\ Past(gens[g].lease + Retention, d)
          /\ gens[g].fence < head.fence

\* The WHERE clause of garbage_candidates and of forget_collectable.
Collectable(g, d) ==
    /\ g # head.current
    /\ \/ /\ gens[g].status \in Closed
          /\ Past(gens[g].ended + Retention, d)
       \/ /\ gens[g].status \in Open
          /\ Past(gens[g].lease + Retention, d)
          /\ gens[g].fence < head.fence
    /\ \A r \in Readers :
          readers[r] # None /\ readers[r].gen = g => Past(readers[r].lease, d)

\* garbage_candidates: a snapshot, in a transaction of its own; the deletions
\* below do not look at the tables again.  The retention cutoff was computed at
\* the start of the pass and the LIMIT counts the rows of every knowledge base,
\* so some candidates may be missing from it.
Collect(c, S, d) ==
    /\ gc[c] = Resting
    /\ S # {}
    /\ \A g \in S : Collectable(g, d)
    /\ gc' = [gc EXCEPT ![c].todo = S]
    /\ UNCHANGED <<head, gens, files, marker, work, readers>>

\* delete_generation lists the keys of the prefix once ...
ListKeys(c, g) ==
    /\ gc[c].gen = None
    /\ g \in gc[c].todo
    /\ gc' = [gc EXCEPT ![c] =
                [todo |-> gc[c].todo \ {g}, gen |-> g,
                 files |-> {f \in Files : files[g][f] # None},
                 marker |-> marker[g] # None]]
    /\ UNCHANGED <<head, gens, files, marker, work, readers>>

\* ... deletes the marker first ...
DeleteMarker(c) ==
    /\ gc[c].gen # None
    /\ gc[c].marker
    /\ marker' = [marker EXCEPT ![gc[c].gen] = None]
    /\ gc' = [gc EXCEPT ![c].marker = FALSE]
    /\ UNCHANGED <<head, gens, files, work, readers>>

\* ... and then one object after the other.
DeleteFile(c, f) ==
    /\ gc[c].gen # None
    /\ ~gc[c].marker
    /\ f \in gc[c].files
    /\ files' = [files EXCEPT ![gc[c].gen][f] = None]
    /\ gc' = [gc EXCEPT ![c].files = @ \ {f}]
    /\ UNCHANGED <<head, gens, marker, work, readers>>

\* forget_collectable: the row goes if it is still collectable.
Forget(c, d) ==
    /\ gc[c].gen # None
    /\ ~gc[c].marker
    /\ gc[c].files = {}
    /\ gens' = IF Collectable(gc[c].gen, d)
                 THEN [gens EXCEPT ![gc[c].gen] = NoRow("forgotten")]
                 ELSE gens
    /\ gc' = [gc EXCEPT ![c].gen = None]
    /\ UNCHANGED <<head, files, marker, work, readers>>

\* An exception ends the collection of one generation, a crash the whole pass.
CollectFail(c) ==
    /\ gc[c] # Resting
    /\ \/ /\ gc[c].gen # None
          /\ gc' = [gc EXCEPT ![c] = [Resting EXCEPT !.todo = gc[c].todo]]
       \/ gc' = [gc EXCEPT ![c] = Resting]
    /\ UNCHANGED <<head, gens, files, marker, work, readers>>

-----------------------------------------------------------------------------
Nearer(t, floor) == IF t > floor THEN t - 1 ELSE t

Elapse ==
    /\ gens' = [g \in Gens |->
                  [gens[g] EXCEPT
                    !.lease = IF gens[g].status \in Open \union Closed
                                THEN Nearer(@, Floor) ELSE @,
                    !.ended = IF gens[g].status \in Closed
                                THEN Nearer(@, Floor) ELSE @]]
    /\ readers' = [r \in Readers |->
                     IF readers[r] = None THEN None
                     ELSE Leased(readers[r], Nearer(readers[r].lease, -Lag))]
    /\ UNCHANGED <<head, files, marker, work, gc>>

Tick == Elapse /\ <<gens, readers>>' # <<gens, readers>>

Begin(b) ==
    \E g \in Gens, d \in Delays :
        \/ \E build \in Builds : BeginNew(b, g, build, d)
        \/ BeginAgain(b, g, d)
        \/ BeginExpired(b, g, d)
        \/ Resume(b, g, d)
        \/ HandOver(b, g, d)

Build(b) ==
    \/ \E d \in Delays :
          \/ \E c \in Contents : Prepare(b, c, d)
          \/ Check(b, d)
          \/ Publish(b, d)
    \/ \E c \in Contents : Rebuild(b, c)
    \/ Adopt(b)
    \/ \E f \in Files : Upload(b, f)
    \/ PutMarker(b)

Read(r) ==
    \/ \E d \in Delays : Acquire(r, d) \/ HeartbeatReader(r, d)
    \/ Release(r)

Sweep(c) ==
    \/ \E S \in SUBSET Gens, d \in Delays : Collect(c, S, d)
    \/ \E g \in Gens : ListKeys(c, g)
    \/ DeleteMarker(c)
    \/ \E f \in Files : DeleteFile(c, f)
    \/ \E d \in Delays : Forget(c, d)

Next ==
    \/ \E b \in Builders :
          \/ Begin(b)
          \/ \E d \in Delays : Heartbeat(b, d) \/ Abort(b, d)
          \/ Build(b)
          \/ Quit(b)
    \/ \E r \in Readers : Read(r)
    \/ \E d \in Delays : PruneReaders(d)
    \/ \E c \in Collectors : Sweep(c) \/ CollectFail(c)
    \/ Tick

Spec == Init /\ [][Next]_vars

-----------------------------------------------------------------------------
(* Properties *)

\* The first invariant of the high-availability mode: what is current is a
\* published generation whose marker and objects are all there and match its
\* manifest, whatever builders, late uploads and collectors do.
CurrentServable ==
    head.current # None =>
        /\ gens[head.current].status = "published"
        /\ Verified(head.current, gens[head.current].manifest)

\* A generation that a collector has picked is dead for good: it can never be
\* current again, so deleting its objects without another look is safe.
Dead(g) ==
    /\ g # head.current
    /\ \/ gens[g].status \in Closed \union {"forgotten"}
       \/ gens[g].fence < head.fence

CollectedIsDead ==
    \A c \in Collectors : \A g \in gc[c].todo \union ({gc[c].gen} \ {None}) : Dead(g)

\* No object of a generation differs from the manifest in its row: two threads
\* of one worker may build it under the same lease, one after another may take
\* it over, and a builder that lost it may still be uploading.
ObjectsMatch ==
    \A g \in Gens : gens[g].status \notin {"unborn", "forgotten"} =>
        /\ marker[g] \in {None, gens[g].manifest}
        /\ \A f \in Files : files[g][f] \in {None, gens[g].manifest}

\* A reader whose lease has run without a gap since acquire_reader can verify every
\* object of the generation it has pinned, however old the clock readings of the
\* other transactions are.  A lease that had lapsed and was renewed by a
\* heartbeat_reader that had read its clock before is worth nothing: a collector
\* may have selected the generation in the gap, and never looks at it again.
ReaderProtected ==
    \A r \in Readers : readers[r] # None /\ ~readers[r].lapsed =>
        Verified(readers[r].gen, gens[readers[r].gen].manifest)

\* The head only moves forward: to a generation with a higher fencing token that
\* was built on the generation it replaces and was never current before.
HeadAdvances ==
    [][head'.current # head.current =>
         /\ head'.current # None
         /\ gens[head'.current].status = "prepared"
         /\ gens[head'.current].base = head.current
         /\ head.current # None =>
               gens[head.current].fence < gens[head'.current].fence]_vars

\* Once another owner has taken an expired build over, the capability of every
\* builder that worked on it before is dead, however late its next call is.
TakeoverFences ==
    [][\A g \in Gens, b \in Builders :
         /\ gens'[g].owner # gens[g].owner
         /\ work[b].gen = g
         /\ work'[b] = work[b]
         => ~Live(b, Open, 0)']_vars
=============================================================================
