----------------------------- MODULE LocalIngest -----------------------------
(***************************************************************************)
(* The documents of one knowledge base on a single node: index jobs that   *)
(* change the source directory (api/ingest.py), the mutation journal they  *)
(* write ahead (service/mutation_journal.py), the generation pointer in    *)
(* state.json (service/kb_state.py, service/ingest_service.py), the local  *)
(* deletion of the knowledge base (api/routes/documents.py) and the        *)
(* recovery at the next start (api/app.py).                                *)
(*                                                                         *)
(* Every file operation and every write of a JSON file is one action, and  *)
(* the process may die between any two of them.  A JSON file is replaced   *)
(* as a whole or not at all.  The jobs of a knowledge base run one at a    *)
(* time on its executor; a job that is refused before its first write is   *)
(* not shown.                                                              *)
(***************************************************************************)
EXTENDS LocalState, FiniteSets, FiniteSetsExt

disk == <<file, backup, journal, generations, active, record>>
vars == <<file, backup, journal, generations, active, record, job, jobs, proc,
          crashes, failures>>

TypeOK ==
    /\ file \in [Paths -> Versions]
    /\ backup \in [Entries -> Versions]
    /\ journal \in [Entries -> Entry \union {Nil}]
    /\ generations \in [Jobs -> Generation]
    /\ active \in 0..MaxJobs
    /\ record \in [life : {"active", "deleting", "deleted"}, registered : BOOLEAN,
                   lives : 0..MaxLives, asked : BOOLEAN]   \* a DELETE is being prepared
    /\ job \in Command \union {Nil}
    /\ jobs \in 0..MaxJobs
    /\ proc \in [state : {"down", "recovering", "up"}, todo : SUBSET Entries,
                 bad : BOOLEAN, at : Entries \union {Nil},
                 step : {"file", "write", "remove"},
                 end : {"open", "committed", "rolled_back"}]
    /\ crashes \in 0..MaxCrashes
    /\ failures \in 0..MaxFailures

NoGens  == [j \in Jobs |-> [status |-> "none", docs |-> NoFiles]]
Process(state, todo) ==
    [state |-> state, todo |-> todo, bad |-> FALSE, at |-> Nil, step |-> "file",
     end |-> "open"]

Init ==
    /\ file = NoFiles
    /\ backup = [e \in Entries |-> 0]
    /\ journal = [e \in Entries |-> Nil]
    /\ generations = NoGens
    /\ active = 0
    /\ record = [life |-> "active", registered |-> TRUE, lives |-> 1, asked |-> FALSE]
    /\ job = Nil
    /\ jobs = 0
    /\ proc = Process("up", {})
    /\ crashes = 0
    /\ failures = 0

-----------------------------------------------------------------------------
(***************************************************************************)
(* Helpers                                                                 *)
(***************************************************************************)
\* Mutant: unresolved entries of the knowledge base do not stop its next job.
HasEntriesNever == FALSE

\* has_entries: an entry that only could not be removed does not count.
HasEntries == \E e \in Entries : Open(e)

At(step) == proc.state = "up" /\ job # Nil /\ job.step = step

\* The journal entry of the running job for a document.
Mine(p) == <<job.id, p>>

\* A file operation fails.
Fault == failures < MaxFailures /\ failures' = failures + 1

Goto(step) == job' = [job EXCEPT !.step = step]

\* kb_write_lock, which an index job and _delete_kb hold from begin to end.
Locked == job # Nil

\* The exception handlers: what was done is undone in reverse order.
Unwind ==
    job' = IF job.done = {} THEN Nil ELSE [job EXCEPT !.step = "undo"]

-----------------------------------------------------------------------------
(***************************************************************************)
(* A job up to the build.                                                  *)
(***************************************************************************)

Start(kind, paths, step) ==
    /\ proc.state = "up"
    /\ job = Nil
    /\ job' = [id |-> IF kind = "drop" THEN 0 ELSE jobs + 1, kind |-> kind, todo |-> paths,
               done |-> {}, step |-> step, ok |-> FALSE]

\* _stale and _reject_if_unresolved passed.
Admitted ==
    /\ jobs < MaxJobs
    /\ record.life = "active"
    /\ record.registered
    /\ ~HasEntries
    /\ jobs' = jobs + 1

\* _run_with_writes; _run_with_write is the case of one file.
StartUpload ==
    /\ Admitted
    /\ \E paths \in (SUBSET Paths) \ {{}} : Start("upload", paths, "begin")
    /\ UNCHANGED <<disk, proc, crashes, failures>>

\* _run_with_delete_doc
StartDelete ==
    /\ Admitted
    /\ \E p \in {q \in Paths : file[q] # 0} : Start("delete_doc", {p}, "begin")
    /\ UNCHANGED <<disk, proc, crashes, failures>>

\* _run
StartRebuild ==
    /\ Admitted
    /\ Start("rebuild", {}, "build")
    /\ UNCHANGED <<disk, proc, crashes, failures>>

Reached == Min(job.todo)                \* the file the loop is at

\* begin_upload or begin_delete
Begin ==
    LET p == Reached IN
    /\ At("begin")
    /\ \/ /\ journal' = [journal EXCEPT ![Mine(p)] =
                [op |-> job.kind, old |-> file[p] # 0, moved |-> FALSE, gen |-> FALSE,
                 end |-> "open"]]
          /\ job' = [job EXCEPT !.step = IF file[p] # 0 THEN "move" ELSE "write",
                                !.done = @ \union {p}]
          /\ UNCHANGED failures
       \/ Fault /\ Unwind /\ UNCHANGED journal
    /\ UNCHANGED <<file, backup, generations, active, record, jobs, proc, crashes>>

\* os.replace(dest, backup)
Move ==
    LET p == Reached IN
    /\ At("move")
    /\ \/ /\ file' = [file EXCEPT ![p] = 0]
          /\ backup' = [backup EXCEPT ![Mine(p)] = file[p]]
          /\ Goto("mark")
          /\ UNCHANGED failures
       \/ Fault /\ Unwind /\ UNCHANGED <<file, backup>>
    /\ UNCHANGED <<journal, generations, active, record, jobs, proc, crashes>>

\* mark_source_moved
MarkMoved ==
    /\ At("mark")
    /\ \/ /\ journal' = [journal EXCEPT ![Mine(Reached)].moved = TRUE]
          /\ Goto(IF job.kind = "upload" THEN "write" ELSE "build")
          /\ UNCHANGED failures
       \/ Fault /\ Unwind /\ UNCHANGED journal
    /\ UNCHANGED <<file, backup, generations, active, record, jobs, proc, crashes>>

\* The new content; a failure leaves part of it, or nothing.
Write ==
    LET p == Reached
        rest == job.todo \ {p}
    IN
    /\ At("write")
    /\ \/ /\ file' = [file EXCEPT ![p] = job.id]
          /\ job' = [job EXCEPT !.todo = rest,
                                !.step = IF rest = {} THEN "build" ELSE "begin"]
          /\ UNCHANGED failures
       \/ /\ Fault
          /\ \E v \in {0, Torn} : file' = [file EXCEPT ![p] = v]
          /\ Unwind
    /\ UNCHANGED <<backup, journal, generations, active, record, jobs, proc, crashes>>

-----------------------------------------------------------------------------
(***************************************************************************)
(* The build and the commit point.                                         *)
(***************************************************************************)
\* begin_generation to mark_ready; the files may well be unreadable.
Build ==
    /\ At("build")
    /\ \/ /\ generations' = [generations EXCEPT ![job.id] = [status |-> "staged", docs |-> file]]
          /\ job' = [job EXCEPT !.todo = job.done,
                                !.step = IF job.done = {} THEN "switch" ELSE "record"]
       \/ Unwind /\ UNCHANGED generations
    /\ UNCHANGED <<file, backup, journal, active, record, jobs, proc, crashes, failures>>

\* mark_failed and the clean-up of a build that is given up.
Discarded == [generations EXCEPT ![job.id].status = "none"]

\* on_commit: record_generation for one entry after the other, then the
\* evidence in the job store, the authorization guard and the fencing check.
Record ==
    LET p == Reached
        rest == job.todo \ {p}
    IN
    /\ At("record")
    /\ \/ /\ journal' = [journal EXCEPT ![Mine(p)].gen = TRUE]
          /\ job' = [job EXCEPT !.todo = rest,
                                !.step = IF rest = {} THEN "switch" ELSE "record"]
          /\ UNCHANGED <<generations, failures>>
       \/ Fault /\ generations' = Discarded /\ Unwind /\ UNCHANGED journal
    /\ UNCHANGED <<file, backup, active, record, jobs, proc, crashes>>

\* switch_active, the commit point, unless the guard refuses.
SwitchActive ==
    /\ At("switch")
    /\ \/ /\ active' = job.id
          /\ generations' = [j \in Jobs |->
                IF j = job.id THEN [generations[j] EXCEPT !.status = "active"]
                ELSE IF j = active THEN [generations[j] EXCEPT !.status = "superseded"]
                ELSE generations[j]]
          /\ job' = IF job.done = {} THEN Nil ELSE [job EXCEPT !.step = "commit"]
       \/ generations' = Discarded /\ Unwind /\ UNCHANGED active
    /\ UNCHANGED <<file, backup, journal, record, jobs, proc, crashes, failures>>

\* The timer of the replaced generation, or the sweeper.
CollectGeneration ==
    /\ proc.state = "up"
    /\ ~Locked
    /\ \E j \in {i \in Jobs : generations[i].status = "superseded"} :
            generations' = [generations EXCEPT ![j] = [status |-> "none", docs |-> NoFiles]]
    /\ UNCHANGED <<file, backup, journal, active, record, job, jobs, proc, crashes, failures>>

-----------------------------------------------------------------------------
(***************************************************************************)
(* After a commit: entry by entry, each step as well as it can be done.    *)
(***************************************************************************)
First == Min(job.done)

CommitNext ==
    job' = IF job.done = {First} THEN Nil
           ELSE [job EXCEPT !.done = @ \ {First}, !.step = "commit"]

\* mark_committed
MarkCommitted ==
    /\ At("commit")
    /\ \/ /\ journal' = [journal EXCEPT ![Mine(First)].end = "committed"]
          /\ job' = [job EXCEPT !.step = "sweep", !.ok = TRUE]
          /\ UNCHANGED failures
       \/ /\ Fault
          /\ job' = [job EXCEPT !.step = "sweep", !.ok = FALSE]
          /\ UNCHANGED journal
    /\ UNCHANGED <<file, backup, generations, active, record, jobs, proc, crashes>>

\* _silent_remove(backup)
Sweep ==
    /\ At("sweep")
    /\ \/ backup' = [backup EXCEPT ![Mine(First)] = 0] /\ UNCHANGED failures
       \/ Fault /\ UNCHANGED backup
    /\ IF job.ok THEN Goto("clear") ELSE CommitNext
    /\ UNCHANGED <<file, journal, generations, active, record, jobs, proc, crashes>>

\* clear
Clear ==
    /\ At("clear")
    /\ \/ journal' = [journal EXCEPT ![Mine(First)] = Nil] /\ UNCHANGED failures
       \/ Fault /\ UNCHANGED journal
    /\ CommitNext
    /\ UNCHANGED <<file, backup, generations, active, record, jobs, proc, crashes>>

-----------------------------------------------------------------------------
(***************************************************************************)
(* After a failure: entry by entry in reverse order.                       *)
(***************************************************************************)
Last == Max(job.done)

UndoNext ==
    job' = IF job.done = {Last} THEN Nil
           ELSE [job EXCEPT !.done = @ \ {Last}, !.step = "undo"]

\* Mutant: only what was replaced is put back; a file that was new stays.
RestoredFromBackup(e) ==
    IF journal[e].old /\ backup[e] # 0 THEN [file EXCEPT ![e[2]] = backup[e]] ELSE file

\* The source directory with the entry's change taken back.
Restored(e) ==
    IF ~journal[e].old THEN [file EXCEPT ![e[2]] = 0]
    ELSE IF backup[e] # 0 THEN [file EXCEPT ![e[2]] = backup[e]]
    ELSE file

\* _rollback_upload, or _safe_restore of a deleted document.  An entry whose
\* file cannot be restored is left for the next start.
Undo ==
    LET e == Mine(Last) IN
    /\ At("undo")
    /\ \/ /\ file' = Restored(e)
          /\ backup' = [backup EXCEPT ![e] = 0]
          /\ Goto("undoMark")
          /\ UNCHANGED failures
       \/ Fault /\ UndoNext /\ UNCHANGED <<file, backup>>
    /\ UNCHANGED <<journal, generations, active, record, jobs, proc, crashes>>

\* _finish_rollback: mark_rolled_back, and clear whatever became of it.
UndoMark ==
    /\ At("undoMark")
    /\ \/ journal' = [journal EXCEPT ![Mine(Last)].end = "rolled_back"] /\ UNCHANGED failures
       \/ Fault /\ UNCHANGED journal
    /\ Goto("undoClear")
    /\ UNCHANGED <<file, backup, generations, active, record, jobs, proc, crashes>>

UndoClear ==
    /\ At("undoClear")
    /\ \/ journal' = [journal EXCEPT ![Mine(Last)] = Nil] /\ UNCHANGED failures
       \/ Fault /\ UNCHANGED journal
    /\ UndoNext
    /\ UNCHANGED <<file, backup, generations, active, record, jobs, proc, crashes>>

-----------------------------------------------------------------------------
(***************************************************************************)
(* The deletion of the knowledge base, and its next incarnation.           *)
(***************************************************************************)

\* _begin_connector_kb_delete runs outside the executor.
FenceDelete ==
    /\ proc.state = "up"
    /\ ~Locked
    /\ record.registered
    /\ record.life = "active"
    /\ record' = [record EXCEPT !.life = "deleting", !.asked = TRUE]
    /\ UNCHANGED <<file, backup, journal, generations, active, job, jobs, proc, crashes, failures>>

\* _restore_connector_kb_delete: a connector is just committing, or the caller
\* has lost the right to delete.
UndoFence ==
    /\ proc.state = "up"
    /\ ~Locked
    /\ record.asked
    /\ record' = [record EXCEPT !.life = "active", !.asked = FALSE]
    /\ UNCHANGED <<file, backup, journal, generations, active, job, jobs, proc, crashes, failures>>

\* _delete_kb on the executor, of this request or a retried one.
StartDrop ==
    /\ record.registered
    /\ record.life # "active"
    /\ Start("drop", {}, "fence")
    /\ record' = [record EXCEPT !.asked = FALSE]
    /\ UNCHANGED <<file, backup, journal, generations, active, jobs, proc, crashes, failures>>

DropStep(step, next) == At(step) /\ Goto(next)

\* delete_kb_index_transactional
DropFence ==
    /\ DropStep("fence", "tombstone")
    /\ record' = [record EXCEPT !.life = "deleting"]
    /\ UNCHANGED <<file, backup, journal, generations, active, jobs, proc, crashes, failures>>

\* mark_kb_deleted
DropTombstone ==
    /\ DropStep("tombstone", "forget")
    /\ record' = [record EXCEPT !.life = "deleted"]
    /\ UNCHANGED <<file, backup, journal, generations, active, jobs, proc, crashes, failures>>

\* clear_kb of the journal, one file after the other.
DropEntry ==
    /\ At("forget")
    /\ IF \A e \in Entries : journal[e] = Nil
       THEN Goto("erase") /\ UNCHANGED journal
       ELSE /\ \E e \in {d \in Entries : journal[d] # Nil} :
                    journal' = [journal EXCEPT ![e] = Nil]
            /\ UNCHANGED job
    /\ UNCHANGED <<file, backup, generations, active, record, jobs, proc, crashes, failures>>

\* KnowledgeBaseRegistry.delete: the directory with state.json, then the record.
DropDirectory ==
    /\ DropStep("erase", "deregister")
    /\ file' = NoFiles
    /\ backup' = [e \in Entries |-> 0]
    /\ generations' = NoGens
    /\ active' = 0
    /\ UNCHANGED <<journal, record, jobs, proc, crashes, failures>>

DropRecord ==
    /\ At("deregister")
    /\ record' = [record EXCEPT !.registered = FALSE]
    /\ job' = Nil
    /\ UNCHANGED <<file, backup, journal, generations, active, jobs, proc, crashes, failures>>

\* KnowledgeBaseRegistry.create: the record, then the lifecycle.
Create ==
    /\ proc.state = "up"
    /\ ~record.registered
    /\ record.lives < MaxLives
    /\ record' = [record EXCEPT !.life = "active", !.registered = TRUE, !.lives = @ + 1]
    /\ UNCHANGED <<file, backup, journal, generations, active, job, jobs, proc, crashes, failures>>

-----------------------------------------------------------------------------
(***************************************************************************)
(* Crash, and recover_all at the next start.                               *)
(***************************************************************************)

\* The process dies, in the middle of a write perhaps.
Crash ==
    /\ proc.state # "down"
    /\ crashes < MaxCrashes
    /\ crashes' = crashes + 1
    /\ file' \in IF At("write") THEN {file, [file EXCEPT ![Reached] = Torn]} ELSE {file}
    /\ proc' = Process("down", {})
    /\ job' = Nil
    /\ record' = [record EXCEPT !.asked = FALSE]
    /\ UNCHANGED <<backup, journal, generations, active, jobs, failures>>

Restart ==
    /\ proc.state = "down"
    /\ proc' = Process("recovering", {e \in Entries : journal[e] # Nil})
    /\ UNCHANGED <<disk, job, jobs, crashes, failures>>

\* Mutant: an entry that names a generation counts as committed.
CommittedByEvidence(e) == journal[e].end = "committed" \/ journal[e].gen

\* _is_committed, by state.json: the flag, else the generation was activated,
\* else the knowledge base is going away.
Committed(e) ==
    \/ journal[e].end = "committed"
    \/ /\ journal[e].gen
       /\ \/ generations[e[1]].status \in {"active", "superseded"}
          \/ record.life # "active"

\* Mutant: without the backup nothing can be rolled back.
RestorableFromBackup(e) == ~journal[e].old \/ backup[e] # 0

\* The rollback of _recover_entry: without the backup it is right only if the
\* original was never moved.
Restorable(e) == ~journal[e].old \/ backup[e] # 0 \/ ~journal[e].moved

Recovering(step) == proc.state = "recovering" /\ proc.at # Nil /\ proc.step = step

\* os.listdir gives the entries in any order.
RecoverNext ==
    /\ proc.state = "recovering"
    /\ proc.at = Nil
    /\ \E e \in proc.todo :
            proc' = [proc EXCEPT !.at = e, !.todo = @ \ {e}, !.step = "file"]
    /\ UNCHANGED <<disk, job, jobs, crashes, failures>>

\* The entry is left for the next start.
Leave == proc' = [proc EXCEPT !.at = Nil, !.bad = TRUE]

\* The file is as it should be; the direction is written only once.
Settle(e, end) ==
    proc' = [proc EXCEPT !.step = IF Open(e) THEN "write" ELSE "remove", !.end = end]

\* _recover_entry: forward if committed, else back.
RecoverForward ==
    LET e == proc.at IN
    /\ Recovering("file")
    /\ journal[e].end # "rolled_back"
    /\ Committed(e)
    /\ \/ backup' = [backup EXCEPT ![e] = 0] /\ UNCHANGED failures
       \/ Fault /\ UNCHANGED backup
    /\ Settle(e, "committed")
    /\ UNCHANGED <<file, journal, generations, active, record, job, jobs, crashes>>

RecoverBack ==
    LET e == proc.at IN
    /\ Recovering("file")
    /\ Open(e)
    /\ ~Committed(e)
    /\ \/ /\ Restorable(e)
          /\ file' = Restored(e)
          /\ backup' = [backup EXCEPT ![e] = 0]
          /\ Settle(e, "rolled_back")
          /\ UNCHANGED failures
       \/ ~Restorable(e) /\ Leave /\ UNCHANGED <<file, backup, failures>>
       \/ Fault /\ Leave /\ UNCHANGED <<file, backup>>
    /\ UNCHANGED <<journal, generations, active, record, job, jobs, crashes>>

RecoverDone ==
    /\ Recovering("file")
    /\ journal[proc.at].end = "rolled_back"
    /\ Settle(proc.at, "rolled_back")
    /\ UNCHANGED <<disk, job, jobs, crashes, failures>>

\* The direction is written down.
RecoverWrite ==
    /\ Recovering("write")
    /\ \/ /\ journal' = [journal EXCEPT ![proc.at].end = proc.end]
          /\ proc' = [proc EXCEPT !.step = "remove"]
          /\ UNCHANGED failures
       \/ Fault /\ Leave /\ UNCHANGED journal
    /\ UNCHANGED <<file, backup, generations, active, record, job, jobs, crashes>>

\* The entry is removed.
RecoverRemove ==
    /\ Recovering("remove")
    /\ \/ /\ journal' = [journal EXCEPT ![proc.at] = Nil]
          /\ proc' = [proc EXCEPT !.at = Nil]
          /\ UNCHANGED failures
       \/ Fault /\ Leave /\ UNCHANGED journal
    /\ UNCHANGED <<file, backup, generations, active, record, job, jobs, crashes>>

\* With an unresolved entry recover_all raises and the start fails.
Started ==
    /\ proc.state = "recovering"
    /\ proc.at = Nil
    /\ proc.todo = {}
    /\ proc' = Process(IF proc.bad THEN "down" ELSE "up", {})
    /\ UNCHANGED <<disk, job, jobs, crashes, failures>>

-----------------------------------------------------------------------------
JobStep ==
    \/ Begin \/ Move \/ MarkMoved \/ Write \/ Build \/ Record \/ SwitchActive
    \/ MarkCommitted \/ Sweep \/ Clear \/ Undo \/ UndoMark \/ UndoClear

DropKb == DropFence \/ DropTombstone \/ DropEntry \/ DropDirectory \/ DropRecord

Recovery ==
    \/ Restart \/ RecoverNext \/ RecoverForward \/ RecoverBack \/ RecoverDone
    \/ RecoverWrite \/ RecoverRemove \/ Started

Next ==
    \/ StartUpload \/ StartDelete \/ StartRebuild \/ JobStep
    \/ CollectGeneration
    \/ FenceDelete \/ UndoFence \/ StartDrop \/ DropKb \/ Create
    \/ Crash \/ Recovery

Spec == Init /\ [][Next]_vars

(***************************************************************************)
(* A process that has stopped is started again, and goes through its       *)
(* recovery.                                                               *)
(***************************************************************************)
FairSpec == Spec /\ WF_vars(Recovery)

-----------------------------------------------------------------------------
\* No later start can resolve the entry.
Stuck(e) == Open(e) /\ ~Committed(e) /\ journal[e].old /\ journal[e].moved /\ backup[e] = 0

(***************************************************************************)
(* The process always comes back to work, unless an entry was recorded as  *)
(* moved and its backup is gone: nothing else makes recover_all refuse for *)
(* good.                                                                   *)
(***************************************************************************)
RestartsUnlessStuck == []<>(proc.state = "up" \/ \E e \in Entries : Stuck(e))

(***************************************************************************)
(* A process that died during uploads can be started again: the journal    *)
(* written ahead of the files resolves every entry, wherever the crash     *)
(* fell, as the upload job has it.  The code does not keep it: a rollback  *)
(* puts the backup back before it writes rolled_back.  Deletions of a      *)
(* document have the same gap.                                             *)
(***************************************************************************)
CrashRecoverable ==
    proc.state = "down" => \A e \in Entries : Stuck(e) => journal[e].op # "upload"
=============================================================================
