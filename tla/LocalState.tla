----------------------------- MODULE LocalState -----------------------------
(***************************************************************************)
(* The state of one knowledge base on a single node and what must be true  *)
(* of it at every moment; LocalIngest has the steps.                       *)
(*                                                                         *)
(* A file is named by the job that wrote it; 0 is no file, Torn a partly   *)
(* written one.                                                            *)
(***************************************************************************)
EXTENDS Integers

CONSTANTS
    NumPaths,       \* documents of the knowledge base
    MaxJobs,        \* bound on the jobs run
    MaxLives,       \* bound on the incarnations of the knowledge base
    MaxCrashes,     \* bound on the crashes
    MaxFailures,    \* bound on the failing file operations
    Nil

ASSUME SizesAssumption ==
    /\ NumPaths \in Nat
    /\ MaxJobs \in Nat
    /\ MaxLives \in Nat \ {0}
    /\ MaxCrashes \in Nat
    /\ MaxFailures \in Nat

VARIABLES
    file,           \* the source directory
    backup,         \* the .cogdoc-bak file of each journal entry
    journal,        \* the entries of the mutation journal
    generations,    \* of state.json, named by the job that built them
    active,         \* active_generation, 0 for None
    record,         \* lifecycle.json, the registry record, incarnations so far
    job,            \* the command on the executor
    jobs,           \* jobs run so far
    proc,           \* the process, and recover_all while it starts
    crashes,
    failures

Paths    == 1..NumPaths
Jobs     == 1..MaxJobs
Torn     == MaxJobs + 1
Versions == 0..Torn
Entries  == Jobs \X Paths

Entry == [op    : {"upload", "delete_doc"},
          old   : BOOLEAN,                                  \* had_old
          moved : BOOLEAN,                                  \* source_moved
          gen   : BOOLEAN,                                  \* gen_id is recorded
          end   : {"open", "committed", "rolled_back"}]

Generation == [status : {"none", "staged", "active", "superseded"},
               docs   : [Paths -> Versions]]

Command == [id    : 0..MaxJobs,
            kind  : {"upload", "delete_doc", "rebuild", "drop"},
            todo  : SUBSET Paths,       \* paths that the current loop has not reached
            done  : SUBSET Paths,       \* mutations
            step  : {"begin", "move", "mark", "write", "build", "record", "switch",
                     "undo", "undoMark", "undoClear", "commit", "sweep", "clear",
                     "fence", "tombstone", "forget", "erase", "deregister"},
            ok    : BOOLEAN]            \* committed_marked

\* Nil stands for no entry, no command and no file at hand.
ASSUME NilAssumption == Nil \notin Entry \union Command \union Entries

NoFiles == [p \in Paths |-> 0]

Open(e) == journal[e] # Nil /\ journal[e].end = "open"

\* The documents of a generation, 0 being no generation.
Docs(g) == IF g = 0 THEN NoFiles ELSE generations[g].docs

\* Index jobs may still run: the DELETE that has fenced the knowledge base may be
\* taken back as long as its job has not started.
Usable == record.registered /\ (record.life = "active" \/ record.asked)

\* The steps of an index job up to its commit point.
Ahead == {"begin", "move", "mark", "write", "build", "record", "switch"}

\* An index job is running that has not come to its commit point.
Pending == job # Nil /\ job.step \in Ahead

-----------------------------------------------------------------------------
\* Nothing is running and nothing is left to recover.
Settled ==
    /\ proc.state = "up"
    /\ job = Nil
    /\ record.registered
    /\ record.life = "active"
    /\ \A e \in Entries : ~Open(e)

(***************************************************************************)
(* Whenever the executor is idle and the journal is resolved, the source   *)
(* directory holds exactly the documents of the active generation: a batch *)
(* is in with all its files or with none, whatever failed and wherever the *)
(* process died.                                                           *)
(***************************************************************************)
SourceMatchesActive == Settled => file = Docs(active)

(***************************************************************************)
(* At no moment is a document of the active generation beyond recovery: it *)
(* is in the source directory, or in the backup of an entry that is still  *)
(* open.                                                                   *)
(***************************************************************************)
NothingLost ==
    record.registered /\ record.life = "active" =>
        \A p \in Paths : Docs(active)[p] \in {0, file[p]}
            \/ \E j \in Jobs : Open(<<j, p>>) /\ backup[<<j, p>>] = Docs(active)[p]

(***************************************************************************)
(* Those who ask see whole jobs: whatever the steps of a job, its failures *)
(* and its undoing, crashes, recovery and the collection of generations do *)
(* to the files and to state.json, the documents of the active generation  *)
(* change as ServedDocuments has it.                                       *)
(***************************************************************************)
Served == INSTANCE ServedDocuments WITH
    served <- Docs(active), usable <- Usable, begun <- jobs, running <- Pending

ImplementsDocuments == Served!Spec
=============================================================================
