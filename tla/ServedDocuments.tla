--------------------------- MODULE ServedDocuments ---------------------------
(***************************************************************************)
(* What the index jobs of one knowledge base promise to whoever asks it    *)
(* questions: the documents that answers are drawn from change by whole    *)
(* jobs, which run one at a time.  A job brings in all the files of its    *)
(* batch, or takes exactly its document away, or has changed nothing when  *)
(* it is over.  Each job changes the documents once at most, so a version  *)
(* that was replaced or taken away never comes back.  A knowledge base     *)
(* that has been given up loses its documents and starts again without     *)
(* any.                                                                    *)
(***************************************************************************)
EXTENDS Integers

CONSTANT
    Paths       \* documents

VARIABLES
    served,     \* the job that uploaded each document, 0 where there is none
    usable,     \* no deletion has been decided on
    begun,      \* jobs so far
    running     \* the last of them may still change the documents

NoDocuments == [p \in Paths |-> 0]

Init ==
    /\ served = NoDocuments
    /\ usable = TRUE
    /\ begun = 0
    /\ running = FALSE

Begin ==
    /\ usable
    /\ ~running
    /\ begun' = begun + 1
    /\ running' = TRUE
    /\ UNCHANGED <<served, usable>>

End == running /\ running' = FALSE /\ UNCHANGED <<usable, begun>>

Upload(batch) ==
    /\ End
    /\ usable
    /\ served' = [p \in Paths |-> IF p \in batch THEN begun ELSE served[p]]

Remove(p) ==
    /\ End
    /\ usable
    /\ served' = [served EXCEPT ![p] = 0]

\* A failure, a crash, or a rebuild.
Keep == End /\ UNCHANGED served

GiveUp ==
    /\ usable
    /\ usable' = FALSE
    /\ running' = FALSE
    /\ UNCHANGED <<served, begun>>

Erase ==
    /\ ~usable
    /\ served' = NoDocuments
    /\ UNCHANGED <<usable, begun, running>>

Create ==
    /\ ~usable
    /\ served = NoDocuments
    /\ usable' = TRUE
    /\ UNCHANGED <<served, begun, running>>

Next ==
    \/ Begin
    \/ \E batch \in SUBSET Paths : Upload(batch)
    \/ \E p \in Paths : Remove(p)
    \/ Keep \/ GiveUp \/ Erase \/ Create

vars == <<served, usable, begun, running>>

Spec == Init /\ [][Next]_vars
==============================================================================
