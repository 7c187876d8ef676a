--------------------------- MODULE MCKnowledgeBase ---------------------------
EXTENDS KnowledgeBase, TLC
CONSTANTS n1, n2, w1, w2, d1, d2

\* Two nodes, each with a worker and a deleter.
Placement ==
    [t \in Workers \union Deleters |-> IF t \in {w1, d1} THEN n1 ELSE n2]

\* Nodes are interchangeable together with their threads, and one deletion is
\* begun within the bounds: it may be begun on the first node.  The second
\* deleter then repeats the request or takes over a deletion that broke off.
FirstDeleter == saga[d2] # None => faults > 0

\* Index jobs and artifact uploads meet only in the deletion: no action of one
\* reads or writes what is the other's.  So the two are explored beside the
\* deletion one at a time.
OneKindOfWork ==
    \/ lease.fence = 0
    \/ /\ artifact = [row |-> FALSE, intent |-> "none", object |-> FALSE]
       /\ \A u \in Uploaders : put[u] = "idle"
=============================================================================
