--------------------------- MODULE MCResearchJobs ---------------------------
(* Instances of ResearchJobs for TLC: the runners are model values. *)
EXTENDS ResearchJobs

\* Of the calls in progress at most one is not a pause that has still to
\* cancel the dispatches.
OneCallBesidesPauses == Cardinality({c \in call : c.op # "pause"}) <= 1
=============================================================================
