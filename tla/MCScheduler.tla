----------------------------- MODULE MCScheduler -----------------------------
(* Instances of Scheduler for TLC: identifiers are model values. *)
EXTENDS Scheduler, TLC

CONSTANTS s1, s2, p2, j1, j2

\* Job identifiers are interchangeable, so the first job may be given the first
\* one: what is left out are renamings of the behaviours that stay.
FirstFirst == jobs[j2].status # "unborn" => jobs[j1].status # "unborn"

\* The second schedule is there to break the polls of the first.  Bounds, while it
\* exists: it was due when it was created, the first repeats at an interval, the
\* ledger is not pruned, and one of the pollers dispatches.  The other still polls,
\* raises and reads: fairness stands for both.
SecondBreaks ==
    \/ schedules[s2].kind = "none"
    \/ /\ schedules[s2].kind = "never" /\ schedules[s2].next <= 0
       /\ schedules[s1].kind \in {"none", "interval"}
       /\ \A f \in Fires : fires[f].status # "pruned"
       /\ polls[p2].step \in {"idle", "raised", "read"}
=============================================================================
