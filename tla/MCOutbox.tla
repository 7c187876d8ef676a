------------------------------ MODULE MCOutbox ------------------------------
(* Instances of Outbox for TLC: identifiers are model values. *)
EXTENDS Outbox, TLC

CONSTANTS e1, e2, k1, a1, w2

\* Identifiers, aggregates and keys are interchangeable, so the first append may
\* be given the first of each.  Appends are not subject to fairness: leaving the
\* others out takes away only renamings of the behaviours that stay.
FirstFirst ==
    /\ events[e2].status # "unborn" => events[e1].status # "unborn"
    /\ events[e1].key \in {k1, None}
    /\ events[e1].aggregate \in {a1, None}

\* The second aggregate is there for the transactions that overlap and for the
\* feeds that read them.  Bound: while both are in use, one dispatcher is, and it
\* claims each event once.
Apart ==
    \E i, e \in Events : /\ events[i].aggregate # None /\ events[e].aggregate # None
                         /\ events[i].aggregate # events[e].aggregate

OnceApart ==
    Apart => busy[w2] = None /\ \A e \in Events : events[e].attempt <= 1
=============================================================================
