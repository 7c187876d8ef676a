---------------------------- MODULE OutboxProofs ----------------------------
(***************************************************************************)
(* Proofs about Outbox, for any numbers of events, aggregates, dispatchers  *)
(* and nodes and any bounds.  IInv strengthens the delivery properties with  *)
(*   RevInv    revisions are given out and committed in order;               *)
(*   StartInv  an event whose delivery has begun has only delivered          *)
(*             predecessors, and nothing reaches the consumer otherwise.     *)
(* The cursors of the feeds need                                             *)
(*   StampInv  no two rows have the same place in the order of the table;      *)
(*   FeedInv   a batch leaves no earlier row behind it unaccounted for.        *)
(***************************************************************************)
EXTENDS Outbox, FiniteSetTheorems, TLAPS

RevInv ==
    /\ \A e \in Events : Stored(e) => /\ events[e].aggregate \in Aggregates
                                      /\ events[e].revision <= revisions[events[e].aggregate]
    /\ \A e \in Open : /\ events[e].aggregate \in Aggregates
                       /\ events[e].key \in Keys
                       /\ events[e].revision = revisions[events[e].aggregate] + 1
                       /\ events[e].attempt = 0
    /\ \A i, e \in Open : events[i].aggregate = events[e].aggregate => i = e

\* Every earlier event of the aggregate that is in the table is delivered.
Cleared(e) ==
    \A i \in Events : /\ Stored(i)
                      /\ events[i].aggregate = events[e].aggregate
                      /\ Before(events[i], events[e])
                      => events[i].status = "delivered"

\* The delivery of e has begun.
Begun(e) == events[e].status = "pruned" \/ (Stored(e) /\ events[e].attempt > 0)

StartInv ==
    /\ \A e \in Events : Stored(e) /\ events[e].attempt > 0 => Cleared(e)
    /\ \A e \in received : Begun(e)
    /\ \A w \in Dispatchers : busy[w] # None =>
          /\ Begun(busy[w].event)
          /\ busy[w].step = "ok" => busy[w].event \in received
    /\ \A e \in Events : events[e].status \in {"delivered", "pruned"} => e \in received

IInv == TypeOK /\ RevInv /\ StartInv

-----------------------------------------------------------------------------
(* Types *)

LEMMA ClockValues ==
    /\ Clocks \subseteq Int
    /\ 0 \in Clocks
    /\ Retention \in Clocks
    /\ \A d \in Delays : Lease - d \in Clocks
    /\ \A d \in Delays, delay \in 0..MaxBackoff : delay - d \in Clocks
    /\ \A t \in Clocks : Nearer(t) \in Clocks
  BY BoundsAssumption DEF Clocks, Delays, Nearer

LEMMA RowTypes ==
    ASSUME NEW row \in Row
    PROVE  /\ row.status \in InTable \union {"unborn", "open", "void", "pruned"}
           /\ row.revision \in Nat /\ row.created \in Nat
           /\ row.attempt \in Nat /\ row.attempt <= MaxAttempts
           /\ row.lease \in Clocks /\ row.wait \in Clocks /\ row.keep \in Clocks
  <1>1. /\ row.status \in InTable \union {"unborn", "open", "void", "pruned"}
        /\ row.revision \in Nat /\ row.created \in Nat
        /\ row.attempt \in 0..MaxAttempts
        /\ row.lease \in Clocks /\ row.wait \in Clocks /\ row.keep \in Clocks
    BY Zenon DEF Row
  <1> QED
    BY <1>1, BoundsAssumption

LEMMA NoRowIsRow == NoRow \in Row
  BY BoundsAssumption, ClockValues DEF NoRow, Row

\* What every step of a dispatcher, and time, does to a row.
Same(row, new) ==
    /\ new.aggregate = row.aggregate /\ new.revision = row.revision
    /\ new.key = row.key /\ new.created = row.created
    /\ row.status \notin InTable => new.status = row.status
    /\ row.status \in InTable => new.status \in InTable
    /\ row.status = "delivered" => new.status = "delivered"

LEMMA SameRow == \A row : Same(row, row)
  BY DEF Same

\* Such a step, which leaves the stamps and the feeds alone.
Moved ==
    /\ \A e \in Events : Same(events[e], events'[e])
    /\ UNCHANGED <<stamps, offsets, batch, seen, late>>

\* The row after a release, a claim, a renewal and a sweep.
LEMMA ReleasedRow ==
    ASSUME NEW row \in Row, NEW st \in InTable, NEW t \in Clocks,
           row.status \in InTable, row.status # "delivered"
    PROVE  LET new == Released(row, st, t)
           IN  /\ new \in Row /\ Same(row, new)
               /\ new.status = st /\ new.attempt = row.attempt
  <1> DEFINE keep == IF st = "delivered" THEN Retention ELSE 0
  <1>1. /\ 0 \in 0..MaxAttempts /\ keep \in Clocks
        /\ st \in InTable \union {"unborn", "open", "void", "pruned"}
    BY BoundsAssumption, ClockValues
  <1>2. Released(row, st, t) \in Row
    <2> HIDE DEF keep
    <2>1. [row EXCEPT !.status = st, !.token = 0, !.lease = 0, !.wait = t,
                      !.keep = keep] \in Row
      BY <1>1, ClockValues, Zenon DEF Row
    <2> QED
      BY <2>1 DEF Released, keep
  <1>3. /\ Released(row, st, t).status = st
        /\ Released(row, st, t).attempt = row.attempt
        /\ Released(row, st, t).aggregate = row.aggregate
        /\ Released(row, st, t).revision = row.revision
        /\ Released(row, st, t).key = row.key
        /\ Released(row, st, t).created = row.created
    BY DEF Released, Row
  <1> QED
    BY <1>2, <1>3 DEF Same

Claimed(row, token, t) ==
    [row EXCEPT !.status = "delivering", !.token = token, !.attempt = token, !.lease = t]

LEMMA ClaimedRow ==
    ASSUME NEW row \in Row, NEW token \in 1..MaxAttempts, NEW t \in Clocks,
           row.status \in InTable, row.status # "delivered"
    PROVE  /\ Claimed(row, token, t) \in Row /\ Same(row, Claimed(row, token, t))
           /\ Claimed(row, token, t).status = "delivering"
           /\ Claimed(row, token, t).attempt = token
  <1> DEFINE new == [row EXCEPT !.status = "delivering", !.token = token,
                                !.attempt = token, !.lease = t]
  <1>1. /\ token \in 0..MaxAttempts
        /\ "delivering" \in InTable \union {"unborn", "open", "void", "pruned"}
    BY BoundsAssumption DEF InTable
  <1>2. new \in Row
    BY <1>1, Zenon DEF Row
  <1>3. /\ new.status = "delivering" /\ new.attempt = token
        /\ new.aggregate = row.aggregate /\ new.revision = row.revision
        /\ new.key = row.key /\ new.created = row.created
    BY DEF Row
  <1>4. Claimed(row, token, t) = new
    BY DEF Claimed
  <1> HIDE DEF new
  <1> QED
    BY <1>2, <1>3, <1>4 DEF Same, InTable

LEMMA RenewedRow ==
    ASSUME NEW row \in Row, NEW t \in Clocks
    PROVE  LET new == [row EXCEPT !.lease = t]
           IN  /\ new \in Row /\ Same(row, new)
               /\ new.status = row.status /\ new.attempt = row.attempt
  <1>1. [row EXCEPT !.lease = t] \in Row
    BY Zenon DEF Row
  <1>2. LET new == [row EXCEPT !.lease = t]
        IN  /\ new.status = row.status /\ new.attempt = row.attempt
            /\ new.aggregate = row.aggregate /\ new.revision = row.revision
            /\ new.key = row.key /\ new.created = row.created
    BY DEF Row
  <1> QED
    BY <1>1, <1>2 DEF Same

LEMMA SweptRows ==
    ASSUME TypeOK, NEW d \in Delays
    PROVE  /\ Swept(d) \in [Events -> Row]
           /\ \A e \in Events :
                 /\ Same(events[e], Swept(d)[e])
                 /\ Swept(d)[e].attempt = events[e].attempt
                 /\ Swept(d)[e].status = "delivered" => events[e].status = "delivered"
                 /\ Swept(d)[e].status \in {"pending", "delivering"} =>
                       Swept(d)[e] = events[e]
  <1> SUFFICES ASSUME NEW e \in Events
               PROVE  /\ Swept(d)[e] \in Row
                      /\ Same(events[e], Swept(d)[e])
                      /\ Swept(d)[e].attempt = events[e].attempt
                      /\ Swept(d)[e].status = "delivered" => events[e].status = "delivered"
                      /\ Swept(d)[e].status \in {"pending", "delivering"} =>
                            Swept(d)[e] = events[e]
    BY DEF Swept
  <1> DEFINE new == [events[e] EXCEPT !.status = "dead_letter", !.token = 0, !.lease = 0]
  <1>1. events[e] \in Row
    BY DEF TypeOK
  <1>2. Swept(d)[e] = events[e] \/ (events[e].status = "delivering" /\ Swept(d)[e] = new)
    BY DEF Swept
  <1>3. CASE Swept(d)[e] = events[e]
    BY <1>1, <1>3, SameRow
  <1>4. CASE events[e].status = "delivering" /\ Swept(d)[e] = new
    <2>1. /\ 0 \in 0..MaxAttempts
          /\ "dead_letter" \in InTable \union {"unborn", "open", "void", "pruned"}
      BY BoundsAssumption DEF InTable
    <2>2. new \in Row
      BY <1>1, <2>1, ClockValues, Zenon DEF Row
    <2>3. /\ new.status = "dead_letter" /\ new.attempt = events[e].attempt
          /\ new.aggregate = events[e].aggregate /\ new.revision = events[e].revision
          /\ new.key = events[e].key /\ new.created = events[e].created
      BY <1>1 DEF Row
    <2> HIDE DEF new
    <2> QED
      BY <1>4, <2>2, <2>3 DEF Same, InTable
  <1> QED
    BY <1>2, <1>3, <1>4

-----------------------------------------------------------------------------
(* The delivery invariant *)

\* A step that moves rows on, begins deliveries only of cleared events and lets
\* the consumer receive only what a dispatcher has claimed.
LEMMA MoveStep ==
    ASSUME IInv, events' \in [Events -> Row],
           \A e \in Events : Same(events[e], events'[e]),
           \A e \in Events : /\ events'[e].attempt >= events[e].attempt
                             /\ events'[e].attempt > events[e].attempt =>
                                   Stored(e) /\ Cleared(e),
           busy' \in [Dispatchers -> Delivery \union {None}],
           received' \in SUBSET Events, received \subseteq received',
           \A e \in received' \ received : Begun(e),
           \A e \in Events : events'[e].status = "delivered" => e \in received',
           \A w \in Dispatchers : busy'[w] # None =>
              /\ Begun(busy[w].event)'
              /\ busy'[w].step = "ok" => busy'[w].event \in received',
           UNCHANGED <<keyRows, revisions, stamps>>,
           offsets' \in [Nodes -> Nat],
           batch' \in [Nodes -> SUBSET Events],
           seen' \in [Nodes -> SUBSET Events],
           late' \in [Nodes -> SUBSET Events]
    PROVE  IInv'
<1>1. TypeOK'
  BY DEF IInv, TypeOK
<1>2. \A e \in Events : /\ Stored(e)' <=> Stored(e)
                        /\ events'[e].status = "pruned" <=> events[e].status = "pruned"
                        /\ events'[e].status = "open" <=> events[e].status = "open"
  BY DEF Same, Stored, InTable
<1>3. \A i, e \in Events : Before(events'[i], events'[e]) <=> Before(events[i], events[e])
  BY DEF Same, Before
<1>4. \A e \in Events : events[e].attempt \in Nat /\ events'[e].attempt \in Nat
  BY RowTypes DEF IInv, TypeOK
<1>5. RevInv'
  <2>1. Open' = Open
    BY <1>2 DEF Open
  <2>2. \A e \in Open : e \in Events /\ events'[e].attempt = events[e].attempt
    BY <1>4 DEF Open, Stored, InTable
  <2>3. \A e \in Events : /\ events'[e].aggregate = events[e].aggregate
                          /\ events'[e].revision = events[e].revision
                          /\ events'[e].key = events[e].key
    BY DEF Same
  <2> QED
    BY <1>2, <2>1, <2>2, <2>3 DEF IInv, RevInv
<1>6. \A e \in Events : Begun(e) => Begun(e)'
  BY <1>2, <1>4 DEF Begun
<1>7. \A e \in Events : Stored(e) /\ events[e].attempt > 0 => Cleared(e)
  BY DEF IInv, StartInv
<1>8. \A e \in Events : Cleared(e) => Cleared(e)'
  BY <1>2, <1>3 DEF Cleared, Same
<1>9. \A e \in Events : Stored(e)' /\ events'[e].attempt > 0 => Cleared(e)'
  BY <1>2, <1>4, <1>7, <1>8
<1>10. \A e \in received' : Begun(e)'
  BY <1>6 DEF IInv, StartInv
<1>11. \A e \in Events : events'[e].status \in {"delivered", "pruned"} => e \in received'
  BY <1>2 DEF IInv, StartInv
<1>12. StartInv'
  BY <1>9, <1>10, <1>11 DEF StartInv
<1> QED
  BY <1>1, <1>5, <1>12 DEF IInv

LEMMA ClaimStep ==
    ASSUME IInv, NEW w \in Dispatchers, NEW e \in Events, NEW d \in Delays,
           Claim(w, e, d)
    PROVE  IInv' /\ Moved
<1> DEFINE token == events[e].attempt + 1
           t     == Lease - d
           new   == [events[e] EXCEPT !.status = "delivering", !.token = token,
                                      !.attempt = token, !.lease = t]
<1>1. /\ events \in [Events -> Row] /\ events[e] \in Row
      /\ busy \in [Dispatchers -> Delivery \union {None}]
      /\ received \in SUBSET Events
      /\ feed' = feed /\ received' = received
      /\ UNCHANGED <<keyRows, revisions, stamps>>
  BY DEF IInv, TypeOK, Claim
<1>2. /\ events' = [Swept(d) EXCEPT ![e] = new]
      /\ busy' = [busy EXCEPT ![w] =
                    [event |-> e, token |-> token, step |-> "call", lost |-> FALSE]]
  BY DEF Claim
<1>3. /\ Swept(d) \in [Events -> Row]
      /\ \A i \in Events :
            /\ Same(events[i], Swept(d)[i])
            /\ Swept(d)[i].attempt = events[i].attempt
            /\ Swept(d)[i].status = "delivered" => events[i].status = "delivered"
            /\ Swept(d)[i].status \in {"pending", "delivering"} =>
                  Swept(d)[i] = events[i]
  BY SweptRows DEF IInv
<1>4. Claimable(Swept(d), e, d)
  BY DEF Claim
<1>5. /\ events[e].status \in {"pending", "delivering"}
      /\ events[e].attempt < MaxAttempts
      /\ ~Blocked(Swept(d), e)
  BY <1>3, <1>4 DEF Claimable
<1>6. token \in 1..MaxAttempts /\ t \in Clocks
  BY <1>1, <1>5, RowTypes, BoundsAssumption, ClockValues
<1>7. /\ new \in Row /\ Same(events[e], new)
      /\ new.status = "delivering" /\ new.attempt = token
  <2>1. events[e].status \in InTable /\ events[e].status # "delivered"
    BY <1>5 DEF InTable
  <2>2. new = Claimed(events[e], token, t)
    BY DEF Claimed
  <2> HIDE DEF token, t, new
  <2> QED
    BY <1>1, <1>6, <2>1, <2>2, ClaimedRow
<1> HIDE DEF new
<1>8. events' \in [Events -> Row] /\ events'[e] = new
  BY <1>2, <1>3, <1>7
<1>9. \A i \in Events \ {e} : events'[i] = Swept(d)[i]
  BY <1>2, <1>3
<1>10. Stored(e) /\ Cleared(e)
  <2>1. Stored(e)
    BY <1>5 DEF Stored, InTable
  <2>2. ASSUME NEW i \in Events, Stored(i), events[i].aggregate = events[e].aggregate,
               Before(events[i], events[e])
        PROVE  events[i].status = "delivered"
    <3>1. /\ Swept(d)[i].aggregate = Swept(d)[e].aggregate
          /\ Before(Swept(d)[i], Swept(d)[e])
      BY <1>3, <2>2 DEF Same, Before
    <3>2. Swept(d)[i].status \notin Undelivered
      BY <1>5, <3>1 DEF Blocked
    <3>3. Swept(d)[i].status \in InTable
      BY <1>3, <2>2 DEF Same, Stored
    <3> QED
      BY <1>3, <3>2, <3>3 DEF InTable, Undelivered
  <2> QED
    BY <2>1, <2>2 DEF Cleared
<1>11. \A i \in Events : Same(events[i], events'[i])
  BY <1>3, <1>7, <1>8, <1>9
<1>12. \A i \in Events : /\ events'[i].attempt >= events[i].attempt
                         /\ events'[i].attempt > events[i].attempt =>
                               Stored(i) /\ Cleared(i)
  <2>1. \A i \in Events : events[i].attempt \in Nat
    BY <1>1, RowTypes
  <2>2. \A i \in Events \ {e} : events'[i].attempt = events[i].attempt
    BY <1>3, <1>9
  <2> QED
    BY <1>7, <1>8, <1>10, <2>1, <2>2
<1>13. \A i \in Events : events'[i].status = "delivered" => i \in received'
  <2>1. \A i \in Events : events'[i].status = "delivered" => events[i].status = "delivered"
    BY <1>3, <1>7, <1>8, <1>9
  <2> QED
    BY <1>1, <2>1 DEF IInv, StartInv
<1>14. \A i \in Events : Begun(i) => Begun(i)'
  <2>1. \A i \in Events : /\ Stored(i) => Stored(i)'
                          /\ events[i].status = "pruned" => events'[i].status = "pruned"
    BY <1>11 DEF Same, Stored, InTable
  <2>2. \A i \in Events : events[i].attempt \in Nat /\ events'[i].attempt \in Nat
    BY <1>1, <1>8, RowTypes
  <2> QED
    BY <1>12, <2>1, <2>2 DEF Begun
<1>15. busy' \in [Dispatchers -> Delivery \union {None}]
  <2>1. [event |-> e, token |-> token, step |-> "call", lost |-> FALSE] \in Delivery
    BY <1>6 DEF Delivery
  <2> QED
    BY <1>1, <1>2, <2>1
<1>16. \A v \in Dispatchers : busy'[v] # None =>
          /\ Begun(busy[v].event)'
          /\ busy'[v].step = "ok" => busy'[v].event \in received'
  <2>1. \A v \in Dispatchers \ {w} : busy'[v] = busy[v]
    BY <1>1, <1>2
  <2>2. \A v \in Dispatchers : busy[v] # None => busy[v].event \in Events
    BY <1>1 DEF Delivery
  <2>3. busy'[w].event = e /\ busy'[w].step = "call"
    BY <1>1, <1>2
  <2>4. Begun(e)'
    BY <1>6, <1>7, <1>8 DEF Begun, Stored, InTable
  <2> QED
    BY <1>1, <1>14, <2>1, <2>2, <2>3, <2>4 DEF IInv, StartInv, Begun, Stored
<1>17. IInv'
  BY <1>1, <1>8, <1>11, <1>12, <1>13, <1>15, <1>16, MoveStep DEF feed, IInv, TypeOK
<1>18. Moved
  BY <1>1, <1>11 DEF Moved, table, feed
<1> QED
  BY <1>17, <1>18

\* A step that changes rows by Same, begins nothing, and only drops claims.
LEMMA QuietStep ==
    ASSUME IInv, events' \in [Events -> Row],
           \A e \in Events : /\ Same(events[e], events'[e])
                             /\ events'[e].attempt = events[e].attempt,
           \A e \in Events : events'[e].status = "delivered" => e \in received,
           busy' \in [Dispatchers -> Delivery \union {None}],
           \A w \in Dispatchers : busy'[w] # None =>
              /\ busy[w] # None
              /\ busy'[w].event = busy[w].event
              /\ busy'[w].step = busy[w].step,
           UNCHANGED <<keyRows, revisions, stamps, received>>,
           offsets' \in [Nodes -> Nat],
           batch' \in [Nodes -> SUBSET Events],
           seen' \in [Nodes -> SUBSET Events],
           late' \in [Nodes -> SUBSET Events]
    PROVE  IInv'
<1>1. \A e \in Events : events[e].attempt \in Nat
  BY RowTypes DEF IInv, TypeOK
<1>2. \A e \in Events : Begun(e) => Begun(e)'
  BY DEF Begun, Same, Stored, InTable
<1>3. \A w \in Dispatchers : busy'[w] # None =>
          /\ Begun(busy[w].event)'
          /\ busy'[w].step = "ok" => busy'[w].event \in received'
  <2>1. \A w \in Dispatchers : busy[w] # None =>
           /\ busy[w].event \in Events
           /\ Begun(busy[w].event)
           /\ busy[w].step = "ok" => busy[w].event \in received
    BY DEF IInv, TypeOK, StartInv, Delivery
  <2>2. \A w \in Dispatchers : busy'[w] # None => Begun(busy[w].event)'
    BY <1>2, <2>1 DEF Begun, Stored
  <2> QED
    BY <2>1, <2>2
<1> QED
  BY <1>1, <1>3, MoveStep DEF IInv, TypeOK

LEMMA ClaimNothingStep ==
    ASSUME IInv, NEW w \in Dispatchers, NEW d \in Delays, ClaimNothing(w, d)
    PROVE  IInv' /\ Moved
<1>1. /\ Swept(d) \in [Events -> Row]
      /\ \A i \in Events :
            /\ Same(events[i], Swept(d)[i])
            /\ Swept(d)[i].attempt = events[i].attempt
            /\ Swept(d)[i].status = "delivered" => events[i].status = "delivered"
  BY SweptRows DEF IInv
<1>2. events' = Swept(d)
  BY DEF ClaimNothing
<1>3. \A e \in Events : events'[e].status = "delivered" => e \in received
  BY <1>1, <1>2 DEF IInv, StartInv
<1>4. UNCHANGED <<keyRows, revisions, stamps, busy, received, feed>>
  BY DEF ClaimNothing
<1>5. IInv'
  BY <1>1, <1>2, <1>3, <1>4, QuietStep DEF IInv, TypeOK, feed
<1>6. Moved
  BY <1>1, <1>2, <1>4 DEF Moved, table, feed
<1> QED
  BY <1>5, <1>6

LEMMA HandleStep ==
    ASSUME IInv, NEW w \in Dispatchers, Handle(w)
    PROVE  IInv' /\ Moved
<1>1. /\ busy \in [Dispatchers -> Delivery \union {None}] /\ busy[w] # None
      /\ received \in SUBSET Events
      /\ UNCHANGED <<table, feed>>
  BY DEF IInv, TypeOK, Handle
<1>2. busy[w] \in Delivery /\ busy[w].event \in Events /\ Begun(busy[w].event)
  BY <1>1 DEF IInv, StartInv, Delivery
<1>3. PICK st \in {"ok", "error"} :
         /\ busy' = [busy EXCEPT ![w].step = st]
         /\ received' \in {received, received \union {busy[w].event}}
         /\ st = "ok" => busy[w].event \in received'
  BY DEF Handle
<1>4. busy' \in [Dispatchers -> Delivery \union {None}]
  <2>1. [busy[w] EXCEPT !.step = st] \in Delivery
    BY <1>2 DEF Delivery
  <2> QED
    BY <1>1, <1>3, <2>1
<1>5. \A v \in Dispatchers : busy'[v] # None =>
          /\ busy[v] # None
          /\ busy'[v].event = busy[v].event
          /\ busy'[v].step = "ok" => busy'[v].event \in received'
  <2>1. \A v \in Dispatchers \ {w} : busy'[v] = busy[v]
    BY <1>1, <1>3
  <2>2. busy'[w].event = busy[w].event /\ busy'[w].step = st
    BY <1>1, <1>2, <1>3 DEF Delivery
  <2> QED
    BY <1>1, <1>3, <2>1, <2>2 DEF IInv, StartInv
<1>6. \A e \in Events : /\ Same(events[e], events'[e])
                        /\ events'[e].attempt = events[e].attempt
                        /\ events[e].attempt \in Nat
  BY <1>1, SameRow, RowTypes DEF table, IInv, TypeOK
<1>7. \A v \in Dispatchers : busy'[v] # None => Begun(busy[v].event)'
  BY <1>1, <1>5 DEF table, Begun, Stored, IInv, StartInv
<1>8. \A e \in Events : events'[e].status = "delivered" => e \in received'
  BY <1>1, <1>3 DEF table, IInv, StartInv
<1>9. /\ received' \in SUBSET Events /\ received \subseteq received'
      /\ \A e \in received' \ received : Begun(e)
  BY <1>1, <1>2, <1>3
<1>10. IInv'
  BY <1>1, <1>4, <1>5, <1>6, <1>7, <1>8, <1>9, MoveStep DEF table, feed, IInv, TypeOK
<1>11. Moved
  BY <1>1, <1>6 DEF Moved, table, feed
<1> QED
  BY <1>10, <1>11

LEMMA HeartbeatStep ==
    ASSUME IInv, NEW w \in Dispatchers, NEW d \in Delays, Heartbeat(w, d)
    PROVE  IInv' /\ Moved
<1> DEFINE e   == busy[w].event
           new == [events[e] EXCEPT !.lease = Lease - d]
<1>1. e \in Events /\ events[e] \in Row
  BY DEF IInv, TypeOK, Heartbeat, Owns, Delivery
<1>2. events' = [events EXCEPT ![e] = new]
  BY DEF Heartbeat
<1>3. /\ new \in Row /\ Same(events[e], new)
      /\ new.status = events[e].status /\ new.attempt = events[e].attempt
  BY <1>1, ClockValues, RenewedRow
<1>4. UNCHANGED <<keyRows, revisions, stamps, busy, received, feed>>
  BY DEF Heartbeat
<1> HIDE DEF e, new
<1>5. events' \in [Events -> Row] /\ events'[e] = new
      /\ \A i \in Events \ {e} : events'[i] = events[i]
  BY <1>1, <1>2, <1>3 DEF IInv, TypeOK
<1>6. \A i \in Events : /\ Same(events[i], events'[i])
                        /\ events'[i].attempt = events[i].attempt
                        /\ events'[i].status = events[i].status
  BY <1>3, <1>5, SameRow
<1>7. IInv'
  BY <1>4, <1>5, <1>6, QuietStep DEF IInv, TypeOK, feed, StartInv
<1>8. Moved
  BY <1>4, <1>6 DEF Moved, table, feed
<1> QED
  BY <1>7, <1>8

LEMMA ForgetStep ==
    ASSUME IInv, NEW w \in Dispatchers, HeartbeatLost(w) \/ Drop(w)
    PROVE  IInv' /\ Moved
<1>1. /\ UNCHANGED <<table, received, feed>>
      /\ busy[w] # None /\ busy[w] \in Delivery
  BY DEF HeartbeatLost, Drop, IInv, TypeOK
<1>2. busy' = [busy EXCEPT ![w].lost = TRUE] \/ busy' = [busy EXCEPT ![w] = None]
  BY DEF HeartbeatLost, Drop
<1>3. [busy[w] EXCEPT !.lost = TRUE] \in Delivery
  BY <1>1 DEF Delivery
<1>4. busy' \in [Dispatchers -> Delivery \union {None}]
  BY <1>2, <1>3 DEF IInv, TypeOK
<1>5. \A v \in Dispatchers : busy'[v] # None =>
         /\ busy[v] # None
         /\ busy'[v].event = busy[v].event
         /\ busy'[v].step = busy[v].step
  BY <1>1, <1>2 DEF IInv, TypeOK, Delivery
<1>6. \A e \in Events : /\ Same(events[e], events'[e])
                        /\ events'[e].attempt = events[e].attempt
                        /\ events'[e].status = events[e].status
  BY <1>1, SameRow DEF table
<1>7. IInv'
  BY <1>1, <1>4, <1>5, <1>6, QuietStep DEF table, feed, IInv, TypeOK, StartInv
<1>8. Moved
  BY <1>1, <1>6 DEF Moved, table, feed
<1> QED
  BY <1>7, <1>8

LEMMA FinishStep ==
    ASSUME IInv, NEW w \in Dispatchers, NEW d \in Delays, NEW delay \in 0..MaxBackoff,
           Finish(w, d, delay)
    PROVE  IInv' /\ Moved
<1> DEFINE e == busy[w].event
<1>1. /\ e \in Events /\ events[e] \in Row
      /\ events[e].status = "delivering"
      /\ busy[w] # None /\ busy[w].step # "call"
      /\ busy' = [busy EXCEPT ![w] = None]
      /\ UNCHANGED <<keyRows, revisions, stamps, received, feed>>
  BY DEF IInv, TypeOK, Finish, Owns, Delivery
<1>2. PICK st \in {"delivered", "dead_letter", "pending"}, t \in {0, delay - d} :
         /\ events' = [events EXCEPT ![e] = Released(events[e], st, t)]
         /\ st = "delivered" => busy[w].step = "ok"
  <2>1. CASE busy[w].step = "ok"
    BY <2>1 DEF Finish
  <2>2. CASE busy[w].step # "ok" /\ events[e].attempt >= MaxAttempts
    BY <2>2 DEF Finish
  <2>3. CASE busy[w].step # "ok" /\ ~(events[e].attempt >= MaxAttempts)
    BY <2>3 DEF Finish
  <2> QED
    BY <2>1, <2>2, <2>3
<1>3. t \in Clocks /\ st \in InTable
  BY ClockValues DEF InTable
<1>4. LET new == Released(events[e], st, t)
      IN  /\ new \in Row /\ Same(events[e], new)
          /\ new.status = st /\ new.attempt = events[e].attempt
  BY <1>1, <1>3, ReleasedRow DEF InTable
<1> DEFINE new == Released(events[e], st, t)
<1>5. /\ events' = [events EXCEPT ![e] = new] /\ new \in Row /\ Same(events[e], new)
      /\ new.status = st /\ new.attempt = events[e].attempt
  BY <1>2, <1>4
<1>6. st = "delivered" => e \in received
  BY <1>1, <1>2 DEF IInv, StartInv
<1> HIDE DEF new, e
<1>7. events' \in [Events -> Row] /\ events'[e] = new
      /\ \A i \in Events \ {e} : events'[i] = events[i]
  BY <1>1, <1>5 DEF IInv, TypeOK
<1>8. \A i \in Events : /\ Same(events[i], events'[i])
                        /\ events'[i].attempt = events[i].attempt
  BY <1>5, <1>7, SameRow
<1>9. \A i \in Events : events'[i].status = "delivered" => i \in received
  BY <1>5, <1>6, <1>7 DEF IInv, StartInv
<1>10. /\ busy' \in [Dispatchers -> Delivery \union {None}]
       /\ \A v \in Dispatchers : busy'[v] # None => busy'[v] = busy[v]
  BY <1>1 DEF IInv, TypeOK
<1>11. IInv'
  BY <1>1, <1>7, <1>8, <1>9, <1>10, QuietStep DEF feed, IInv, TypeOK
<1>12. Moved
  BY <1>1, <1>8 DEF Moved, table, feed
<1> QED
  BY <1>11, <1>12

LEMMA TickStep ==
    ASSUME IInv, Tick
    PROVE  IInv' /\ Moved
<1> DEFINE new(e) == [events[e] EXCEPT
                        !.lease = IF events[e].status = "delivering" THEN Nearer(@) ELSE @,
                        !.wait  = IF events[e].status = "pending" THEN Nearer(@) ELSE @,
                        !.keep  = IF events[e].status = "delivered" THEN Nearer(@) ELSE @]
<1>1. events' = [e \in Events |-> new(e)]
  BY DEF Tick
<1>2. UNCHANGED <<keyRows, revisions, stamps, busy, received, feed>>
  BY DEF Tick
<1>3. \A e \in Events : /\ new(e) \in Row /\ Same(events[e], new(e))
                        /\ new(e).attempt = events[e].attempt
                        /\ new(e).status = events[e].status
  <2> SUFFICES ASSUME NEW e \in Events
               PROVE  /\ new(e) \in Row /\ Same(events[e], new(e))
                      /\ new(e).attempt = events[e].attempt
                      /\ new(e).status = events[e].status
    OBVIOUS
  <2> DEFINE l == IF events[e].status = "delivering" THEN Nearer(events[e].lease)
                                                     ELSE events[e].lease
             t == IF events[e].status = "pending" THEN Nearer(events[e].wait)
                                                  ELSE events[e].wait
             k == IF events[e].status = "delivered" THEN Nearer(events[e].keep)
                                                    ELSE events[e].keep
             row == [events[e] EXCEPT !.lease = l, !.wait = t, !.keep = k]
  <2>1. events[e] \in Row
    BY DEF IInv, TypeOK
  <2>2. l \in Clocks /\ t \in Clocks /\ k \in Clocks
    BY <2>1, RowTypes, ClockValues
  <2>3. new(e) = row
    BY <2>1 DEF Row
  <2> HIDE DEF l, t, k, new
  <2>4. row \in Row
    BY <2>1, <2>2, Zenon DEF Row
  <2>5. /\ row.attempt = events[e].attempt /\ row.status = events[e].status
        /\ row.aggregate = events[e].aggregate /\ row.revision = events[e].revision
        /\ row.key = events[e].key /\ row.created = events[e].created
    BY <2>1 DEF Row
  <2> QED
    BY <2>3, <2>4, <2>5 DEF Same
<1> HIDE DEF new
<1>4. events' \in [Events -> Row] /\ \A e \in Events : events'[e] = new(e)
  BY <1>1, <1>3
<1>5. IInv'
  BY <1>2, <1>3, <1>4, QuietStep DEF feed, IInv, TypeOK, StartInv
<1>6. Moved
  BY <1>2, <1>3, <1>4 DEF Moved, table, feed
<1> QED
  BY <1>5, <1>6

\* A step that begins no delivery and keeps of the table what it does not remove
\* as delivered.
LEMMA StartStep ==
    ASSUME IInv, TypeOK', UNCHANGED <<busy, received>>,
           \A e \in Events : \/ events'[e] = events[e]
                             \/ /\ events[e].status \notin InTable \union {"pruned"}
                                /\ events'[e].status \in {"open", "void"}
                             \/ /\ events[e].status = "delivered"
                                /\ events'[e].status = "pruned"
    PROVE  StartInv'
<1>1. \A e \in Events : Stored(e)' => Stored(e) /\ events'[e] = events[e]
  BY DEF Stored, InTable
<1>2. \A e \in Events : Begun(e) => Begun(e)'
  BY DEF Begun, Stored, InTable
<1>3. ASSUME NEW e \in Events, Stored(e)', events'[e].attempt > 0
      PROVE  Cleared(e)'
  <2>1. Cleared(e) /\ events'[e] = events[e]
    BY <1>1, <1>3 DEF IInv, StartInv
  <2> QED
    BY <1>1, <2>1 DEF Cleared
<1>4. \A e \in received' : Begun(e)'
  BY <1>2 DEF IInv, TypeOK, StartInv
<1>5. \A w \in Dispatchers : busy'[w] # None =>
          /\ Begun(busy[w].event)'
          /\ busy'[w].step = "ok" => busy'[w].event \in received'
  <2>1. \A w \in Dispatchers : busy[w] # None =>
           /\ busy[w].event \in Events
           /\ Begun(busy[w].event)
           /\ busy[w].step = "ok" => busy[w].event \in received
    BY DEF IInv, TypeOK, StartInv, Delivery
  <2> QED
    BY <1>2, <2>1 DEF Begun, Stored
<1>6. \A e \in Events : events'[e].status \in {"delivered", "pruned"} => e \in received'
  BY DEF IInv, StartInv, InTable
<1> QED
  BY <1>3, <1>4, <1>5, <1>6 DEF StartInv

LEMMA AppendStep ==
    ASSUME IInv, NEW e \in Events, NEW a \in Aggregates, NEW k \in Keys, Append(e, a, k)
    PROVE  IInv'
<1> DEFINE new == [NoRow EXCEPT !.status = "open", !.aggregate = a,
                                !.revision = revisions[a] + 1, !.key = k,
                                !.created = stamps + 1]
<1>1. /\ events \in [Events -> Row] /\ revisions[a] \in Nat /\ stamps \in Nat
      /\ events[e].status = "unborn"
      /\ \A i \in Open : events[i].aggregate # a
      /\ stamps' = stamps + 1
      /\ events' = [events EXCEPT ![e] = new]
      /\ UNCHANGED <<keyRows, revisions, busy, received, feed>>
  BY DEF IInv, TypeOK, Append
<1>2. new \in Row
  <2>1. /\ "open" \in InTable \union {"unborn", "open", "void", "pruned"}
        /\ a \in Aggregates \union {None} /\ k \in Keys \union {None}
        /\ revisions[a] + 1 \in Nat /\ stamps + 1 \in Nat
    BY <1>1
  <2> QED
    BY <2>1, NoRowIsRow, Zenon DEF Row
<1>3. /\ new.status = "open" /\ new.aggregate = a /\ new.key = k
      /\ new.revision = revisions[a] + 1 /\ new.attempt = 0
  BY DEF NoRow
<1> HIDE DEF new
<1>4. /\ events' \in [Events -> Row] /\ events'[e] = new
      /\ \A i \in Events \ {e} : events'[i] = events[i]
  BY <1>1, <1>2
<1>5. TypeOK'
  BY <1>1, <1>4 DEF IInv, TypeOK, feed
<1>6. StartInv'
  BY <1>1, <1>3, <1>4, <1>5, StartStep DEF InTable
<1>7. Open' = Open \union {e} /\ e \notin Open
  BY <1>1, <1>3, <1>4 DEF Open
<1>8. \A i \in Open : i \in Events \ {e}
  BY <1>7 DEF Open
<1>9. \A i \in Events : Stored(i)' => i # e /\ Stored(i)
  BY <1>3, <1>4 DEF Stored, InTable
<1>10. RevInv'
  <2>1. \A i \in Events : Stored(i)' =>
           /\ events'[i].aggregate \in Aggregates
           /\ events'[i].revision <= revisions'[events'[i].aggregate]
    BY <1>1, <1>4, <1>9 DEF IInv, RevInv
  <2>2. \A i \in Open' : /\ events'[i].aggregate \in Aggregates
                         /\ events'[i].key \in Keys
                         /\ events'[i].revision = revisions'[events'[i].aggregate] + 1
                         /\ events'[i].attempt = 0
    BY <1>1, <1>3, <1>4, <1>7, <1>8 DEF IInv, RevInv
  <2>3. \A i, j \in Open' : events'[i].aggregate = events'[j].aggregate => i = j
    BY <1>1, <1>3, <1>4, <1>7, <1>8 DEF IInv, RevInv
  <2> QED
    BY <2>1, <2>2, <2>3 DEF RevInv
<1> QED
  BY <1>5, <1>6, <1>10 DEF IInv

LEMMA RollbackStep ==
    ASSUME IInv, NEW e \in Events, Rollback(e)
    PROVE  IInv'
<1> DEFINE new == [NoRow EXCEPT !.status = "void"]
<1>1. /\ events \in [Events -> Row] /\ events[e].status = "open"
      /\ events' = [events EXCEPT ![e] = new]
      /\ UNCHANGED <<keyRows, revisions, stamps, busy, received, feed>>
  BY DEF IInv, TypeOK, Rollback, Open
<1>2. new \in Row
  BY <1>1, ClockValues, BoundsAssumption DEF NoRow, Row
<1>3. new.status = "void"
  BY DEF NoRow
<1> HIDE DEF new
<1>4. /\ events' \in [Events -> Row] /\ events'[e] = new
      /\ \A i \in Events \ {e} : events'[i] = events[i]
  BY <1>1, <1>2
<1>5. TypeOK'
  BY <1>1, <1>4 DEF IInv, TypeOK, feed
<1>6. StartInv'
  BY <1>1, <1>3, <1>4, <1>5, StartStep DEF InTable
<1>7. Open' = Open \ {e}
  BY <1>3, <1>4 DEF Open
<1>8. \A i \in Open' : i \in Events \ {e} /\ i \in Open
  BY <1>7 DEF Open
<1>9. \A i \in Events : Stored(i)' => i # e /\ Stored(i)
  BY <1>3, <1>4 DEF Stored, InTable
<1>10. RevInv'
  BY <1>1, <1>4, <1>8, <1>9 DEF IInv, RevInv
<1> QED
  BY <1>5, <1>6, <1>10 DEF IInv

LEMMA CommitStep ==
    ASSUME IInv, NEW e \in Events, Commit(e)
    PROVE  IInv'
<1> DEFINE new == [events[e] EXCEPT !.status = "pending"]
           a   == events[e].aggregate
<1>1. /\ events \in [Events -> Row] /\ events[e] \in Row /\ events[e].status = "open"
      /\ e \in Open
      /\ events' = [events EXCEPT ![e] = new]
      /\ UNCHANGED <<stamps, busy, received, offsets, batch, seen>>
      /\ late' \in [Nodes -> SUBSET Events]
  BY DEF IInv, TypeOK, Commit, Open
<1>2. /\ a \in Aggregates /\ events[e].key \in Keys
      /\ events[e].revision = revisions[a] + 1
      /\ events[e].attempt = 0
      /\ \A i \in Open : events[i].aggregate = a => i = e
  BY <1>1 DEF IInv, RevInv
<1>3. /\ revisions \in [Aggregates -> Nat]
      /\ revisions' = [revisions EXCEPT ![a] = revisions[a] + 1]
      /\ keyRows' = [keyRows EXCEPT ![events[e].key] = e]
  BY <1>2 DEF IInv, TypeOK, Commit
<1>4. new \in Row
  <2>1. "pending" \in InTable \union {"unborn", "open", "void", "pruned"}
    BY DEF InTable
  <2> QED
    BY <1>1, <2>1, Zenon DEF Row
<1>5. /\ new.status = "pending" /\ new.aggregate = a /\ new.revision = revisions[a] + 1
      /\ new.attempt = 0
  BY <1>1, <1>2 DEF Row
<1> HIDE DEF new, a
<1>6. /\ events' \in [Events -> Row] /\ events'[e] = new
      /\ \A i \in Events \ {e} : events'[i] = events[i]
  BY <1>1, <1>4
<1>7. TypeOK'
  BY <1>1, <1>2, <1>3, <1>6 DEF IInv, TypeOK
<1>8. \A i \in Events : /\ i # e => (Stored(i)' <=> Stored(i))
                        /\ i # e => (Begun(i)' <=> Begun(i))
  BY <1>6 DEF Stored, Begun
<1>9. ~Begun(e) /\ Stored(e)' /\ ~Begun(e)' /\ e \notin received
  <2>1. ~Begun(e)
    BY <1>1 DEF Begun, Stored, InTable
  <2>2. Stored(e)' /\ ~Begun(e)'
    BY <1>5, <1>6 DEF Begun, Stored, InTable
  <2> QED
    BY <2>1, <2>2 DEF IInv, StartInv
<1>10. Open' = Open \ {e}
  BY <1>5, <1>6 DEF Open
<1>11. \A i \in Events : Stored(i) => /\ i # e
                                      /\ events[i].aggregate \in Aggregates
                                      /\ events[i].revision \in Nat
                                      /\ events[i].revision <= revisions[events[i].aggregate]
  BY <1>1, RowTypes DEF IInv, RevInv, Stored, InTable
<1>12. RevInv'
  <2>1. \A i \in Events : Stored(i)' =>
           /\ events'[i].aggregate \in Aggregates
           /\ events'[i].revision <= revisions'[events'[i].aggregate]
    <3> SUFFICES ASSUME NEW i \in Events, Stored(i)'
                 PROVE  /\ events'[i].aggregate \in Aggregates
                        /\ events'[i].revision <= revisions'[events'[i].aggregate]
      OBVIOUS
    <3>1. CASE i = e
      BY <1>2, <1>3, <1>5, <1>6, <3>1 DEF a
    <3>2. CASE i # e
      BY <1>2, <1>3, <1>6, <1>8, <1>11, <3>2
    <3> QED
      BY <3>1, <3>2
  <2>2. \A i \in Open' : i \in Events \ {e} /\ i \in Open /\ events[i].aggregate # a
    BY <1>2, <1>10 DEF Open
  <2>3. \A i \in Open' : /\ events'[i].aggregate \in Aggregates
                         /\ events'[i].key \in Keys
                         /\ events'[i].revision = revisions'[events'[i].aggregate] + 1
                         /\ events'[i].attempt = 0
    BY <1>3, <1>6, <2>2 DEF IInv, RevInv
  <2>4. \A i, j \in Open' : events'[i].aggregate = events'[j].aggregate => i = j
    BY <1>6, <2>2 DEF IInv, RevInv
  <2> QED
    BY <2>1, <2>3, <2>4 DEF RevInv
<1>13. ASSUME NEW i \in Events, Stored(i)', events'[i].attempt > 0
       PROVE  Cleared(i)'
  <2>1. i # e
    BY <1>5, <1>6, <1>13
  <2>2. Stored(i) /\ Cleared(i) /\ events'[i] = events[i]
    BY <1>6, <1>8, <1>13, <2>1 DEF IInv, StartInv
  <2>3. ASSUME NEW j \in Events, Stored(j)', events'[j].aggregate = events'[i].aggregate,
               Before(events'[j], events'[i])
        PROVE  events'[j].status = "delivered"
    <3>1. CASE j = e
      <4>1. events[i].aggregate = a /\ events'[j].revision = revisions[a] + 1
        BY <1>5, <1>6, <2>2, <2>3, <3>1
      <4>2. events[i].revision \in Nat /\ events[i].revision <= revisions[a]
        BY <1>11, <2>2, <4>1
      <4>3. revisions[a] \in Nat
        BY <1>2, <1>3
      <4> QED
        BY <2>2, <2>3, <4>1, <4>2, <4>3 DEF Before
    <3>2. CASE j # e
      BY <1>6, <1>8, <2>2, <2>3, <3>2 DEF Cleared
    <3> QED
      BY <3>1, <3>2
  <2> QED
    BY <2>3 DEF Cleared
<1>14. \A i \in received' : Begun(i)'
  BY <1>1, <1>8, <1>9 DEF IInv, TypeOK, StartInv
<1>15. \A w \in Dispatchers : busy'[w] # None =>
          /\ Begun(busy[w].event)'
          /\ busy'[w].step = "ok" => busy'[w].event \in received'
  <2>1. \A w \in Dispatchers : busy[w] # None =>
           /\ busy[w].event \in Events \ {e}
           /\ Begun(busy[w].event)
           /\ busy[w].step = "ok" => busy[w].event \in received
    BY <1>9 DEF IInv, TypeOK, StartInv, Delivery
  <2> QED
    BY <1>1, <1>8, <2>1 DEF Begun, Stored
<1>16. \A i \in Events : events'[i].status \in {"delivered", "pruned"} => i \in received'
  BY <1>1, <1>5, <1>6 DEF IInv, StartInv
<1> QED
  BY <1>7, <1>12, <1>13, <1>14, <1>15, <1>16 DEF IInv, StartInv

LEMMA PruneStep ==
    ASSUME IInv, NEW S \in SUBSET Events, PruneDelivered(S)
    PROVE  IInv'
<1> DEFINE new(e) == [NoRow EXCEPT !.status = "pruned", !.key = events[e].key,
                                   !.created = events[e].created]
<1>1. /\ \A e \in S : e \in Events /\ events[e].status = "delivered"
      /\ events' = [e \in Events |-> IF e \in S THEN new(e) ELSE events[e]]
      /\ keyRows' = [k \in Keys |-> IF keyRows[k] \in S THEN None ELSE keyRows[k]]
      /\ UNCHANGED <<revisions, stamps, busy, received, feed>>
  BY DEF PruneDelivered, Stale
<1>2. \A e \in Events : new(e) \in Row /\ new(e).status = "pruned"
  <2> SUFFICES ASSUME NEW e \in Events
               PROVE  new(e) \in Row /\ new(e).status = "pruned"
    OBVIOUS
  <2>1. events[e].key \in Keys \union {None} /\ events[e].created \in Nat
    BY DEF IInv, TypeOK, Row
  <2>2. new(e) \in Row
    <3>1. "pruned" \in InTable \union {"unborn", "open", "void", "pruned"}
      OBVIOUS
    <3> QED
      BY <2>1, <3>1, NoRowIsRow, Zenon DEF Row
  <2>3. new(e).status = "pruned"
    BY DEF NoRow
  <2> QED
    BY <2>2, <2>3
<1> HIDE DEF new
<1>3. events' \in [Events -> Row]
  BY <1>1, <1>2 DEF IInv, TypeOK
<1>4. TypeOK'
  BY <1>1, <1>3 DEF IInv, TypeOK, feed
<1>5. \A e \in Events : IF e \in S THEN events'[e].status = "pruned"
                                   ELSE events'[e] = events[e]
  BY <1>1, <1>2
<1>6. StartInv'
  BY <1>1, <1>4, <1>5, StartStep
<1>7. \A e \in Events : Stored(e)' => e \notin S /\ Stored(e)
  BY <1>5 DEF Stored, InTable
<1>8. Open' = Open /\ \A e \in Open : e \in Events /\ events'[e] = events[e]
  BY <1>1, <1>5 DEF Open
<1>9. RevInv'
  BY <1>1, <1>5, <1>7, <1>8 DEF IInv, RevInv
<1> QED
  BY <1>4, <1>6, <1>9 DEF IInv

LEMMA FeedStep ==
    ASSUME IInv, NEW n \in Nodes, Follow(n)
    PROVE  IInv'
<1>1. UNCHANGED <<table, busy, received>>
  BY DEF Follow, Poll, ApplySome, Apply, ApplyFails, Restart
<1>2. /\ offsets' \in [Nodes -> Nat]
      /\ batch' \in [Nodes -> SUBSET Events]
      /\ seen' \in [Nodes -> SUBSET Events]
      /\ late' = late
  <2>1. /\ offsets \in [Nodes -> Nat] /\ batch \in [Nodes -> SUBSET Events]
        /\ seen \in [Nodes -> SUBSET Events]
        /\ \A e \in Events : events[e].created \in Nat
    BY RowTypes DEF IInv, TypeOK
  <2>2. CASE Poll(n)
    BY <2>1, <2>2 DEF Poll, Ahead
  <2>3. ASSUME NEW e \in Events, Apply(n, e)
        PROVE  /\ offsets' \in [Nodes -> Nat] /\ batch' \in [Nodes -> SUBSET Events]
               /\ seen' \in [Nodes -> SUBSET Events] /\ late' = late
    BY <2>1, <2>3 DEF Apply
  <2>4. ASSUME NEW e \in Events, ApplyFails(n, e)
        PROVE  /\ offsets' \in [Nodes -> Nat] /\ batch' \in [Nodes -> SUBSET Events]
               /\ seen' \in [Nodes -> SUBSET Events] /\ late' = late
    BY <2>1, <2>4 DEF ApplyFails
  <2>5. CASE Restart(n)
    BY <2>1, <2>5 DEF Restart
  <2> QED
    BY <2>2, <2>3, <2>4, <2>5 DEF Follow, ApplySome
<1>3. \A e \in Events : /\ Same(events[e], events'[e])
                        /\ events'[e].attempt = events[e].attempt
                        /\ events'[e].status = events[e].status
  BY <1>1, SameRow DEF table
<1> QED
  BY <1>1, <1>2, <1>3, QuietStep DEF table, IInv, TypeOK, StartInv

LEMMA InitIInv == Init => IInv
<1> SUFFICES ASSUME Init PROVE IInv
  OBVIOUS
<1>1. \A e \in Events : events[e] = NoRow
  BY DEF Init
<1>2. \A e \in Events : events[e].status = "unborn"
  BY <1>1 DEF NoRow
<1>3. TypeOK
  BY NoRowIsRow DEF Init, TypeOK
<1>4. Open = {} /\ \A e \in Events : ~Stored(e)
  BY <1>2 DEF Open, Stored, InTable
<1> QED
  BY <1>2, <1>3, <1>4 DEF Init, IInv, RevInv, StartInv

LEMMA NextIInv == IInv /\ [Next]_vars => IInv'
<1> SUFFICES ASSUME IInv, [Next]_vars PROVE IInv'
  OBVIOUS
<1>1. CASE Produce
  BY <1>1, AppendStep, CommitStep, RollbackStep DEF Produce
<1>2. CASE ClaimSome
  BY <1>2, ClaimStep, ClaimNothingStep DEF ClaimSome
<1>3. ASSUME NEW w \in Dispatchers, RunOnce(w) \/ Keep(w)
      PROVE  IInv'
  BY <1>3, HandleStep, FinishStep, ForgetStep, HeartbeatStep DEF RunOnce, FinishSome, Keep
<1>4. CASE PruneSome
  BY <1>4, PruneStep DEF PruneSome
<1>5. ASSUME NEW n \in Nodes, Follow(n)
      PROVE  IInv'
  BY <1>5, FeedStep
<1>6. CASE Tick
  BY <1>6, TickStep
<1>7. CASE UNCHANGED vars
  <2>1. UNCHANGED <<table, busy, received, feed>>
    BY <1>7 DEF vars, table, feed
  <2>2. \A e \in Events : /\ Same(events[e], events'[e])
                          /\ events'[e].attempt = events[e].attempt
                          /\ events'[e].status = events[e].status
    BY <2>1, SameRow DEF table
  <2> QED
    BY <2>1, <2>2, QuietStep DEF table, feed, IInv, TypeOK, StartInv
<1> QED
  BY <1>1, <1>2, <1>3, <1>4, <1>5, <1>6, <1>7 DEF Next

-----------------------------------------------------------------------------
(* Theorems *)

\* The strengthened invariant holds in every reachable state.
THEOREM Inductive == Spec => []IInv
  BY InitIInv, NextIInv, PTL DEF Spec

\* Every variable keeps its type, and lease, backoff and retention deadlines
\* their ranges.
THEOREM TypeCorrect == Spec => []TypeOK
  BY Inductive, PTL DEF IInv

\* What counts as delivered has reached the consumer, whatever leases
\* dispatchers lost and however often delivery was tried (OutboxStore._finish
\* under the lease predicate).
THEOREM DeliveredSafe == Spec => []DeliveredReceived
<1>1. IInv => DeliveredReceived
  BY DEF IInv, StartInv, DeliveredReceived
<1> QED
  BY <1>1, Inductive, PTL

\* The consumer hears of the events of one aggregate in the order of their
\* revisions: the NOT EXISTS of claim suffices with any number of dispatchers.
THEOREM OrderSafe == Spec => []OrderedDelivery
<1>1. IInv => OrderedDelivery
  <2> SUFFICES ASSUME IInv, NEW i \in Events, NEW e \in Events, Stored(i), Stored(e),
                      events[i].aggregate = events[e].aggregate,
                      Before(events[i], events[e]), e \in received
               PROVE  i \in received
    BY DEF OrderedDelivery
  <2>1. Cleared(e)
    <3>1. Begun(e)
      BY DEF IInv, StartInv
    <3>2. events[e].attempt > 0
      BY <3>1 DEF Begun, Stored, InTable
    <3> QED
      BY <3>2 DEF IInv, StartInv
  <2>2. events[i].status = "delivered"
    BY <2>1 DEF Cleared
  <2> QED
    BY <2>2 DEF IInv, StartInv
<1> QED
  BY <1>1, Inductive, PTL

-----------------------------------------------------------------------------
(* Cursors *)

Committed(e) == events[e].status \in InTable \union {"pruned"}

StampInv ==
    /\ IsFiniteSet({e \in Events : events[e].status # "unborn"})
    /\ \A e \in Events : events[e].created <= stamps
    /\ \A i, e \in Events :
          /\ Committed(i) \/ i \in Open
          /\ Committed(e) \/ e \in Open
          /\ events[i].created = events[e].created
          => i = e

FeedInv ==
    \A n \in Nodes :
        /\ batch[n] \subseteq {e \in Events : Committed(e)}
        /\ \A e \in batch[n], x \in Events :
              Stored(x) /\ events[x].created < events[e].created
                 => x \in seen[n] \union late[n] \union batch[n]

CInv == TypeOK /\ StampInv /\ FeedInv /\ CursorCovers

LEMMA CreatedTypes ==
    ASSUME TypeOK
    PROVE  /\ stamps \in Nat
           /\ \A e \in Events : events[e].created \in Nat
           /\ \A n \in Nodes : offsets[n] \in Nat /\ batch[n] \subseteq Events
  BY RowTypes DEF TypeOK

\* Steps that move rows on leave the stamps and the feeds as they are.
LEMMA CursorMoved ==
    ASSUME CInv, TypeOK', Moved
    PROVE  CInv'
<1>1. \A e \in Events : /\ Stored(e)' <=> Stored(e)
                        /\ Committed(e)' <=> Committed(e)
                        /\ events'[e].status = "open" <=> events[e].status = "open"
                        /\ events'[e].status = "unborn" <=> events[e].status = "unborn"
                        /\ events'[e].created = events[e].created
  BY DEF Moved, Same, Stored, Committed, InTable
<1>2. Open' = Open /\ Open \subseteq Events
  BY <1>1 DEF Open
<1>3. {e \in Events : events'[e].status # "unborn"} = {e \in Events : events[e].status # "unborn"}
  BY <1>1
<1>4. UNCHANGED <<stamps, offsets, batch, seen, late>>
  BY DEF Moved
<1>5. StampInv'
  BY <1>1, <1>2, <1>3, <1>4 DEF CInv, StampInv
<1>6. FeedInv'
  <2>1. \A n \in Nodes : batch[n] \subseteq Events
    BY CreatedTypes DEF CInv
  <2> QED
    BY <1>1, <1>2, <1>4, <2>1 DEF CInv, FeedInv
<1>7. CursorCovers'
  BY <1>1, <1>4 DEF CInv, CursorCovers
<1> QED
  BY <1>5, <1>6, <1>7 DEF CInv

\* A new row has a newer stamp than all others, and no feed can read it yet.
LEMMA CursorAppend ==
    ASSUME CInv, TypeOK',
           NEW e \in Events, NEW a \in Aggregates, NEW k \in Keys, Append(e, a, k)
    PROVE  CInv'
<1>1. /\ events \in [Events -> Row] /\ events[e].status = "unborn"
      /\ stamps' = stamps + 1 /\ UNCHANGED <<offsets, batch, seen, late>>
      /\ events'[e].status = "open" /\ events'[e].created = stamps + 1
      /\ \A i \in Events \ {e} : events'[i] = events[i]
  BY DEF CInv, TypeOK, Append, Open, NoRow, feed
<1>2. Open' = Open \union {e} /\ Open \subseteq Events /\ e \notin Open
  BY <1>1 DEF Open
<1>3. /\ \A i \in Events : Stored(i)' <=> Stored(i)
      /\ \A i \in Events : Committed(i)' <=> Committed(i)
      /\ ~Stored(e) /\ ~Committed(e)
  BY <1>1 DEF Stored, Committed, InTable
<1>4. /\ stamps \in Nat /\ \A i \in Events : events[i].created \in Nat
      /\ \A n \in Nodes : offsets[n] \in Nat /\ batch[n] \subseteq Events
  BY CreatedTypes DEF CInv
<1>5. StampInv'
  <2>1. IsFiniteSet({i \in Events : events'[i].status # "unborn"})
    <3>1. {i \in Events : events'[i].status # "unborn"} =
             {i \in Events : events[i].status # "unborn"} \union {e}
      BY <1>1
    <3> QED
      BY <3>1, FS_AddElement DEF CInv, StampInv
  <2>2. \A i \in Events : events'[i].created <= stamps'
    BY <1>1, <1>4 DEF CInv, StampInv
  <2>3. \A i \in Events \ {e} : events'[i].created # stamps + 1
    BY <1>1, <1>4 DEF CInv, StampInv
  <2>4. \A i, q \in Events :
           /\ Committed(i)' \/ i \in Open'
           /\ Committed(q)' \/ q \in Open'
           /\ events'[i].created = events'[q].created
           => i = q
    BY <1>1, <1>2, <1>3, <2>3 DEF CInv, StampInv
  <2> QED
    BY <1>1, <1>2, <2>1, <2>2, <2>4 DEF StampInv
<1>6. FeedInv'
  <2> SUFFICES ASSUME NEW n \in Nodes
               PROVE  /\ batch[n] \subseteq {i \in Events : Committed(i)'}
                      /\ \A i \in batch[n], x \in Events :
                            Stored(x)' /\ events'[x].created < events'[i].created
                               => x \in seen[n] \union late[n] \union batch[n]
    BY <1>1 DEF FeedInv
  <2>1. e \notin batch[n] /\ batch[n] \subseteq {i \in Events : Committed(i)'}
    BY <1>3 DEF CInv, FeedInv
  <2>2. \A i \in batch[n], x \in Events :
           Stored(x)' /\ events'[x].created < events'[i].created
              => x \in seen[n] \union late[n] \union batch[n]
    BY <1>1, <1>3, <1>4, <2>1 DEF CInv, FeedInv
  <2> QED
    BY <2>1, <2>2
<1>7. CursorCovers'
  BY <1>1, <1>3 DEF CInv, CursorCovers
<1> QED
  BY <1>5, <1>6, <1>7 DEF CInv

\* A feed that has read past the row that is committed has it in late; otherwise
\* the row is ahead of the cursor and behind every row of the batch.
LEMMA CursorCommit ==
    ASSUME CInv, TypeOK', NEW e \in Events, Commit(e)
    PROVE  CInv'
<1>1. /\ events \in [Events -> Row] /\ events[e].status = "open" /\ e \in Open
      /\ UNCHANGED <<stamps, offsets, batch, seen>>
      /\ \A n \in Nodes : late'[n] = IF ReadPast(n, e) THEN late[n] \union {e} ELSE late[n]
      /\ events'[e].status = "pending" /\ events'[e].created = events[e].created
      /\ \A i \in Events \ {e} : events'[i] = events[i]
  BY DEF CInv, TypeOK, Commit, Open, Row
<1>2. Open' = Open \ {e}
  BY <1>1 DEF Open
<1>3. /\ \A i \in Events : Stored(i)' <=> Stored(i) \/ i = e
      /\ \A i \in Events : Committed(i)' <=> Committed(i) \/ i = e
      /\ ~Stored(e) /\ ~Committed(e)
  BY <1>1 DEF Stored, Committed, InTable
<1>4. /\ stamps \in Nat /\ \A i \in Events : events[i].created \in Nat
      /\ \A n \in Nodes : offsets[n] \in Nat /\ batch[n] \subseteq Events
  BY CreatedTypes DEF CInv
<1>5. \A n \in Nodes : /\ events[e].created <= offsets[n] => e \in late'[n]
                       /\ \A i \in batch[n] :
                             events[e].created < events[i].created => e \in late'[n]
                       /\ late[n] \subseteq late'[n]
  BY <1>1, <1>4 DEF ReadPast
<1>6. \A i \in Events : events'[i].created = events[i].created
  BY <1>1
<1>7. StampInv'
  <2>1. {i \in Events : events'[i].status # "unborn"} = {i \in Events : events[i].status # "unborn"}
    BY <1>1
  <2>2. Open \subseteq Events
    BY DEF Open
  <2>3. \A i, q \in Events :
           /\ Committed(i)' \/ i \in Open'
           /\ Committed(q)' \/ q \in Open'
           /\ events'[i].created = events'[q].created
           => i = q
    BY <1>1, <1>2, <1>3, <1>6 DEF CInv, StampInv
  <2>4. \A i \in Events : events'[i].created <= stamps'
    BY <1>1, <1>6 DEF CInv, StampInv
  <2> QED
    BY <2>1, <2>3, <2>4 DEF CInv, StampInv
<1>8. FeedInv'
  <2> SUFFICES ASSUME NEW n \in Nodes
               PROVE  /\ batch[n] \subseteq {i \in Events : Committed(i)'}
                      /\ \A i \in batch[n], x \in Events :
                            Stored(x)' /\ events'[x].created < events'[i].created
                               => x \in seen[n] \union late'[n] \union batch[n]
    BY <1>1 DEF FeedInv
  <2>1. batch[n] \subseteq {i \in Events : Committed(i)'}
    BY <1>3 DEF CInv, FeedInv
  <2>2. ASSUME NEW i \in batch[n], NEW x \in Events,
               Stored(x)', events'[x].created < events'[i].created
        PROVE  x \in seen[n] \union late'[n] \union batch[n]
    <3>1. i \in Events /\ events[x].created < events[i].created
      BY <1>4, <1>6, <2>2
    <3>2. CASE x = e
      BY <1>5, <3>1, <3>2
    <3>3. CASE x # e
      BY <1>3, <1>5, <2>2, <3>1, <3>3 DEF CInv, FeedInv
    <3> QED
      BY <3>2, <3>3
  <2> QED
    BY <2>1, <2>2
<1>9. CursorCovers'
  BY <1>1, <1>3, <1>5, <1>6 DEF CInv, CursorCovers
<1> QED
  BY <1>7, <1>8, <1>9 DEF CInv

\* Rows that leave the table, or never reached it, take nothing with them.
LEMMA CursorRemoved ==
    ASSUME CInv, TypeOK', NEW S \in SUBSET Events,
           UNCHANGED <<stamps, offsets, batch, seen, late>>,
           \A e \in Events \ S : events'[e] = events[e],
           \A e \in S : \/ /\ events[e].status = "open" /\ events'[e].status = "void"
                           /\ events'[e].created = 0
                        \/ /\ events[e].status = "delivered" /\ events'[e].status = "pruned"
                           /\ events'[e].created = events[e].created
    PROVE  CInv'
<1>1. \A e \in Events : /\ Stored(e)' => Stored(e) /\ events'[e].created = events[e].created
                        /\ Committed(e)' <=> Committed(e)
                        /\ Committed(e) => events'[e].created = events[e].created
                        /\ e \in Open' => e \in Open /\ events'[e].created = events[e].created
  BY DEF Stored, Committed, InTable, Open
<1>2. {e \in Events : events'[e].status # "unborn"} = {e \in Events : events[e].status # "unborn"}
  OBVIOUS
<1>3. /\ stamps \in Nat /\ \A i \in Events : events[i].created \in Nat
      /\ \A n \in Nodes : offsets[n] \in Nat /\ batch[n] \subseteq Events
  BY CreatedTypes DEF CInv
<1>4. StampInv'
  <2>1. \A e \in Events : events'[e].created <= stamps
    BY <1>3 DEF CInv, StampInv
  <2>2. Open' \subseteq Events
    BY DEF Open
  <2> QED
    BY <1>1, <1>2, <2>1, <2>2 DEF CInv, StampInv
<1>5. FeedInv'
  <2>1. \A n \in Nodes : \A e \in batch[n] :
           e \in Events /\ events'[e].created = events[e].created /\ Committed(e)'
    BY <1>1 DEF CInv, FeedInv
  <2> QED
    BY <1>1, <2>1 DEF CInv, FeedInv
<1>6. CursorCovers'
  BY <1>1 DEF CInv, CursorCovers
<1> QED
  BY <1>4, <1>5, <1>6 DEF CInv

\* The rows that a poll reads are the first ones after the cursor.
LEMMA PolledFirst ==
    ASSUME CInv, NEW n \in Nodes, Poll(n), NEW e \in batch'[n], NEW x \in Ahead(n),
           events[x].created < events[e].created
    PROVE  x \in batch'[n]
<1> DEFINE Older(i) == {q \in Ahead(n) : events[q].created < events[i].created}
<1>1. batch'[n] = {i \in Ahead(n) : Cardinality(Older(i)) < BatchSize}
  BY DEF Poll, CInv, TypeOK
<1>2. \A i \in Ahead(n) : i \in Events /\ events[i].created \in Nat
  BY CreatedTypes DEF CInv, Ahead
<1>3. Ahead(n) \subseteq {i \in Events : events[i].status # "unborn"}
  BY DEF Ahead, Stored, InTable
<1>4. IsFiniteSet(Ahead(n))
  BY <1>3, FS_Subset DEF CInv, StampInv
<1>5. e \in Ahead(n) /\ Older(x) \subseteq Older(e)
  BY <1>1, <1>2
<1>6. IsFiniteSet(Older(e))
  BY <1>4, FS_Subset
<1>7. Cardinality(Older(x)) <= Cardinality(Older(e)) /\ IsFiniteSet(Older(x))
  BY <1>5, <1>6, FS_Subset
<1>8. Cardinality(Older(x)) \in Nat /\ Cardinality(Older(e)) \in Nat
  BY <1>6, <1>7, FS_CardinalityType
<1>9. Cardinality(Older(e)) < BatchSize
  BY <1>1
<1> HIDE DEF Older
<1>10. Cardinality(Older(x)) < BatchSize
  BY <1>7, <1>8, <1>9, BoundsAssumption
<1> QED
  BY <1>1, <1>10

LEMMA CursorFollow ==
    ASSUME CInv, TypeOK', NEW n \in Nodes, Follow(n)
    PROVE  CInv'
<1>1. UNCHANGED <<events, stamps, late>>
  BY DEF Follow, Poll, ApplySome, Apply, ApplyFails, Restart, table
<1>2. StampInv' /\ Open' = Open /\ \A e \in Events : (Stored(e)' <=> Stored(e)) /\ (Committed(e)' <=> Committed(e))
  BY <1>1 DEF CInv, StampInv, Open, Stored, Committed
<1>3. /\ stamps \in Nat /\ \A i \in Events : events[i].created \in Nat
      /\ \A m \in Nodes : offsets[m] \in Nat /\ batch[m] \subseteq Events
  BY CreatedTypes DEF CInv
<1> DEFINE Good(m) == /\ batch'[m] \subseteq {e \in Events : Committed(e)}
                      /\ \A e \in batch'[m], x \in Events :
                            Stored(x) /\ events[x].created < events[e].created
                               => x \in seen'[m] \union late[m] \union batch'[m]
                      /\ \A e \in Events :
                            Stored(e) /\ events[e].created <= offsets'[m]
                               => e \in seen'[m] \union late[m]
<1>4. \A m \in Nodes \ {n} : Good(m)
  <2>1. /\ offsets \in [Nodes -> Nat] /\ batch \in [Nodes -> SUBSET Events]
        /\ seen \in [Nodes -> SUBSET Events]
    BY DEF CInv, TypeOK
  <2>2. \A m \in Nodes \ {n} : offsets'[m] = offsets[m] /\ batch'[m] = batch[m] /\ seen'[m] = seen[m]
    BY <2>1 DEF Follow, Poll, ApplySome, Apply, ApplyFails, Restart
  <2> QED
    BY <2>2 DEF CInv, FeedInv, CursorCovers
<1>5. ASSUME batch'[n] = {}, offsets'[n] = offsets[n],
             \A e \in Events : Stored(e) /\ e \in seen[n] => e \in seen'[n]
      PROVE  Good(n)
  BY <1>5 DEF CInv, FeedInv, CursorCovers
<1>6. ASSUME Poll(n)
      PROVE  Good(n)
  <2>1. /\ UNCHANGED <<offsets, seen>> /\ batch'[n] \subseteq Ahead(n)
    BY <1>6 DEF Poll, CInv, TypeOK
  <2>2. batch'[n] \subseteq {e \in Events : Committed(e)}
    BY <2>1 DEF Ahead, Stored, Committed
  <2>3. ASSUME NEW e \in batch'[n], NEW x \in Events, Stored(x),
               events[x].created < events[e].created
        PROVE  x \in seen[n] \union late[n] \union batch'[n]
    <3>1. CASE events[x].created <= offsets[n]
      BY <2>3, <3>1 DEF CInv, CursorCovers
    <3>2. CASE ~(events[x].created <= offsets[n])
      <4>1. x \in Ahead(n)
        BY <1>3, <2>3, <3>2 DEF Ahead
      <4> QED
        BY <1>6, <2>3, <4>1, PolledFirst
    <3> QED
      BY <3>1, <3>2
  <2> QED
    BY <2>1, <2>2, <2>3 DEF CInv, FeedInv, CursorCovers
<1>7. ASSUME NEW e \in Events, Apply(n, e)
      PROVE  Good(n)
  <2>1. /\ e \in batch[n] /\ \A i \in batch[n] : events[e].created <= events[i].created
        /\ seen'[n] = seen[n] \union {e}
        /\ offsets'[n] = IF events[e].created > offsets[n] THEN events[e].created ELSE offsets[n]
        /\ batch'[n] = batch[n] \ {e}
    BY <1>7 DEF Apply, First, CInv, TypeOK
  <2>2. Committed(e)
    BY <2>1 DEF CInv, FeedInv
  <2>3. \A x \in Events : Stored(x) /\ events[x].created <= events[e].created
                             => x \in seen'[n] \union late[n]
    <3> SUFFICES ASSUME NEW x \in Events, Stored(x), events[x].created <= events[e].created
                 PROVE  x \in seen'[n] \union late[n]
      OBVIOUS
    <3>1. CASE events[x].created = events[e].created
      <4>1. x = e
        BY <2>2, <3>1 DEF CInv, StampInv, Stored, Committed
      <4> QED
        BY <2>1, <4>1
    <3>2. CASE events[x].created # events[e].created
      <4>1. events[x].created < events[e].created
        BY <1>3, <3>2
      <4>2. x \in seen[n] \union late[n] \union batch[n]
        BY <2>1, <4>1 DEF CInv, FeedInv
      <4>3. x \notin batch[n]
        BY <1>3, <2>1, <4>1
      <4> QED
        BY <2>1, <4>2, <4>3
    <3> QED
      BY <3>1, <3>2
  <2>4. \A x \in Events : Stored(x) /\ events[x].created <= offsets'[n]
                             => x \in seen'[n] \union late[n]
    BY <2>1, <2>3 DEF CInv, CursorCovers
  <2>5. /\ batch'[n] \subseteq {i \in Events : Committed(i)}
        /\ \A i \in batch'[n], x \in Events :
              Stored(x) /\ events[x].created < events[i].created
                 => x \in seen'[n] \union late[n] \union batch'[n]
    BY <2>1 DEF CInv, FeedInv
  <2> QED
    BY <2>4, <2>5
<1>8. ASSUME NEW e \in Events, ApplyFails(n, e)
      PROVE  Good(n)
  <2>1. batch'[n] = {} /\ offsets'[n] = offsets[n] /\ seen[n] \subseteq seen'[n]
    BY <1>8 DEF ApplyFails, CInv, TypeOK
  <2> HIDE DEF Good
  <2> QED
    BY <1>5, <2>1
<1>9. ASSUME Restart(n)
      PROVE  Good(n)
  <2>1. /\ batch'[n] = {} /\ offsets'[n] = offsets[n]
        /\ \A e \in Events : Stored(e) => e \in seen'[n]
    BY <1>9 DEF Restart, CInv, TypeOK, Stored
  <2> HIDE DEF Good
  <2> QED
    BY <1>5, <2>1
<1>10. \A m \in Nodes : Good(m)
  BY <1>4, <1>6, <1>7, <1>8, <1>9 DEF Follow, ApplySome
<1>11. FeedInv' /\ CursorCovers'
  BY <1>1, <1>2, <1>10 DEF FeedInv, CursorCovers
<1> QED
  BY <1>2, <1>11 DEF CInv

LEMMA NextCInv ==
    ASSUME IInv, CInv, [Next]_vars
    PROVE  CInv'
<1>1. TypeOK'
  BY NextIInv DEF IInv
<1>2. ASSUME NEW e \in Events, \/ \E a \in Aggregates, k \in Keys : Append(e, a, k)
                               \/ Commit(e)
      PROVE  CInv'
  BY <1>1, <1>2, CursorAppend, CursorCommit
<1>3. ASSUME NEW e \in Events, Rollback(e)
      PROVE  CInv'
  <2>1. /\ events[e].status = "open"
        /\ events'[e].status = "void" /\ events'[e].created = 0
        /\ \A i \in Events \ {e} : events'[i] = events[i]
        /\ UNCHANGED <<stamps, offsets, batch, seen, late>>
    BY <1>3 DEF Rollback, Open, NoRow, feed, CInv, TypeOK
  <2> QED
    BY <1>1, <2>1, CursorRemoved
<1>4. ASSUME NEW S \in SUBSET Events, PruneDelivered(S)
      PROVE  CInv'
  <2>1. /\ \A e \in S : e \in Events /\ events[e].status = "delivered"
        /\ \A e \in Events \ S : events'[e] = events[e]
        /\ UNCHANGED <<stamps, offsets, batch, seen, late>>
    BY <1>4 DEF PruneDelivered, Stale, feed
  <2>2. \A e \in S : events'[e] = [NoRow EXCEPT !.status = "pruned", !.key = events[e].key,
                                                !.created = events[e].created]
    BY <1>4 DEF PruneDelivered
  <2>3. \A e \in S : events'[e].status = "pruned" /\ events'[e].created = events[e].created
    BY <2>2, ZenonT(60) DEF NoRow
  <2> QED
    BY <1>1, <2>1, <2>3, CursorRemoved
<1>5. CASE ClaimSome \/ Tick \/ \E w \in Dispatchers : RunOnce(w) \/ Keep(w)
  <2>1. Moved
    BY <1>5, ClaimStep, ClaimNothingStep, HandleStep, FinishStep, ForgetStep, HeartbeatStep, TickStep
    DEF ClaimSome, RunOnce, FinishSome, Keep
  <2> QED
    BY <1>1, <2>1, CursorMoved
<1>6. CASE UNCHANGED vars
  <2>1. Moved
    BY <1>6, SameRow DEF vars, Moved
  <2> QED
    BY <1>1, <2>1, CursorMoved
<1> QED
  BY <1>1, <1>2, <1>3, <1>4, <1>5, <1>6, CursorFollow DEF Next, Produce, PruneSome

LEMMA InitCInv == Init => CInv
<1> SUFFICES ASSUME Init PROVE CInv
  OBVIOUS
<1>1. \A e \in Events : events[e].status = "unborn" /\ events[e].created = 0
  BY DEF Init, NoRow
<1>2. {e \in Events : events[e].status # "unborn"} = {}
  BY <1>1
<1>3. Open = {} /\ \A e \in Events : ~Stored(e) /\ ~Committed(e)
  BY <1>1 DEF Open, Stored, Committed, InTable
<1>4. TypeOK
  BY InitIInv DEF IInv
<1>5. StampInv
  <2>1. stamps = 0
    BY DEF Init
  <2>2. IsFiniteSet({e \in Events : events[e].status # "unborn"})
    BY <1>2, FS_EmptySet
  <2>3. \A e \in Events : events[e].created <= stamps
    BY <1>1, <2>1
  <2> QED
    BY <1>3, <2>2, <2>3 DEF StampInv
<1>6. \A n \in Nodes : batch[n] = {}
  <2>1. batch = [n \in Nodes |-> {}]
    BY DEF Init
  <2> QED
    BY <2>1, Zenon
<1>7. FeedInv /\ CursorCovers
  BY <1>3, <1>6 DEF FeedInv, CursorCovers
<1> QED
  BY <1>4, <1>5, <1>7 DEF CInv

\* No cursor of a CacheInvalidationFeed is ever past an event its node has not
\* accounted for, but for the events that overlapping transactions committed
\* behind what it had read.
THEOREM CursorSafe == Spec => []CursorCovers
<1>1. Init => CInv
  BY InitCInv
<1>2. IInv /\ CInv /\ [Next]_vars => CInv'
  BY NextCInv
<1>3. CInv => CursorCovers
  BY DEF CInv
<1> QED
  BY <1>1, <1>2, <1>3, Inductive, PTL DEF Spec

-----------------------------------------------------------------------------
(* One transaction at a time *)

\* The open row has the newest stamp, ahead of every cursor.
SerialInv ==
    /\ \A e \in Open : events[e].created = stamps
    /\ \A n \in Nodes : /\ offsets[n] <= stamps
                        /\ \A e \in Open : offsets[n] < events[e].created
                        /\ late[n] = {}

LEMMA SerialStep ==
    ASSUME ~Concurrent, CInv, CInv', SerialInv, NEW e \in Events,
           \/ \E a \in Aggregates, k \in Keys : Append(e, a, k)
           \/ Commit(e)
           \/ Rollback(e)
    PROVE  SerialInv'
<1>1. /\ stamps \in Nat /\ \A i \in Events : events[i].created \in Nat
      /\ \A n \in Nodes : offsets[n] \in Nat /\ batch[n] \subseteq Events
      /\ events \in [Events -> Row]
  BY CreatedTypes DEF CInv, TypeOK
<1>2. ASSUME NEW a \in Aggregates, NEW k \in Keys, Append(e, a, k)
      PROVE  SerialInv'
  <2>1. /\ Open = {} /\ events'[e].created = stamps + 1 /\ stamps' = stamps + 1
        /\ UNCHANGED <<offsets, late>>
        /\ \A i \in Events \ {e} : events'[i] = events[i]
    BY <1>1, <1>2 DEF Append, Open, NoRow, feed
  <2>2. Open' \subseteq {e}
    BY <2>1 DEF Open
  <2> QED
    BY <1>1, <2>1, <2>2 DEF SerialInv
<1>3. CASE Commit(e)
  <2>1. /\ e \in Open /\ UNCHANGED <<stamps, offsets>>
        /\ events'[e].status = "pending"
        /\ \A i \in Events \ {e} : events'[i] = events[i]
        /\ \A n \in Nodes : late'[n] = IF ReadPast(n, e) THEN late[n] \union {e} ELSE late[n]
    BY <1>1, <1>3 DEF Commit, Row
  <2>2. \A i \in Open' : i \in Open /\ events'[i] = events[i]
    BY <2>1 DEF Open
  <2>3. \A n \in Nodes : ~ReadPast(n, e)
    BY <1>1, <2>1 DEF ReadPast, SerialInv, CInv, StampInv
  <2> QED
    BY <2>1, <2>2, <2>3 DEF SerialInv
<1>4. CASE Rollback(e)
  <2>1. /\ UNCHANGED <<stamps, offsets, late>> /\ events'[e].status = "void"
        /\ \A i \in Events \ {e} : events'[i] = events[i]
    BY <1>1, <1>4 DEF Rollback, NoRow, feed
  <2>2. \A i \in Open' : i \in Open /\ events'[i] = events[i]
    BY <2>1 DEF Open
  <2> QED
    BY <2>1, <2>2 DEF SerialInv
<1> QED
  BY <1>2, <1>3, <1>4

LEMMA SerialFollow ==
    ASSUME CInv, SerialInv, NEW n \in Nodes, Follow(n)
    PROVE  SerialInv'
<1>1. UNCHANGED <<events, stamps, late>>
  BY DEF Follow, Poll, ApplySome, Apply, ApplyFails, Restart, table
<1>2. Open' = Open /\ Open \subseteq Events
  BY <1>1 DEF Open
<1>3. /\ stamps \in Nat /\ \A i \in Events : events[i].created \in Nat
      /\ offsets \in [Nodes -> Nat]
  BY CreatedTypes DEF CInv, TypeOK
<1>4. ASSUME NEW e \in Events, Apply(n, e)
      PROVE  offsets'[n] <= stamps /\ \A i \in Open : offsets'[n] < events[i].created
  <2>1. /\ Committed(e) /\ e \notin Open
        /\ offsets'[n] \in {offsets[n], events[e].created}
    BY <1>3, <1>4 DEF Apply, First, CInv, FeedInv, Committed, InTable, Open
  <2>2. \A i \in Open : /\ i \in Events /\ events[i].created = stamps
                        /\ events[i].created # events[e].created
    BY <1>2, <2>1 DEF CInv, StampInv, SerialInv
  <2> QED
    BY <1>3, <2>1, <2>2 DEF CInv, StampInv, SerialInv
<1>5. \/ UNCHANGED offsets
      \/ /\ \E e \in Events : Apply(n, e)
         /\ \A m \in Nodes \ {n} : offsets'[m] = offsets[m]
  BY <1>3 DEF Follow, Poll, ApplySome, Apply, ApplyFails, Restart
<1> QED
  BY <1>1, <1>2, <1>3, <1>4, <1>5 DEF SerialInv

\* Nothing is ever committed behind a cursor or a batch when business
\* transactions run one at a time, as SQLite has it: without an overlap the
\* exception of CursorSafe does not arise.
THEOREM SerialNeverLate ==
    ASSUME ~Concurrent
    PROVE  Spec => [](\A n \in Nodes : late[n] = {})
<1>1. Init => SerialInv
  <2> SUFFICES ASSUME Init PROVE SerialInv
    OBVIOUS
  <2>1. Open = {}
    BY DEF Init, NoRow, Open
  <2>2. stamps = 0 /\ \A n \in Nodes : offsets[n] = 0 /\ late[n] = {}
    BY DEF Init
  <2> QED
    BY <2>1, <2>2 DEF SerialInv
<1>2. IInv /\ CInv /\ SerialInv /\ [Next]_vars => SerialInv'
  <2> SUFFICES ASSUME IInv, CInv, SerialInv, [Next]_vars
               PROVE  SerialInv'
    OBVIOUS
  <2>1. CInv'
    BY NextCInv
  <2>2. CASE Produce
    BY <2>1, <2>2, SerialStep DEF Produce
  <2>3. ASSUME UNCHANGED <<stamps, offsets, late>>,
               \A e \in Events : events'[e].status = "open" =>
                  events[e].status = "open" /\ events'[e].created = events[e].created
        PROVE  SerialInv'
    <3>1. \A e \in Open' : e \in Open /\ events'[e].created = events[e].created
      BY <2>3 DEF Open
    <3> QED
      BY <2>3, <3>1 DEF SerialInv
  <2>4. CASE ClaimSome \/ Tick \/ \E w \in Dispatchers : RunOnce(w) \/ Keep(w)
    <3>1. Moved
      BY <2>4, ClaimStep, ClaimNothingStep, HandleStep, FinishStep, ForgetStep, HeartbeatStep,
         TickStep DEF ClaimSome, RunOnce, FinishSome, Keep
    <3> QED
      BY <2>3, <3>1 DEF Moved, Same, InTable
  <2>5. CASE PruneSome
    <3>1. PICK S \in SUBSET Events : PruneDelivered(S)
      BY <2>5 DEF PruneSome
    <3>2. UNCHANGED <<stamps, offsets, late>>
      BY <3>1 DEF PruneDelivered, feed
    <3>3. \A e \in Events : \/ events'[e] = events[e]
                           \/ events'[e].status = "pruned"
      BY <3>1, ZenonT(30) DEF PruneDelivered, NoRow
    <3> QED
      BY <2>3, <3>2, <3>3
  <2>6. CASE UNCHANGED vars
    BY <2>3, <2>6 DEF vars
  <2> QED
    BY <2>2, <2>4, <2>5, <2>6, SerialFollow DEF Next
<1>3. Init => CInv
  BY InitCInv
<1>4. IInv /\ CInv /\ [Next]_vars => CInv'
  BY NextCInv
<1>5. SerialInv => \A n \in Nodes : late[n] = {}
  BY DEF SerialInv
<1> QED
  BY <1>1, <1>2, <1>3, <1>4, <1>5, Inductive, PTL DEF Spec
=============================================================================
