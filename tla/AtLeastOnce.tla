---------------------------- MODULE AtLeastOnce ----------------------------
(***************************************************************************)
(* What the delivery queues promise, without files, cursors or numbers: a  *)
(* delivery to a lieutenant is outstanding until it is settled, it is      *)
(* settled only after it was offered, and a settled one may at worst come  *)
(* back.  Only the retirement of a lieutenant drops its deliveries.        *)
(***************************************************************************)
CONSTANTS Lts, Items

VARIABLES
  outstanding,  \* deliveries on offer until settled
  offered,      \* deliveries some drain has served
  settled       \* deliveries consumed

vars == <<outstanding, offered, settled>>

Deliveries == [lt : Lts, item : Items]
Of(l, S) == {d \in S : d.lt = l}

Init == outstanding = {} /\ offered = {} /\ settled = {}

Deliver(d) ==
  /\ d \notin outstanding \cup settled
  /\ outstanding' = outstanding \cup {d}
  /\ UNCHANGED <<offered, settled>>

\* A drain serves everything outstanding for the lieutenants in L.
Offer(L) ==
  /\ offered' = offered \cup UNION {Of(l, outstanding) : l \in L}
  /\ UNCHANGED <<outstanding, settled>>

\* Deliveries are consumed, and only ones that were offered.
Settle ==
  /\ outstanding' \subseteq outstanding
  /\ outstanding \ outstanding' \subseteq offered
  /\ settled' = settled \cup (outstanding \ outstanding')
  /\ UNCHANGED offered

\* At least once: what was settled may be offered again.
Reoffer ==
  /\ settled' \subseteq settled
  /\ outstanding' = outstanding \cup (settled \ settled')
  /\ UNCHANGED offered

Retire(l) ==
  /\ outstanding' = outstanding \ Of(l, outstanding)
  /\ offered' = offered \ Of(l, offered)
  /\ settled' = settled \ Of(l, settled)

Next ==
  \/ Settle
  \/ Reoffer
  \/ \E l \in Lts : Retire(l)
  \/ \E L \in SUBSET Lts : Offer(L)
  \/ \E d \in Deliveries : Deliver(d)

Spec == Init /\ [][Next]_vars
=============================================================================
