-------------------------------- MODULE Inbox --------------------------------
(***************************************************************************)
(* What the engine promises a client of POST /api/events, whatever fails   *)
(* behind it: the deliveries of a request are stored together, each gets   *)
(* one verdict and keeps it, of the deliveries of one event id at most one *)
(* meets the order, and the statistics count every verdict as it falls.    *)
(***************************************************************************)
EXTENDS Integers, Sequences

CONSTANTS EventIds, NULL, MaxDeliveries, MaxBatch

VARIABLES
  deliveries,  \* oldest first: the event id, NULL if it has none, and the verdict
  counts       \* the statistics a client can read

\* The order took the event, refused it, or was never asked.
Evaluations == {"APPLIED", "REFUSED"}
Verdicts == Evaluations \cup {"INVALID", "DUPLICATE", "FAILED"}

Init ==
  /\ deliveries = <<>>
  /\ counts = [valid |-> 0, rejected |-> 0, duplicate |-> 0]

\* A request with these event ids is stored.
Post(ids) ==
  /\ Len(deliveries) + Len(ids) <= MaxDeliveries
  /\ deliveries' = deliveries \o
       [k \in 1..Len(ids) |-> [eventId |-> ids[k], verdict |-> NULL]]
  /\ UNCHANGED counts

Others(i) ==
  {j \in DOMAIN deliveries \ {i} : deliveries[j].eventId = deliveries[i].eventId}

Count(verdict) ==
  [valid |-> counts.valid + IF verdict = "APPLIED" THEN 1 ELSE 0,
   rejected |-> counts.rejected + IF verdict \in {"REFUSED", "INVALID", "FAILED"}
                                  THEN 1 ELSE 0,
   duplicate |-> counts.duplicate + IF verdict = "DUPLICATE" THEN 1 ELSE 0]

Decide(i, verdict) ==
  /\ deliveries[i].verdict = NULL
  /\ deliveries[i].eventId = NULL => verdict \in {"INVALID", "FAILED"}
  /\ verdict \in Evaluations =>
       \A j \in Others(i) : deliveries[j].verdict \notin Evaluations
  /\ verdict = "DUPLICATE" => Others(i) # {}
  /\ deliveries' = [deliveries EXCEPT ![i].verdict = verdict]
  /\ counts' = Count(verdict)

Next ==
  \/ \E n \in 1..MaxBatch : \E ids \in [1..n -> EventIds \cup {NULL}] : Post(ids)
  \/ \E i \in DOMAIN deliveries, verdict \in Verdicts : Decide(i, verdict)

Spec == Init /\ [][Next]_<<deliveries, counts>>

\* Every delivery gets its verdict.
Settles ==
  \A i \in 1..MaxDeliveries :
    i \in DOMAIN deliveries ~> i \in DOMAIN deliveries /\ deliveries[i].verdict # NULL
=============================================================================
