---------------------------- MODULE MCReaders ----------------------------
(***************************************************************************)
(* Small instances of the engine with clients that read.                   *)
(***************************************************************************)
EXTENDS Readers

CONSTANTS e1, e2, e3, o1, usd, p1, c1

MCEventIds == {e1, e2, e3}

Body == [amount |-> NULL, refundAmount |-> NULL, currency |-> NULL, hasStatus |-> FALSE]

Item(id, type, time, payload) ==
  [eventId |-> id, orderId |-> o1, type |-> type, timestamp |-> time, payload |-> payload]

\* An order that is created, updated in part and paid too late; every item may
\* be delivered again, and anything but the creation may come before it.
ReadEvents ==
  {Item(e1, "ORDER_CREATED", 2, Body),
   Item(e2, "ORDER_UPDATED", 3, [Body EXCEPT !.currency = usd, !.hasStatus = TRUE]),
   Item(e3, "PAYMENT_CAPTURED", 1, [Body EXCEPT !.amount = 10])}

\* Constraint: no crash and no failing transaction once something is stored.
Quiet ==
  /\ phase = "down" => inbox = <<>>
  /\ \A p \in Polls : pc[p] # "failing"

\* Constraint: at most one request at a time.  Requests do not affect each other.
OneAtATime ==
  \A c \in OrderClients, d \in EventClients :
    orderRequests[c] = NULL \/ eventRequests[d] = NULL
=============================================================================
