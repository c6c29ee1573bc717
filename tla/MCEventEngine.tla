---------------------------- MODULE MCEventEngine ----------------------------
(***************************************************************************)
(* Small instances of the engine: what clients post in each scenario.      *)
(***************************************************************************)
EXTENDS EventEngineProperties

CONSTANTS e1, e2, e3, e4, e5, e6, o1, o2, usd, eur, p1, p2

MCEventIds == {e1, e2, e3, e4, e5, e6}

Item(id, order, type, time, payload) ==
  [eventId |-> id, orderId |-> order, type |-> type, timestamp |-> time,
   payload |-> payload]

Body == [amount |-> NULL, refundAmount |-> NULL, currency |-> NULL, hasStatus |-> FALSE]

Paying(amount) == [Body EXCEPT !.amount = amount]
Refunding(amount) == [Body EXCEPT !.refundAmount = amount]
Priced(amount, currency) == [Body EXCEPT !.amount = amount, !.currency = currency]

\* One order from creation to full refund or cancellation; two captures that
\* compete, and a refund and a cancellation that may come late.
LifecycleEvents ==
  {Item(e1, o1, "ORDER_CREATED", 2, Priced(30, usd)),
   Item(e2, o1, "PAYMENT_CAPTURED", 3, Paying(26)),
   Item(e3, o1, "PAYMENT_CAPTURED", 5, Paying(15)),
   Item(e4, o1, "REFUND_ISSUED", 4, Refunding(10)),
   Item(e5, o1, "REFUND_ISSUED", 3, Paying(20)),
   Item(e6, o1, "ORDER_CANCELLED", 3, Body)}

\* Creations and updates of set-like fields, with ties and late arrivals.
MergeEvents ==
  {Item(e1, o1, "ORDER_CREATED", 2, Priced(10, NULL)),
   Item(e2, o1, "ORDER_UPDATED", 2, Priced(20, eur)),
   Item(e3, o1, "ORDER_UPDATED", 1, Priced(-20, usd)),
   Item(e4, o1, "ORDER_UPDATED", 3, [Priced(30, usd) EXCEPT !.hasStatus = TRUE]),
   Item(e5, o1, "ORDER_UPDATED", 3, Priced(40, NULL))}

OrderEvents == LifecycleEvents \cup MergeEvents

\* Constraint: an order lives through events of one of the two kinds.
OneKind ==
  LET posted == {inbox[i].raw : i \in DOMAIN inbox}
  IN  posted \subseteq LifecycleEvents \/ posted \subseteq MergeEvents

\* Few deliveries, for the runs about failures and progress.
FaultyEvents ==
  {Item(e1, o1, "ORDER_CREATED", 2, Paying(-20)),
   Item(e2, o1, "ORDER_CANCELLED", 1, Body),
   Item(e2, o1, "ORDER_CANCELLED", 3, Body)}

\* Constraint of the runs that explore what is delivered rather than what
\* fails: no crash and no failing transaction once something is stored.
Quiet ==
  /\ phase = "down" => inbox = <<>>
  /\ \A p \in Polls : pc[p] # "failing"

\* Constraint of the runs in which no item is posted twice.
NoRepeats ==
  \A i, j \in DOMAIN inbox : inbox[i].raw = inbox[j].raw => i = j
=============================================================================
