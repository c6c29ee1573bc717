------------------------- MODULE MCDashboardOnEngine -------------------------
(***************************************************************************)
(* A small instance of the page in front of the engine: two orders, ids    *)
(* posted twice with different contents, and a malformed item.             *)
(***************************************************************************)
EXTENDS DashboardOnEngine

CONSTANTS e1, e2, o1, o2, usd, p1

Body == [amount |-> NULL, refundAmount |-> NULL, currency |-> NULL, hasStatus |-> FALSE]

Item(id, order, type, timestamp) ==
  [eventId |-> id, orderId |-> order, type |-> type, timestamp |-> timestamp,
   payload |-> Body]

MixedEvents ==
  {Item(e1, o1, "ORDER_CREATED", 2), Item(e1, o2, "ORDER_CREATED", 1),
   Item(e2, o1, "ORDER_CANCELLED", 3), Item(e2, o1, "ORDER_CREATED", NULL)}
=============================================================================
