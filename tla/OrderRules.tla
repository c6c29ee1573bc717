----------------------------- MODULE OrderRules -----------------------------
(***************************************************************************)
(* The business rules one validated event meets: the handler strategies   *)
(* that dispatch on the order's status, and the application services they  *)
(* call.  Everything here is a pure function of the order row, its field   *)
(* versions and the event; EventEngine applies the result in a            *)
(* transaction.                                                            *)
(*                                                                         *)
(* Amounts in a payload are integers counting thousandths of a currency    *)
(* unit, fine enough for the rounding to minor units to matter; NULL is an *)
(* absent or ill-typed value.  A missing order is the row NoOrder, whose   *)
(* status is the one the engine dispatches a missing order on.             *)
(*                                                                         *)
(* An operator marked "Mutant" is not part of the model: it is the next    *)
(* definition with a plausible bug in it, kept to show that a property     *)
(* notices the bug.                                                        *)
(***************************************************************************)
EXTENDS Integers

CONSTANTS OrderIds, EventIds, Currencies, NULL

SupportedEventTypes == {"ORDER_CREATED", "ORDER_UPDATED", "PAYMENT_CAPTURED",
                        "ORDER_CANCELLED", "REFUND_ISSUED"}

OrderStatuses == {"DOES_NOT_EXIST", "CREATED", "PAID", "CANCELLED",
                  "PARTIALLY_REFUNDED", "REFUNDED"}

VersionedFields == {"status", "amountMinor", "currency"}

ReasonCodes == {"APPLIED", "PARTIAL_MERGE", "DUPLICATE_EVENT", "INVALID_SCHEMA",
                "UNKNOWN_EVENT_TYPE", "ORDER_NOT_READY", "ORDER_ALREADY_EXISTS",
                "FORBIDDEN_TRANSITION", "OBSOLETE_EVENT", "NO_APPLICABLE_CHANGES",
                "PAYMENT_AMOUNT_REQUIRED", "PAYMENT_ALREADY_CAPTURED",
                "REFUND_AMOUNT_REQUIRED", "REFUND_EXCEEDS_CAPTURED",
                "PROCESSING_ERROR"}

Decisions == {"ACCEPTED", "PARTIALLY_APPLIED", "REJECTED", "DUPLICATE", "FAILED"}

\* NULL is told apart from every value it stands in for.
ASSUME NullAssumption ==
  /\ NULL \notin Int
  /\ NULL \notin OrderIds \cup EventIds \cup Currencies
  /\ NULL \notin OrderStatuses \cup ReasonCodes \cup {"ORDER_NOT_READY", "ERROR"}

-----------------------------------------------------------------------------
\* The data.

Payload == [amount : Int \cup {NULL}, refundAmount : Int \cup {NULL},
            currency : Currencies \cup {NULL}, hasStatus : BOOLEAN]

Event == [eventId : EventIds, orderId : OrderIds, type : SupportedEventTypes,
          timestamp : Int, payload : Payload]

Order == [status : OrderStatuses,
          amountMinor : Nat \cup {NULL}, currency : Currencies \cup {NULL},
          paidAmountMinor : Nat, refundedAmountMinor : Nat]

Version == [timestamp : Int \cup {NULL}, eventId : EventIds \cup {NULL}]

Versions == [VersionedFields -> Version]

\* The columns an event changes, NULL for those it leaves alone.
Changes == [status : OrderStatuses \cup {NULL},
            amountMinor : Nat \cup {NULL}, currency : Currencies \cup {NULL},
            paidAmountMinor : Nat \cup {NULL},
            refundedAmountMinor : Nat \cup {NULL}]

\* What handling an event yields: the order and versions it leaves behind and
\* the decision it records.
Outcome == [order : Order, versions : Versions,
            decision : Decisions, reasonCode : ReasonCodes,
            fromStatus : OrderStatuses \cup {NULL},
            toStatus : OrderStatuses \cup {NULL},
            changedFields : Changes, skippedFields : SUBSET VersionedFields]

NoOrder == [status |-> "DOES_NOT_EXIST", amountMinor |-> NULL, currency |-> NULL,
            paidAmountMinor |-> 0, refundedAmountMinor |-> 0]

NoVersions == [f \in VersionedFields |-> [timestamp |-> NULL, eventId |-> NULL]]

NoChanges == [status |-> NULL, amountMinor |-> NULL, currency |-> NULL,
              paidAmountMinor |-> NULL, refundedAmountMinor |-> NULL]

Missing(o) == o.status = "DOES_NOT_EXIST"

Coalesce(a, b) == IF a = NULL THEN b ELSE a

\* UPDATE orders SET <the changed columns>.
Patched(o, c) ==
  [status |-> Coalesce(c.status, o.status),
   amountMinor |-> Coalesce(c.amountMinor, o.amountMinor),
   currency |-> Coalesce(c.currency, o.currency),
   paidAmountMinor |-> Coalesce(c.paidAmountMinor, o.paidAmountMinor),
   refundedAmountMinor |-> Coalesce(c.refundedAmountMinor, o.refundedAmountMinor)]

-----------------------------------------------------------------------------
\* Reading a payload.

\* Math.round(value * 100) rounds a tie upwards, also below zero.
ReadAmountMinor(value) == IF value = NULL THEN NULL ELSE (value + 5) \div 10

ReadPositiveAmountMinor(value) ==
  LET minor == ReadAmountMinor(value)
  IN  IF minor # NULL /\ minor > 0 THEN minor ELSE NULL

\* Mutant: a negative amount is let through.
AnyAmountMinor(value) == ReadAmountMinor(value)

ReadNonNegativeAmountMinor(value) ==
  LET minor == ReadAmountMinor(value)
  IN  IF minor # NULL /\ minor >= 0 THEN minor ELSE NULL

ReadRefundAmountMinor(payload) ==
  Coalesce(ReadPositiveAmountMinor(payload.refundAmount),
           ReadPositiveAmountMinor(payload.amount))

\* The set-like fields the payload carries.
ReadOrderUpdateChanges(payload) ==
  [NoChanges EXCEPT !.amountMinor = ReadNonNegativeAmountMinor(payload.amount),
                    !.currency = payload.currency]

-----------------------------------------------------------------------------
\* Field versions: the timestamp and event that last set a field.

\* Mutant: the later of two equally new events wins.
CanApplyFieldOnTie(v, f, e) ==
  v[f].timestamp = NULL \/ e.timestamp >= v[f].timestamp

CanApplyField(v, f, e) ==
  v[f].timestamp = NULL \/ e.timestamp > v[f].timestamp

UpsertFieldVersions(v, fields, e) ==
  [f \in VersionedFields |->
     IF f \in fields THEN [timestamp |-> e.timestamp, eventId |-> e.eventId]
                     ELSE v[f]]

-----------------------------------------------------------------------------
\* Decisions.

StatusOrNull(o) == IF Missing(o) THEN NULL ELSE o.status

Accept(o, v, from, to, changes) ==
  [order |-> o, versions |-> v, decision |-> "ACCEPTED", reasonCode |-> "APPLIED",
   fromStatus |-> from, toStatus |-> to,
   changedFields |-> changes, skippedFields |-> {}]

Reject(o, v, reason, skipped) ==
  [order |-> o, versions |-> v, decision |-> "REJECTED", reasonCode |-> reason,
   fromStatus |-> StatusOrNull(o), toStatus |-> StatusOrNull(o),
   changedFields |-> NoChanges, skippedFields |-> skipped]

RejectOrderNotReady(o, v) == Reject(o, v, "ORDER_NOT_READY", {})

RejectOrderAlreadyExists(o, v) == Reject(o, v, "ORDER_ALREADY_EXISTS", {})

RejectForbiddenTransition(o, v) == Reject(o, v, "FORBIDDEN_TRANSITION", {})

RejectObsoleteStatus(o, v) == Reject(o, v, "OBSOLETE_EVENT", {"status"})

-----------------------------------------------------------------------------
\* The application services.

CreateOrder(v, e) ==
  LET changes == [ReadOrderUpdateChanges(e.payload) EXCEPT !.status = "CREATED"]
      row == [NoOrder EXCEPT !.status = "CREATED",
                             !.amountMinor = changes.amountMinor,
                             !.currency = changes.currency]
      written == {f \in VersionedFields : changes[f] # NULL}
  IN  Accept(row, UpsertFieldVersions(v, written, e), NULL, "CREATED", changes)

\* Mutant: an update with a stale field is refused as a whole.
UpdateAllOrNothing(o, v, e) ==
  LET read == ReadOrderUpdateChanges(e.payload)
      fresh == {f \in VersionedFields : read[f] # NULL /\ CanApplyField(v, f, e)}
      stale == {f \in VersionedFields : read[f] # NULL /\ f \notin fresh}
  IN  IF Missing(o) THEN RejectOrderNotReady(o, v)
      ELSE IF fresh = {} \/ stale # {} THEN Reject(o, v, "NO_APPLICABLE_CHANGES", stale)
      ELSE Accept(Patched(o, read), UpsertFieldVersions(v, fresh, e),
                  o.status, o.status, read)

UpdateOrderFields(o, v, e) ==
  LET read == ReadOrderUpdateChanges(e.payload)
      fresh == {f \in VersionedFields : read[f] # NULL /\ CanApplyField(v, f, e)}
      skipped == {f \in VersionedFields : read[f] # NULL /\ f \notin fresh}
                   \cup {f \in {"status"} : e.payload.hasStatus}
      changes == [NoChanges EXCEPT
                    !.amountMinor = IF "amountMinor" \in fresh THEN read.amountMinor ELSE NULL,
                    !.currency = IF "currency" \in fresh THEN read.currency ELSE NULL]
      accepted == Accept(Patched(o, changes), UpsertFieldVersions(v, fresh, e),
                         o.status, o.status, changes)
  IN  IF Missing(o) THEN RejectOrderNotReady(o, v)
      ELSE IF fresh = {} THEN Reject(o, v, "NO_APPLICABLE_CHANGES", skipped)
      ELSE IF skipped = {} THEN accepted
      ELSE [accepted EXCEPT !.decision = "PARTIALLY_APPLIED",
                            !.reasonCode = "PARTIAL_MERGE",
                            !.skippedFields = skipped]

\* A lifecycle event takes effect only if it is newer than the status it
\* replaces.
ApplyStatusWhenCurrent(o, v, e, changes) ==
  IF CanApplyField(v, "status", e)
  THEN Accept(Patched(o, changes), UpsertFieldVersions(v, {"status"}, e),
              StatusOrNull(o), changes.status, changes)
  ELSE RejectObsoleteStatus(o, v)

\* Mutant: a second capture is not refused.
CaptureAgain(o, v, e) ==
  LET amount == ReadPositiveAmountMinor(e.payload.amount)
  IN  IF Missing(o) THEN RejectOrderNotReady(o, v)
      ELSE IF amount = NULL THEN Reject(o, v, "PAYMENT_AMOUNT_REQUIRED", {})
      ELSE ApplyStatusWhenCurrent(o, v, e,
             [NoChanges EXCEPT !.status = "PAID", !.paidAmountMinor = amount])

CapturePayment(o, v, e) ==
  LET amount == ReadPositiveAmountMinor(e.payload.amount)
  IN  IF Missing(o) THEN RejectOrderNotReady(o, v)
      ELSE IF amount = NULL THEN Reject(o, v, "PAYMENT_AMOUNT_REQUIRED", {})
      ELSE IF o.paidAmountMinor > 0 THEN Reject(o, v, "PAYMENT_ALREADY_CAPTURED", {})
      ELSE ApplyStatusWhenCurrent(o, v, e,
             [NoChanges EXCEPT !.status = "PAID", !.paidAmountMinor = amount])

CancelOrder(o, v, e) ==
  IF Missing(o) THEN RejectOrderNotReady(o, v)
  ELSE ApplyStatusWhenCurrent(o, v, e, [NoChanges EXCEPT !.status = "CANCELLED"])

\* Mutant: a late refund is accepted but not written to the order.
ApplyRefundWhenCurrent(o, v, e, changes) ==
  IF CanApplyField(v, "status", e)
  THEN Accept(Patched(o, changes), UpsertFieldVersions(v, {"status"}, e),
              StatusOrNull(o), changes.status, changes)
  ELSE Accept(o, v, StatusOrNull(o), changes.status, changes)

\* A refund is a financial fact: a late one still counts, and leaves the
\* version of the status alone.
ApplyRefund(o, v, e, changes) ==
  Accept(Patched(o, changes),
         UpsertFieldVersions(v, {f \in {"status"} : CanApplyField(v, f, e)}, e),
         StatusOrNull(o), changes.status, changes)

\* Mutant: the limit ignores earlier refunds.
IssueRefundUpToPaid(o, v, e) ==
  LET amount == ReadRefundAmountMinor(e.payload)
      refunded == o.refundedAmountMinor + amount
      status == IF refunded = o.paidAmountMinor THEN "REFUNDED"
                                                ELSE "PARTIALLY_REFUNDED"
  IN  IF Missing(o) THEN RejectOrderNotReady(o, v)
      ELSE IF amount = NULL THEN Reject(o, v, "REFUND_AMOUNT_REQUIRED", {})
      ELSE IF amount > o.paidAmountMinor
           THEN Reject(o, v, "REFUND_EXCEEDS_CAPTURED", {})
      ELSE ApplyRefund(o, v, e, [NoChanges EXCEPT !.status = status,
                                                  !.refundedAmountMinor = refunded])

\* Mutant: a refund replaces the earlier ones instead of adding to them.
IssueRefundAnew(o, v, e) ==
  LET amount == ReadRefundAmountMinor(e.payload)
      status == IF amount = o.paidAmountMinor THEN "REFUNDED"
                                              ELSE "PARTIALLY_REFUNDED"
  IN  IF Missing(o) THEN RejectOrderNotReady(o, v)
      ELSE IF amount = NULL THEN Reject(o, v, "REFUND_AMOUNT_REQUIRED", {})
      ELSE IF amount > o.paidAmountMinor - o.refundedAmountMinor
           THEN Reject(o, v, "REFUND_EXCEEDS_CAPTURED", {})
      ELSE ApplyRefund(o, v, e, [NoChanges EXCEPT !.status = status,
                                                  !.refundedAmountMinor = amount])

IssueRefund(o, v, e) ==
  LET amount == ReadRefundAmountMinor(e.payload)
      refunded == o.refundedAmountMinor + amount
      status == IF refunded = o.paidAmountMinor THEN "REFUNDED"
                                                ELSE "PARTIALLY_REFUNDED"
  IN  IF Missing(o) THEN RejectOrderNotReady(o, v)
      ELSE IF amount = NULL THEN Reject(o, v, "REFUND_AMOUNT_REQUIRED", {})
      ELSE IF amount > o.paidAmountMinor - o.refundedAmountMinor
           THEN Reject(o, v, "REFUND_EXCEEDS_CAPTURED", {})
      ELSE ApplyRefund(o, v, e, [NoChanges EXCEPT !.status = status,
                                                  !.refundedAmountMinor = refunded])

-----------------------------------------------------------------------------
\* The handler strategies: which service each type of event meets in each
\* status of the order.

NonExistentOrderEventHandler ==
  [ORDER_CREATED |-> "createOrder", ORDER_UPDATED |-> "rejectOrderNotReady",
   PAYMENT_CAPTURED |-> "rejectOrderNotReady",
   ORDER_CANCELLED |-> "rejectOrderNotReady",
   REFUND_ISSUED |-> "rejectOrderNotReady"]

OrderCreatedEventHandler ==
  [ORDER_CREATED |-> "rejectOrderAlreadyExists",
   ORDER_UPDATED |-> "updateOrderFields", PAYMENT_CAPTURED |-> "capturePayment",
   ORDER_CANCELLED |-> "cancelOrder", REFUND_ISSUED |-> "rejectForbiddenTransition"]

OrderPaidEventHandler ==
  [ORDER_CREATED |-> "rejectOrderAlreadyExists",
   ORDER_UPDATED |-> "updateOrderFields", PAYMENT_CAPTURED |-> "capturePayment",
   ORDER_CANCELLED |-> "rejectForbiddenTransition", REFUND_ISSUED |-> "issueRefund"]

OrderCancelledEventHandler ==
  [ORDER_CREATED |-> "rejectOrderAlreadyExists",
   ORDER_UPDATED |-> "updateOrderFields",
   PAYMENT_CAPTURED |-> "rejectForbiddenTransition",
   ORDER_CANCELLED |-> "rejectForbiddenTransition",
   REFUND_ISSUED |-> "rejectForbiddenTransition"]

OrderPartiallyRefundedEventHandler ==
  [ORDER_CREATED |-> "rejectOrderAlreadyExists",
   ORDER_UPDATED |-> "updateOrderFields", PAYMENT_CAPTURED |-> "capturePayment",
   ORDER_CANCELLED |-> "rejectForbiddenTransition", REFUND_ISSUED |-> "issueRefund"]

OrderRefundedEventHandler ==
  [ORDER_CREATED |-> "rejectOrderAlreadyExists",
   ORDER_UPDATED |-> "updateOrderFields", PAYMENT_CAPTURED |-> "capturePayment",
   ORDER_CANCELLED |-> "rejectForbiddenTransition", REFUND_ISSUED |-> "issueRefund"]

CreateOrderEventHandler(status) ==
  CASE status = "DOES_NOT_EXIST" -> NonExistentOrderEventHandler
    [] status = "CREATED" -> OrderCreatedEventHandler
    [] status = "PAID" -> OrderPaidEventHandler
    [] status = "CANCELLED" -> OrderCancelledEventHandler
    [] status = "PARTIALLY_REFUNDED" -> OrderPartiallyRefundedEventHandler
    [] status = "REFUNDED" -> OrderRefundedEventHandler

\* What event e does to the order row o with field versions v.
HandleEvent(o, v, e) ==
  LET service == CreateOrderEventHandler(o.status)[e.type]
  IN  CASE service = "createOrder" -> CreateOrder(v, e)
        [] service = "updateOrderFields" -> UpdateOrderFields(o, v, e)
        [] service = "capturePayment" -> CapturePayment(o, v, e)
        [] service = "cancelOrder" -> CancelOrder(o, v, e)
        [] service = "issueRefund" -> IssueRefund(o, v, e)
        [] service = "rejectOrderAlreadyExists" -> RejectOrderAlreadyExists(o, v)
        [] service = "rejectOrderNotReady" -> RejectOrderNotReady(o, v)
        [] service = "rejectForbiddenTransition" -> RejectForbiddenTransition(o, v)

-----------------------------------------------------------------------------
\* The status and the money of an order row agree.
ConsistentRow(o) ==
  \/ o = NoOrder
  \/ /\ o.status \in {"CREATED", "CANCELLED"}
     /\ o.paidAmountMinor = 0 /\ o.refundedAmountMinor = 0
  \/ /\ o.status = "PAID"
     /\ o.paidAmountMinor > 0 /\ o.refundedAmountMinor = 0
  \/ /\ o.status = "PARTIALLY_REFUNDED"
     /\ 0 < o.refundedAmountMinor /\ o.refundedAmountMinor < o.paidAmountMinor
  \/ /\ o.status = "REFUNDED"
     /\ 0 < o.refundedAmountMinor /\ o.refundedAmountMinor = o.paidAmountMinor
=============================================================================
