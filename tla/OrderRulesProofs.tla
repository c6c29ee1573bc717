-------------------------- MODULE OrderRulesProofs --------------------------
(***************************************************************************)
(* What handling one event does to an order row: lemmas on the services of *)
(* OrderRules, for every row, version, event and amount.                   *)
(***************************************************************************)
EXTENDS OrderRules, TLAPS

\* An amount that is read is a number of minor units of the sign asked for.
LEMMA AmountTypes ==
  ASSUME NEW value \in Int \cup {NULL}
  PROVE  /\ ReadAmountMinor(value) \in Int \cup {NULL}
         /\ ReadNonNegativeAmountMinor(value) \in Nat \cup {NULL}
         /\ ReadPositiveAmountMinor(value) \in (Nat \ {0}) \cup {NULL}
<1>1. ReadAmountMinor(value) \in Int \cup {NULL}
  BY DEF ReadAmountMinor
<1>2. ReadNonNegativeAmountMinor(value) \in Nat \cup {NULL}
  BY <1>1 DEF ReadNonNegativeAmountMinor
<1>3. ReadPositiveAmountMinor(value) \in (Nat \ {0}) \cup {NULL}
  BY <1>1 DEF ReadPositiveAmountMinor
<1> QED
  BY <1>1, <1>2, <1>3

\* A refund that is read is positive.
LEMMA RefundAmountType ==
  ASSUME NEW payload \in Payload
  PROVE  ReadRefundAmountMinor(payload) \in (Nat \ {0}) \cup {NULL}
<1>1. payload.refundAmount \in Int \cup {NULL} /\ payload.amount \in Int \cup {NULL}
  BY DEF Payload
<1>2. /\ ReadPositiveAmountMinor(payload.refundAmount) \in (Nat \ {0}) \cup {NULL}
      /\ ReadPositiveAmountMinor(payload.amount) \in (Nat \ {0}) \cup {NULL}
  BY <1>1, AmountTypes
<1> QED
  BY <1>2 DEF ReadRefundAmountMinor, Coalesce

LEMMA PatchedType ==
  ASSUME NEW o \in Order, NEW c \in Changes
  PROVE  Patched(o, c) \in Order
  BY DEF Patched, Coalesce, Order, Changes

LEMMA UpsertType ==
  ASSUME NEW v \in Versions, NEW fields, NEW e \in Event
  PROVE  UpsertFieldVersions(v, fields, e) \in Versions
  BY DEF UpsertFieldVersions, Versions, Version, Event

LEMMA AcceptType ==
  ASSUME NEW o \in Order, NEW v \in Versions, NEW c \in Changes,
         NEW from \in OrderStatuses \cup {NULL}, NEW to \in OrderStatuses \cup {NULL}
  PROVE  /\ Accept(o, v, from, to, c) \in Outcome
         /\ Accept(o, v, from, to, c).order = o
  BY DEF Accept, Outcome, Decisions, ReasonCodes

LEMMA RejectType ==
  ASSUME NEW o \in Order, NEW v \in Versions, NEW reason \in ReasonCodes,
         NEW skipped \in SUBSET VersionedFields
  PROVE  /\ Reject(o, v, reason, skipped) \in Outcome
         /\ Reject(o, v, reason, skipped).order = o
<1>1. StatusOrNull(o) \in OrderStatuses \cup {NULL}
  BY DEF StatusOrNull, Order
<1>2. NoChanges \in Changes
  BY DEF NoChanges, Changes
<1> QED
  BY <1>1, <1>2 DEF Reject, Outcome, Decisions

\* The services that refuse an event leave the order as it is.
LEMMA RefusalType ==
  ASSUME NEW o \in Order, NEW v \in Versions,
         NEW out \in {RejectOrderNotReady(o, v), RejectOrderAlreadyExists(o, v),
                      RejectForbiddenTransition(o, v), RejectObsoleteStatus(o, v)}
  PROVE  out \in Outcome /\ out.order = o
<1>1. /\ {"ORDER_NOT_READY", "ORDER_ALREADY_EXISTS", "FORBIDDEN_TRANSITION",
          "OBSOLETE_EVENT"} \subseteq ReasonCodes
      /\ {"status"} \in SUBSET VersionedFields
  BY DEF ReasonCodes, VersionedFields
<1> QED
  BY <1>1, RejectType DEF RejectOrderNotReady, RejectOrderAlreadyExists,
     RejectForbiddenTransition, RejectObsoleteStatus

\* An update speaks neither of the status nor of money.
LEMMA ReadChangesType ==
  ASSUME NEW payload \in Payload
  PROVE  LET c == ReadOrderUpdateChanges(payload)
         IN  /\ c \in Changes
             /\ c.status = NULL /\ c.paidAmountMinor = NULL
             /\ c.refundedAmountMinor = NULL
<1>1. payload.amount \in Int \cup {NULL} /\ payload.currency \in Currencies \cup {NULL}
  BY DEF Payload
<1>2. ReadNonNegativeAmountMinor(payload.amount) \in Nat \cup {NULL}
  BY <1>1, AmountTypes
<1> QED
  BY <1>1, <1>2 DEF ReadOrderUpdateChanges, NoChanges, Changes

-----------------------------------------------------------------------------
\* How one event may change the status and the money of an order.
Opened(o, r) ==
  /\ Missing(o) /\ r.status = "CREATED"
  /\ r.paidAmountMinor = o.paidAmountMinor
  /\ r.refundedAmountMinor = o.refundedAmountMinor

Untouched(o, r) ==
  /\ r.status = o.status
  /\ r.paidAmountMinor = o.paidAmountMinor
  /\ r.refundedAmountMinor = o.refundedAmountMinor
  /\ Missing(o) => r = o

Captured(o, r) ==
  /\ o.status = "CREATED" /\ r.status = "PAID"
  /\ r.paidAmountMinor > 0
  /\ r.refundedAmountMinor = o.refundedAmountMinor

Cancelled(o, r) ==
  /\ o.status = "CREATED" /\ r.status = "CANCELLED"
  /\ r.paidAmountMinor = o.paidAmountMinor
  /\ r.refundedAmountMinor = o.refundedAmountMinor

Refunded(o, r) ==
  /\ o.status \in {"PAID", "PARTIALLY_REFUNDED"}
  /\ r.status = IF r.refundedAmountMinor = o.paidAmountMinor
                THEN "REFUNDED" ELSE "PARTIALLY_REFUNDED"
  /\ r.paidAmountMinor = o.paidAmountMinor
  /\ o.refundedAmountMinor < r.refundedAmountMinor
  /\ r.refundedAmountMinor <= o.paidAmountMinor

LedgerStep(o, r) ==
  \/ Untouched(o, r) \/ Opened(o, r) \/ Captured(o, r)
  \/ Cancelled(o, r) \/ Refunded(o, r)

\* What each service does to the status and the money of a row.
LEMMA CreateOrderStep ==
  ASSUME NEW v \in Versions, NEW e \in Event
  PROVE  /\ CreateOrder(v, e) \in Outcome
         /\ Opened(NoOrder, CreateOrder(v, e).order)
<1> DEFINE c == [ReadOrderUpdateChanges(e.payload) EXCEPT !.status = "CREATED"]
           row == [NoOrder EXCEPT !.status = "CREATED",
                                  !.amountMinor = c.amountMinor,
                                  !.currency = c.currency]
           w == UpsertFieldVersions(v, {f \in VersionedFields : c[f] # NULL}, e)
<1>1. e.payload \in Payload
  BY DEF Event
<1>2. c \in Changes
  BY <1>1, ReadChangesType DEF Changes, OrderStatuses
<1>3. row \in Order /\ Opened(NoOrder, row)
  BY <1>2 DEF NoOrder, Order, Changes, OrderStatuses, Opened, Missing
<1>4. w \in Versions
  BY UpsertType
<1>5. CreateOrder(v, e) = Accept(row, w, NULL, "CREATED", c)
  BY DEF CreateOrder
<1> HIDE DEF c, row, w
<1>6. "CREATED" \in OrderStatuses
  BY DEF OrderStatuses
<1> QED
  BY <1>2, <1>3, <1>4, <1>5, <1>6, AcceptType

LEMMA UpdateOrderFieldsStep ==
  ASSUME NEW o \in Order, NEW v \in Versions, NEW e \in Event
  PROVE  /\ UpdateOrderFields(o, v, e) \in Outcome
         /\ Untouched(o, UpdateOrderFields(o, v, e).order)
<1> DEFINE read == ReadOrderUpdateChanges(e.payload)
           fresh == {f \in VersionedFields : read[f] # NULL /\ CanApplyField(v, f, e)}
           skipped == {f \in VersionedFields : read[f] # NULL /\ f \notin fresh}
                        \cup {f \in {"status"} : e.payload.hasStatus}
           c == [NoChanges EXCEPT
                   !.amountMinor = IF "amountMinor" \in fresh THEN read.amountMinor ELSE NULL,
                   !.currency = IF "currency" \in fresh THEN read.currency ELSE NULL]
           out == Accept(Patched(o, c), UpsertFieldVersions(v, fresh, e),
                         o.status, o.status, c)
<1>1. e.payload \in Payload
  BY DEF Event
<1>2. /\ c \in Changes /\ c.status = NULL
      /\ c.paidAmountMinor = NULL /\ c.refundedAmountMinor = NULL
  BY <1>1, ReadChangesType DEF Changes, NoChanges
<1>3. skipped \in SUBSET VersionedFields
  BY DEF VersionedFields
<1>4. UpsertFieldVersions(v, fresh, e) \in Versions
  BY UpsertType
<1>5. UpdateOrderFields(o, v, e) =
        IF Missing(o) THEN RejectOrderNotReady(o, v)
        ELSE IF fresh = {} THEN Reject(o, v, "NO_APPLICABLE_CHANGES", skipped)
        ELSE IF skipped = {} THEN out
        ELSE [out EXCEPT !.decision = "PARTIALLY_APPLIED",
                         !.reasonCode = "PARTIAL_MERGE",
                         !.skippedFields = skipped]
  BY DEF UpdateOrderFields
<1> HIDE DEF read, fresh, skipped, c
<1>6. Patched(o, c) \in Order /\ (~Missing(o) => Untouched(o, Patched(o, c)))
  BY <1>2, PatchedType DEF Patched, Coalesce, Untouched
<1>7. out \in Outcome /\ out.order = Patched(o, c)
  <2>1. o.status \in OrderStatuses
    BY DEF Order
  <2> QED
    BY <2>1, <1>2, <1>4, <1>6, AcceptType
<1> HIDE DEF out
<1>8. CASE Missing(o)
  BY <1>5, <1>8, RefusalType DEF Untouched
<1>9. CASE ~Missing(o) /\ fresh = {}
  <2>1. "NO_APPLICABLE_CHANGES" \in ReasonCodes
    BY DEF ReasonCodes
  <2> QED
    BY <2>1, <1>3, <1>5, <1>9, RejectType DEF Untouched
<1>10. CASE ~Missing(o) /\ fresh # {}
  <2>1. /\ [out EXCEPT !.decision = "PARTIALLY_APPLIED", !.reasonCode = "PARTIAL_MERGE",
                       !.skippedFields = skipped] \in Outcome
        /\ [out EXCEPT !.decision = "PARTIALLY_APPLIED", !.reasonCode = "PARTIAL_MERGE",
                       !.skippedFields = skipped].order = out.order
    BY <1>3, <1>7 DEF Outcome, Decisions, ReasonCodes
  <2> QED
    BY <2>1, <1>5, <1>6, <1>7, <1>10
<1> QED
  BY <1>8, <1>9, <1>10

\* A status is replaced as asked, or not at all.
LEMMA ApplyStatusStep ==
  ASSUME NEW o \in Order, NEW v \in Versions, NEW e \in Event, NEW c \in Changes,
         c.status \in OrderStatuses
  PROVE  LET out == ApplyStatusWhenCurrent(o, v, e, c)
         IN  out \in Outcome /\ out.order \in {o, Patched(o, c)}
<1>1. /\ Patched(o, c) \in Order
      /\ UpsertFieldVersions(v, {"status"}, e) \in Versions
  BY PatchedType, UpsertType
<1>2. StatusOrNull(o) \in OrderStatuses \cup {NULL}
  BY DEF StatusOrNull, Order
<1>3. CASE CanApplyField(v, "status", e)
  BY <1>1, <1>2, <1>3, AcceptType DEF ApplyStatusWhenCurrent
<1>4. CASE ~CanApplyField(v, "status", e)
  BY <1>4, RefusalType DEF ApplyStatusWhenCurrent
<1> QED
  BY <1>3, <1>4

LEMMA CapturePaymentStep ==
  ASSUME NEW o \in Order, NEW v \in Versions, NEW e \in Event,
         ConsistentRow(o), o.status # "CANCELLED"
  PROVE  LET out == CapturePayment(o, v, e)
         IN  out \in Outcome /\ (Untouched(o, out.order) \/ Captured(o, out.order))
<1> DEFINE amount == ReadPositiveAmountMinor(e.payload.amount)
           c == [NoChanges EXCEPT !.status = "PAID", !.paidAmountMinor = amount]
<1>1. amount \in (Nat \ {0}) \cup {NULL}
  <2>1. e.payload.amount \in Int \cup {NULL}
    BY DEF Event, Payload
  <2> QED
    BY <2>1, AmountTypes
<1>2. CapturePayment(o, v, e) =
        IF Missing(o) THEN RejectOrderNotReady(o, v)
        ELSE IF amount = NULL THEN Reject(o, v, "PAYMENT_AMOUNT_REQUIRED", {})
        ELSE IF o.paidAmountMinor > 0 THEN Reject(o, v, "PAYMENT_ALREADY_CAPTURED", {})
        ELSE ApplyStatusWhenCurrent(o, v, e, c)
  BY DEF CapturePayment
<1> HIDE DEF amount
<1>3. /\ {"PAYMENT_AMOUNT_REQUIRED", "PAYMENT_ALREADY_CAPTURED"} \subseteq ReasonCodes
      /\ {} \in SUBSET VersionedFields
  BY DEF ReasonCodes
<1>4. CASE Missing(o)
  BY <1>2, <1>4, RefusalType DEF Untouched
<1>5. CASE ~Missing(o) /\ amount = NULL
  BY <1>2, <1>3, <1>5, RejectType DEF Untouched
<1>6. CASE ~Missing(o) /\ amount # NULL /\ o.paidAmountMinor > 0
  BY <1>2, <1>3, <1>6, RejectType DEF Untouched
<1>7. CASE ~Missing(o) /\ amount # NULL /\ ~(o.paidAmountMinor > 0)
  <2>1. c \in Changes /\ c.status \in OrderStatuses
    BY <1>1 DEF NoChanges, Changes, OrderStatuses
  <2>2. CapturePayment(o, v, e) = ApplyStatusWhenCurrent(o, v, e, c)
    BY <1>2, <1>7
  <2>3. o.status = "CREATED"
    BY <1>7 DEF ConsistentRow, Order, Missing, NoOrder
  <2>4. Captured(o, Patched(o, c))
    BY <1>1, <1>7, <2>3, NullAssumption
       DEF Captured, Patched, Coalesce, NoChanges, Order, OrderStatuses
  <2>5. Untouched(o, o)
    BY DEF Untouched
  <2> HIDE DEF c
  <2>6. LET out == ApplyStatusWhenCurrent(o, v, e, c)
        IN  out \in Outcome /\ out.order \in {o, Patched(o, c)}
    BY <2>1, ApplyStatusStep
  <2> QED
    BY <2>2, <2>4, <2>5, <2>6
<1> QED
  BY <1>4, <1>5, <1>6, <1>7

LEMMA CancelOrderStep ==
  ASSUME NEW o \in Order, NEW v \in Versions, NEW e \in Event,
         o.status = "CREATED"
  PROVE  LET out == CancelOrder(o, v, e)
         IN  out \in Outcome /\ (Untouched(o, out.order) \/ Cancelled(o, out.order))
<1> DEFINE c == [NoChanges EXCEPT !.status = "CANCELLED"]
<1>1. c \in Changes /\ c.status \in OrderStatuses
  BY DEF NoChanges, Changes, OrderStatuses
<1>2. CancelOrder(o, v, e) = ApplyStatusWhenCurrent(o, v, e, c)
  BY DEF CancelOrder, Missing
<1>3. Cancelled(o, Patched(o, c)) /\ Untouched(o, o)
  BY NullAssumption
     DEF Cancelled, Untouched, Patched, Coalesce, NoChanges, Order, OrderStatuses
<1> HIDE DEF c
<1> QED
  BY <1>1, <1>2, <1>3, ApplyStatusStep

LEMMA IssueRefundStep ==
  ASSUME NEW o \in Order, NEW v \in Versions, NEW e \in Event,
         ConsistentRow(o), o.status \in {"PAID", "PARTIALLY_REFUNDED", "REFUNDED"}
  PROVE  LET out == IssueRefund(o, v, e)
         IN  out \in Outcome /\ (Untouched(o, out.order) \/ Refunded(o, out.order))
<1> DEFINE amount == ReadRefundAmountMinor(e.payload)
           total == o.refundedAmountMinor + amount
           status == IF total = o.paidAmountMinor THEN "REFUNDED"
                                                  ELSE "PARTIALLY_REFUNDED"
           c == [NoChanges EXCEPT !.status = status, !.refundedAmountMinor = total]
           w == UpsertFieldVersions(v, {f \in {"status"} : CanApplyField(v, f, e)}, e)
<1>1. amount \in (Nat \ {0}) \cup {NULL}
  BY RefundAmountType DEF Event
<1>2. IssueRefund(o, v, e) =
        IF amount = NULL THEN Reject(o, v, "REFUND_AMOUNT_REQUIRED", {})
        ELSE IF amount > o.paidAmountMinor - o.refundedAmountMinor
             THEN Reject(o, v, "REFUND_EXCEEDS_CAPTURED", {})
        ELSE ApplyRefund(o, v, e, c)
  BY DEF IssueRefund, Missing
<1> HIDE DEF amount
<1>3. /\ {"REFUND_AMOUNT_REQUIRED", "REFUND_EXCEEDS_CAPTURED"} \subseteq ReasonCodes
      /\ {} \in SUBSET VersionedFields
  BY DEF ReasonCodes
<1>4. CASE amount = NULL
  BY <1>2, <1>3, <1>4, RejectType DEF Untouched
<1>5. CASE amount # NULL /\ amount > o.paidAmountMinor - o.refundedAmountMinor
  BY <1>2, <1>3, <1>5, RejectType DEF Untouched
<1>6. CASE amount # NULL /\ ~(amount > o.paidAmountMinor - o.refundedAmountMinor)
  <2>1. o.paidAmountMinor \in Nat /\ o.refundedAmountMinor \in Nat
    BY DEF Order
  <2>2. /\ total \in Nat /\ o.refundedAmountMinor < total
        /\ total <= o.paidAmountMinor
    BY <1>1, <1>6, <2>1
  <2>3. o.status \in {"PAID", "PARTIALLY_REFUNDED"}
    BY <2>1, <2>2 DEF ConsistentRow, NoOrder
  <2>4. status \in {"REFUNDED", "PARTIALLY_REFUNDED"} /\ status \in OrderStatuses
    BY DEF OrderStatuses
  <2> HIDE DEF total, status
  <2>5. c \in Changes /\ c.status = status /\ c.refundedAmountMinor = total
    BY <2>2, <2>4 DEF NoChanges, Changes
  <2>6. /\ Patched(o, c) \in Order
        /\ Patched(o, c).status = status
        /\ Patched(o, c).refundedAmountMinor = total
        /\ Patched(o, c).paidAmountMinor = o.paidAmountMinor
    <3>1. c.paidAmountMinor = NULL
      BY DEF NoChanges
    <3>2. status # NULL /\ total # NULL
      BY <2>2, <2>4, NullAssumption
    <3> QED
      BY <2>5, <3>1, <3>2, PatchedType DEF Patched, Coalesce
  <2>7. Refunded(o, Patched(o, c))
    BY <2>2, <2>3, <2>6 DEF Refunded, status
  <2>8. w \in Versions /\ StatusOrNull(o) \in OrderStatuses \cup {NULL}
    BY UpsertType DEF StatusOrNull, Order
  <2>9. IssueRefund(o, v, e) = Accept(Patched(o, c), w, StatusOrNull(o), c.status, c)
    BY <1>2, <1>6 DEF ApplyRefund
  <2> HIDE DEF c, w
  <2> DEFINE out == IssueRefund(o, v, e)
  <2>10. out \in Outcome
    <3>1. c.status \in OrderStatuses \cup {NULL} /\ c \in Changes
      BY <2>4, <2>5
    <3> QED
      BY <2>6, <2>8, <2>9, <3>1, AcceptType
  <2>11. out.order = Patched(o, c)
    BY <2>9 DEF Accept
  <2> HIDE DEF out
  <2> QED
    BY <2>7, <2>10, <2>11 DEF out
<1> QED
  BY <1>4, <1>5, <1>6

-----------------------------------------------------------------------------
\* The strategies: which service an event meets.
Dispatched(o, v, e, out) ==
  \/ Missing(o) /\ e.type = "ORDER_CREATED" /\ out = CreateOrder(v, e)
  \/ Missing(o) /\ e.type # "ORDER_CREATED" /\ out = RejectOrderNotReady(o, v)
  \/ ~Missing(o) /\ e.type = "ORDER_CREATED" /\ out = RejectOrderAlreadyExists(o, v)
  \/ ~Missing(o) /\ e.type = "ORDER_UPDATED" /\ out = UpdateOrderFields(o, v, e)
  \/ /\ ~Missing(o) /\ o.status # "CANCELLED" /\ e.type = "PAYMENT_CAPTURED"
     /\ out = CapturePayment(o, v, e)
  \/ o.status = "CREATED" /\ e.type = "ORDER_CANCELLED" /\ out = CancelOrder(o, v, e)
  \/ /\ o.status \in {"PAID", "PARTIALLY_REFUNDED", "REFUNDED"}
     /\ e.type = "REFUND_ISSUED" /\ out = IssueRefund(o, v, e)
  \/ /\ ~Missing(o) /\ e.type \notin {"ORDER_CREATED", "ORDER_UPDATED"}
     /\ out = RejectForbiddenTransition(o, v)

\* The service that each strategy calls.
LEMMA HandleEventDispatches ==
  ASSUME NEW o \in Order, NEW v, NEW e \in Event
  PROVE  Dispatched(o, v, e, HandleEvent(o, v, e))
<1> DEFINE out == HandleEvent(o, v, e)
<1> SUFFICES Dispatched(o, v, e, out)
  OBVIOUS
<1>1. e.type \in SupportedEventTypes /\ o.status \in OrderStatuses
  BY DEF Event, Order
<1>2. CASE Missing(o) /\ e.type = "ORDER_CREATED"
  <2>1. out = CreateOrder(v, e)
    BY <1>2 DEF HandleEvent, CreateOrderEventHandler,
       Missing, NonExistentOrderEventHandler
  <2> HIDE DEF out
  <2> QED
    BY <1>2, <2>1 DEF Dispatched
<1>3. CASE Missing(o) /\ e.type # "ORDER_CREATED"
  <2>1. out = RejectOrderNotReady(o, v)
    BY <1>1, <1>3 DEF HandleEvent, CreateOrderEventHandler,
       Missing, NonExistentOrderEventHandler, SupportedEventTypes
  <2> HIDE DEF out
  <2> QED
    BY <1>3, <2>1 DEF Dispatched
<1>4. CASE ~Missing(o) /\ e.type = "ORDER_CREATED"
  <2>1. out = RejectOrderAlreadyExists(o, v)
    BY <1>1, <1>4 DEF HandleEvent, CreateOrderEventHandler,
       Missing, OrderStatuses, OrderCreatedEventHandler,
       OrderPaidEventHandler, OrderCancelledEventHandler,
       OrderPartiallyRefundedEventHandler, OrderRefundedEventHandler
  <2> HIDE DEF out
  <2> QED
    BY <1>4, <2>1 DEF Dispatched
<1>5. CASE ~Missing(o) /\ e.type = "ORDER_UPDATED"
  <2>1. out = UpdateOrderFields(o, v, e)
    BY <1>1, <1>5 DEF HandleEvent, CreateOrderEventHandler,
       Missing, OrderStatuses, OrderCreatedEventHandler,
       OrderPaidEventHandler, OrderCancelledEventHandler,
       OrderPartiallyRefundedEventHandler, OrderRefundedEventHandler
  <2> HIDE DEF out
  <2> QED
    BY <1>5, <2>1 DEF Dispatched
<1>6. CASE ~Missing(o) /\ e.type = "PAYMENT_CAPTURED" /\ o.status # "CANCELLED"
  <2>1. out = CapturePayment(o, v, e)
    BY <1>1, <1>6 DEF HandleEvent, CreateOrderEventHandler,
       Missing, OrderStatuses, OrderCreatedEventHandler,
       OrderPaidEventHandler, OrderPartiallyRefundedEventHandler,
       OrderRefundedEventHandler
  <2> HIDE DEF out
  <2> QED
    BY <1>6, <2>1 DEF Dispatched
<1>7. CASE o.status = "CREATED" /\ e.type = "ORDER_CANCELLED"
  <2>1. out = CancelOrder(o, v, e)
    BY <1>7 DEF HandleEvent, CreateOrderEventHandler,
       OrderCreatedEventHandler
  <2> HIDE DEF out
  <2> QED
    BY <1>7, <2>1 DEF Dispatched
<1>8. CASE /\ o.status \in {"PAID", "PARTIALLY_REFUNDED", "REFUNDED"}
           /\ e.type = "REFUND_ISSUED"
  <2>1. out = IssueRefund(o, v, e)
    BY <1>8 DEF HandleEvent, CreateOrderEventHandler,
       OrderPaidEventHandler, OrderPartiallyRefundedEventHandler,
       OrderRefundedEventHandler
  <2> HIDE DEF out
  <2> QED
    BY <1>8, <2>1 DEF Dispatched
<1>9. CASE \/ o.status = "CANCELLED" /\ e.type \in {"PAYMENT_CAPTURED",
                                       "ORDER_CANCELLED", "REFUND_ISSUED"}
           \/ o.status = "CREATED" /\ e.type = "REFUND_ISSUED"
           \/ /\ o.status \in {"PAID", "PARTIALLY_REFUNDED", "REFUNDED"}
              /\ e.type = "ORDER_CANCELLED"
  <2>1. out = RejectForbiddenTransition(o, v)
    BY <1>9 DEF HandleEvent, CreateOrderEventHandler,
       OrderCreatedEventHandler, OrderPaidEventHandler,
       OrderCancelledEventHandler, OrderPartiallyRefundedEventHandler,
       OrderRefundedEventHandler
  <2>2. ~Missing(o) /\ e.type \notin {"ORDER_CREATED", "ORDER_UPDATED"}
    BY <1>9 DEF Missing
  <2> HIDE DEF out
  <2> QED
    BY <2>1, <2>2 DEF Dispatched
<1> HIDE DEF out
<1> QED
  BY <1>1, <1>2, <1>3, <1>4, <1>5, <1>6, <1>7, <1>8, <1>9
     DEF SupportedEventTypes, OrderStatuses, Missing

\* The main fact about the rules: whatever the event, its outcome is well
\* formed and moves the order along the ledger or leaves its status and money
\* as they are (processEvent's dispatch and every handler).
THEOREM HandleEventStep ==
  ASSUME NEW o \in Order, NEW v \in Versions, NEW e \in Event, ConsistentRow(o)
  PROVE  LET out == HandleEvent(o, v, e)
         IN  out \in Outcome /\ LedgerStep(o, out.order)
<1> DEFINE out == HandleEvent(o, v, e)
<1> SUFFICES out \in Outcome /\ LedgerStep(o, out.order)
  OBVIOUS
<1>1. Dispatched(o, v, e, out)
  BY HandleEventDispatches
<1> HIDE DEF out
<1>2. CASE Missing(o) /\ out = CreateOrder(v, e)
  <2>1. o = NoOrder
    BY <1>2 DEF Missing, ConsistentRow
  <2> QED
    BY <1>2, <2>1, CreateOrderStep DEF LedgerStep
<1>3. CASE \/ out = RejectOrderNotReady(o, v) \/ out = RejectOrderAlreadyExists(o, v)
           \/ out = RejectForbiddenTransition(o, v)
  <2>1. Untouched(o, o)
    BY DEF Untouched
  <2> QED
    BY <1>3, <2>1, RefusalType DEF LedgerStep
<1>4. CASE ~Missing(o) /\ out = UpdateOrderFields(o, v, e)
  BY <1>4, UpdateOrderFieldsStep DEF LedgerStep
<1>5. CASE /\ ~Missing(o) /\ o.status # "CANCELLED"
           /\ out = CapturePayment(o, v, e)
  BY <1>5, CapturePaymentStep DEF LedgerStep
<1>6. CASE o.status = "CREATED" /\ out = CancelOrder(o, v, e)
  BY <1>6, CancelOrderStep DEF LedgerStep
<1>7. CASE /\ o.status \in {"PAID", "PARTIALLY_REFUNDED", "REFUNDED"}
           /\ out = IssueRefund(o, v, e)
  BY <1>7, IssueRefundStep DEF LedgerStep
<1> QED
  BY <1>1, <1>2, <1>3, <1>4, <1>5, <1>6, <1>7 DEF Dispatched

\* A step along the ledger keeps status and money in agreement.
LEMMA LedgerStepConsistent ==
  ASSUME NEW o \in Order, NEW r \in Order, ConsistentRow(o), LedgerStep(o, r)
  PROVE  ConsistentRow(r)
<1>1. CASE Untouched(o, r)
  BY <1>1 DEF Untouched, ConsistentRow, Missing, NoOrder, Order
<1>2. CASE Opened(o, r)
  BY <1>2 DEF Opened, ConsistentRow, Missing, NoOrder, Order
<1>3. CASE Captured(o, r)
  BY <1>3 DEF Captured, ConsistentRow, NoOrder, Order
<1>4. CASE Cancelled(o, r)
  BY <1>4 DEF Cancelled, ConsistentRow, NoOrder, Order
<1>5. CASE Refunded(o, r)
  BY <1>5 DEF Refunded, ConsistentRow, NoOrder, Order
<1> QED
  BY <1>1, <1>2, <1>3, <1>4, <1>5 DEF LedgerStep

-----------------------------------------------------------------------------
\* What an outcome records about the event, the order and its versions.

\* The event is refused: order and versions stay as they are.
Refused(o, v, out) ==
  /\ out.decision = "REJECTED"
  /\ out.reasonCode \in ReasonCodes \ {"INVALID_SCHEMA", "UNKNOWN_EVENT_TYPE"}
  /\ out.order = o /\ out.versions = v /\ out.changedFields = NoChanges
  /\ out.fromStatus = StatusOrNull(o) /\ out.toStatus = StatusOrNull(o)

\* The event sets field f: nothing newer or equally new did before.
Sets(o, v, e, out, f) ==
  out.changedFields[f] # NULL /\ (Missing(o) \/ CanApplyField(v, f, e))

\* The event takes effect: the order differs by the recorded changes, each field
\* that is set gets the version of the event, and only the status may change
\* without being set, by a late refund.
TakesEffect(o, v, e, out) ==
  /\ out.decision \in {"ACCEPTED", "PARTIALLY_APPLIED"}
  /\ out.reasonCode \in {"APPLIED", "PARTIAL_MERGE"}
  /\ out.order = Patched(o, out.changedFields) /\ ~Missing(out.order)
  /\ out.fromStatus = StatusOrNull(o) /\ out.toStatus = StatusOrNull(out.order)
  /\ \A f \in VersionedFields :
       /\ out.versions[f] = IF Sets(o, v, e, out, f)
                            THEN [timestamp |-> e.timestamp, eventId |-> e.eventId]
                            ELSE v[f]
       /\ out.changedFields[f] # NULL => f = "status" \/ Sets(o, v, e, out, f)

LEMMA RejectRefuses ==
  ASSUME NEW o, NEW v, NEW skipped,
         NEW reason \in ReasonCodes \ {"INVALID_SCHEMA", "UNKNOWN_EVENT_TYPE"}
  PROVE  Refused(o, v, Reject(o, v, reason, skipped))
  BY DEF Refused, Reject

\* The rejections leave the row and its versions alone.
LEMMA RefusalRefuses ==
  ASSUME NEW o, NEW v,
         NEW out \in {RejectOrderNotReady(o, v), RejectOrderAlreadyExists(o, v),
                      RejectForbiddenTransition(o, v), RejectObsoleteStatus(o, v)}
  PROVE  Refused(o, v, out)
<1>1. {"ORDER_NOT_READY", "ORDER_ALREADY_EXISTS", "FORBIDDEN_TRANSITION", "OBSOLETE_EVENT"}
        \subseteq ReasonCodes \ {"INVALID_SCHEMA", "UNKNOWN_EVENT_TYPE"}
  BY DEF ReasonCodes
<1> QED
  BY <1>1, RejectRefuses DEF RejectOrderNotReady, RejectOrderAlreadyExists,
     RejectForbiddenTransition, RejectObsoleteStatus

\* What each service records of a row it changes is the change.
LEMMA CreateOrderRecords ==
  ASSUME NEW v \in Versions, NEW e \in Event
  PROVE  TakesEffect(NoOrder, v, e, CreateOrder(v, e))
<1> DEFINE c == [ReadOrderUpdateChanges(e.payload) EXCEPT !.status = "CREATED"]
           row == [NoOrder EXCEPT !.status = "CREATED",
                                  !.amountMinor = c.amountMinor,
                                  !.currency = c.currency]
           written == {f \in VersionedFields : c[f] # NULL}
           w == UpsertFieldVersions(v, written, e)
<1>1. e.payload \in Payload
  BY DEF Event
<1>2. /\ c \in Changes /\ c.status = "CREATED"
      /\ c.paidAmountMinor = NULL /\ c.refundedAmountMinor = NULL
  BY <1>1, ReadChangesType DEF Changes, OrderStatuses
<1>3. row = Patched(NoOrder, c) /\ ~Missing(row) /\ row.status = "CREATED"
  <2> HIDE DEF c
  <2>1. /\ row \in Order /\ row.status = "CREATED"
        /\ row.amountMinor = c.amountMinor /\ row.currency = c.currency
        /\ row.paidAmountMinor = 0 /\ row.refundedAmountMinor = 0
    BY <1>2 DEF NoOrder, Order, Changes, OrderStatuses
  <2>2. "CREATED" # NULL
    BY NullAssumption DEF OrderStatuses
  <2> HIDE DEF row
  <2>3. row = [status |-> "CREATED", amountMinor |-> c.amountMinor,
               currency |-> c.currency, paidAmountMinor |-> 0, refundedAmountMinor |-> 0]
    BY <2>1 DEF Order
  <2>4. /\ Coalesce(c.status, NoOrder.status) = "CREATED"
        /\ Coalesce(c.amountMinor, NoOrder.amountMinor) = c.amountMinor
        /\ Coalesce(c.currency, NoOrder.currency) = c.currency
        /\ Coalesce(c.paidAmountMinor, NoOrder.paidAmountMinor) = 0
        /\ Coalesce(c.refundedAmountMinor, NoOrder.refundedAmountMinor) = 0
    BY <1>2, <2>2 DEF Coalesce, NoOrder
  <2> QED
    BY <2>1, <2>3, <2>4 DEF Patched, Missing
<1>4. \A f \in VersionedFields :
        w[f] = IF c[f] # NULL THEN [timestamp |-> e.timestamp, eventId |-> e.eventId]
                              ELSE v[f]
  BY DEF UpsertFieldVersions
<1>5. CreateOrder(v, e) = Accept(row, w, NULL, "CREATED", c)
  BY DEF CreateOrder
<1> HIDE DEF c, row, w
<1>6. Missing(NoOrder) /\ StatusOrNull(NoOrder) = NULL /\ StatusOrNull(row) = "CREATED"
  BY <1>3 DEF Missing, StatusOrNull, NoOrder
<1> QED
  BY <1>3, <1>4, <1>5, <1>6 DEF TakesEffect, Sets, Accept

LEMMA UpdateOrderFieldsRecords ==
  ASSUME NEW o \in Order, NEW v \in Versions, NEW e \in Event, ~Missing(o)
  PROVE  LET out == UpdateOrderFields(o, v, e)
         IN  Refused(o, v, out) \/ TakesEffect(o, v, e, out)
<1> DEFINE read == ReadOrderUpdateChanges(e.payload)
           fresh == {f \in VersionedFields : read[f] # NULL /\ CanApplyField(v, f, e)}
           skipped == {f \in VersionedFields : read[f] # NULL /\ f \notin fresh}
                        \cup {f \in {"status"} : e.payload.hasStatus}
           c == [NoChanges EXCEPT
                   !.amountMinor = IF "amountMinor" \in fresh THEN read.amountMinor ELSE NULL,
                   !.currency = IF "currency" \in fresh THEN read.currency ELSE NULL]
           w == UpsertFieldVersions(v, fresh, e)
           out == Accept(Patched(o, c), w, o.status, o.status, c)
<1>1. e.payload \in Payload
  BY DEF Event
<1>2. read \in Changes /\ read.status = NULL
  BY <1>1, ReadChangesType
<1>3. /\ c.status = NULL
      /\ \A f \in VersionedFields : c[f] # NULL <=> f \in fresh
  BY <1>2 DEF NoChanges, VersionedFields, Changes
<1>4. \A f \in VersionedFields :
        w[f] = IF f \in fresh THEN [timestamp |-> e.timestamp, eventId |-> e.eventId]
                              ELSE v[f]
  BY DEF UpsertFieldVersions
<1>5. \A f \in fresh : CanApplyField(v, f, e)
  OBVIOUS
<1>6. UpdateOrderFields(o, v, e) =
        IF fresh = {} THEN Reject(o, v, "NO_APPLICABLE_CHANGES", skipped)
        ELSE IF skipped = {} THEN out
        ELSE [out EXCEPT !.decision = "PARTIALLY_APPLIED",
                         !.reasonCode = "PARTIAL_MERGE",
                         !.skippedFields = skipped]
  BY DEF UpdateOrderFields
<1> HIDE DEF read, fresh, skipped, c, w
<1>7. Patched(o, c).status = o.status
  BY <1>3 DEF Patched, Coalesce
<1>8. CASE fresh = {}
  <2>1. "NO_APPLICABLE_CHANGES" \in ReasonCodes \ {"INVALID_SCHEMA", "UNKNOWN_EVENT_TYPE"}
    BY DEF ReasonCodes
  <2> QED
    BY <2>1, <1>6, <1>8, RejectRefuses
<1>9. ASSUME NEW a, a.order = out.order, a.versions = w, a.changedFields = c,
             a.fromStatus = o.status, a.toStatus = o.status,
             a.decision \in {"ACCEPTED", "PARTIALLY_APPLIED"},
             a.reasonCode \in {"APPLIED", "PARTIAL_MERGE"}
      PROVE  TakesEffect(o, v, e, a)
  <2>1. /\ a.order = Patched(o, c) /\ ~Missing(a.order)
        /\ StatusOrNull(o) = o.status /\ StatusOrNull(a.order) = o.status
    BY <1>7, <1>9 DEF Accept, Missing, StatusOrNull
  <2>2. \A f \in VersionedFields : Sets(o, v, e, a, f) <=> f \in fresh
    BY <1>3, <1>5, <1>9 DEF Sets
  <2> QED
    BY <1>3, <1>4, <1>9, <2>1, <2>2 DEF TakesEffect
<1>10. CASE fresh # {}
  <2>1. CASE skipped = {}
    BY <1>6, <1>9, <1>10, <2>1 DEF Accept
  <2>2. CASE skipped # {}
    BY <1>6, <1>9, <1>10, <2>2 DEF Accept
  <2> QED
    BY <2>1, <2>2
<1> QED
  BY <1>8, <1>10

\* Changes of the status alone among the versioned fields.
StatusChange(c) == /\ c.status \in OrderStatuses \ {"DOES_NOT_EXIST"}
                   /\ c.amountMinor = NULL /\ c.currency = NULL

LEMMA ApplyStatusRecords ==
  ASSUME NEW o \in Order, NEW v \in Versions, NEW e \in Event, NEW c, StatusChange(c),
         ~Missing(o)
  PROVE  LET out == ApplyStatusWhenCurrent(o, v, e, c)
         IN  Refused(o, v, out) \/ TakesEffect(o, v, e, out)
<1> DEFINE w == UpsertFieldVersions(v, {"status"}, e)
<1>1. /\ c.status # NULL
      /\ \A f \in VersionedFields : c[f] # NULL <=> f = "status"
  BY NullAssumption DEF StatusChange, VersionedFields
<1>2. \A f \in VersionedFields :
        w[f] = IF f = "status" THEN [timestamp |-> e.timestamp, eventId |-> e.eventId]
                               ELSE v[f]
  BY DEF UpsertFieldVersions
<1>3. Patched(o, c).status = c.status /\ ~Missing(Patched(o, c))
  BY <1>1 DEF Patched, Coalesce, StatusChange, Missing
<1> HIDE DEF w
<1>4. CASE CanApplyField(v, "status", e)
  <2> DEFINE out == Accept(Patched(o, c), w, StatusOrNull(o), c.status, c)
  <2>1. ApplyStatusWhenCurrent(o, v, e, c) = out
    BY <1>4 DEF ApplyStatusWhenCurrent, w
  <2>2. /\ out.decision = "ACCEPTED" /\ out.reasonCode = "APPLIED"
        /\ out.order = Patched(o, c) /\ out.versions = w /\ out.changedFields = c
        /\ out.fromStatus = StatusOrNull(o) /\ out.toStatus = c.status
    BY DEF Accept
  <2> HIDE DEF out
  <2>3. \A f \in VersionedFields : Sets(o, v, e, out, f) <=> f = "status"
    BY <1>1, <1>4, <2>2 DEF Sets
  <2>4. StatusOrNull(out.order) = out.toStatus
    BY <1>3, <2>2 DEF StatusOrNull
  <2> QED
    BY <1>1, <1>2, <1>3, <2>1, <2>2, <2>3, <2>4 DEF TakesEffect
<1>5. CASE ~CanApplyField(v, "status", e)
  BY <1>5, RefusalRefuses DEF ApplyStatusWhenCurrent
<1> QED
  BY <1>4, <1>5

LEMMA ApplyRefundRecords ==
  ASSUME NEW o \in Order, NEW v \in Versions, NEW e \in Event, NEW c, StatusChange(c),
         ~Missing(o)
  PROVE  TakesEffect(o, v, e, ApplyRefund(o, v, e, c))
<1> DEFINE fields == {f \in {"status"} : CanApplyField(v, f, e)}
           w == UpsertFieldVersions(v, fields, e)
           out == Accept(Patched(o, c), w, StatusOrNull(o), c.status, c)
<1>1. /\ c.status # NULL
      /\ \A f \in VersionedFields : c[f] # NULL <=> f = "status"
  BY NullAssumption DEF StatusChange, VersionedFields
<1>2. \A f \in VersionedFields :
        w[f] = IF f \in fields THEN [timestamp |-> e.timestamp, eventId |-> e.eventId]
                               ELSE v[f]
  BY DEF UpsertFieldVersions
<1>3. Patched(o, c).status = c.status /\ ~Missing(Patched(o, c))
  BY <1>1 DEF Patched, Coalesce, StatusChange, Missing
<1>4. ApplyRefund(o, v, e, c) = out
  BY DEF ApplyRefund
<1>5. /\ out.decision = "ACCEPTED" /\ out.reasonCode = "APPLIED"
      /\ out.order = Patched(o, c) /\ out.versions = w /\ out.changedFields = c
      /\ out.fromStatus = StatusOrNull(o) /\ out.toStatus = c.status
  BY DEF Accept
<1> HIDE DEF w, out
<1>6. \A f \in VersionedFields : Sets(o, v, e, out, f) <=> f \in fields
  BY <1>1, <1>5 DEF Sets
<1>7. StatusOrNull(out.order) = out.toStatus
  BY <1>3, <1>5 DEF StatusOrNull
<1> HIDE DEF fields
<1> QED
  BY <1>1, <1>2, <1>3, <1>4, <1>5, <1>6, <1>7 DEF TakesEffect

LEMMA CapturePaymentRecords ==
  ASSUME NEW o \in Order, NEW v \in Versions, NEW e \in Event, ~Missing(o)
  PROVE  LET out == CapturePayment(o, v, e)
         IN  Refused(o, v, out) \/ TakesEffect(o, v, e, out)
<1> DEFINE amount == ReadPositiveAmountMinor(e.payload.amount)
           c == [NoChanges EXCEPT !.status = "PAID", !.paidAmountMinor = amount]
<1>1. CapturePayment(o, v, e) =
        IF amount = NULL THEN Reject(o, v, "PAYMENT_AMOUNT_REQUIRED", {})
        ELSE IF o.paidAmountMinor > 0 THEN Reject(o, v, "PAYMENT_ALREADY_CAPTURED", {})
        ELSE ApplyStatusWhenCurrent(o, v, e, c)
  BY DEF CapturePayment
<1> HIDE DEF amount
<1>2. StatusChange(c)
  BY DEF StatusChange, NoChanges, OrderStatuses
<1>3. {"PAYMENT_AMOUNT_REQUIRED", "PAYMENT_ALREADY_CAPTURED"}
        \subseteq ReasonCodes \ {"INVALID_SCHEMA", "UNKNOWN_EVENT_TYPE"}
  BY DEF ReasonCodes
<1> HIDE DEF c
<1> QED
  BY <1>1, <1>2, <1>3, RejectRefuses, ApplyStatusRecords

LEMMA CancelOrderRecords ==
  ASSUME NEW o \in Order, NEW v \in Versions, NEW e \in Event, ~Missing(o)
  PROVE  LET out == CancelOrder(o, v, e)
         IN  Refused(o, v, out) \/ TakesEffect(o, v, e, out)
<1> DEFINE c == [NoChanges EXCEPT !.status = "CANCELLED"]
<1>1. CancelOrder(o, v, e) = ApplyStatusWhenCurrent(o, v, e, c)
  BY DEF CancelOrder
<1>2. StatusChange(c)
  BY DEF StatusChange, NoChanges, OrderStatuses
<1> HIDE DEF c
<1> QED
  BY <1>1, <1>2, ApplyStatusRecords

LEMMA IssueRefundRecords ==
  ASSUME NEW o \in Order, NEW v \in Versions, NEW e \in Event, ~Missing(o)
  PROVE  LET out == IssueRefund(o, v, e)
         IN  Refused(o, v, out) \/ TakesEffect(o, v, e, out)
<1> DEFINE amount == ReadRefundAmountMinor(e.payload)
           total == o.refundedAmountMinor + amount
           status == IF total = o.paidAmountMinor THEN "REFUNDED"
                                                  ELSE "PARTIALLY_REFUNDED"
           c == [NoChanges EXCEPT !.status = status, !.refundedAmountMinor = total]
<1>1. IssueRefund(o, v, e) =
        IF amount = NULL THEN Reject(o, v, "REFUND_AMOUNT_REQUIRED", {})
        ELSE IF amount > o.paidAmountMinor - o.refundedAmountMinor
             THEN Reject(o, v, "REFUND_EXCEEDS_CAPTURED", {})
        ELSE ApplyRefund(o, v, e, c)
  BY DEF IssueRefund
<1> HIDE DEF amount, total
<1>2. StatusChange(c)
  BY DEF StatusChange, NoChanges, OrderStatuses
<1>3. {"REFUND_AMOUNT_REQUIRED", "REFUND_EXCEEDS_CAPTURED"}
        \subseteq ReasonCodes \ {"INVALID_SCHEMA", "UNKNOWN_EVENT_TYPE"}
  BY DEF ReasonCodes
<1> HIDE DEF c
<1> QED
  BY <1>1, <1>2, <1>3, RejectRefuses, ApplyRefundRecords

\* Every outcome of an event either leaves order and versions alone and is
\* recorded as a rejection, or is exactly the change it records.
THEOREM HandleEventRecords ==
  ASSUME NEW o \in Order, NEW v \in Versions, NEW e \in Event, ConsistentRow(o)
  PROVE  LET out == HandleEvent(o, v, e)
         IN  Refused(o, v, out) \/ TakesEffect(o, v, e, out)
<1> DEFINE out == HandleEvent(o, v, e)
<1> SUFFICES Refused(o, v, out) \/ TakesEffect(o, v, e, out)
  OBVIOUS
<1>1. Dispatched(o, v, e, out)
  BY HandleEventDispatches
<1> HIDE DEF out
<1>2. CASE Missing(o) /\ out = CreateOrder(v, e)
  <2>1. o = NoOrder
    BY <1>2 DEF Missing, ConsistentRow
  <2> QED
    BY <1>2, <2>1, CreateOrderRecords
<1>3. CASE \/ out = RejectOrderNotReady(o, v) \/ out = RejectOrderAlreadyExists(o, v)
           \/ out = RejectForbiddenTransition(o, v)
  BY <1>3, RefusalRefuses
<1>4. CASE ~Missing(o) /\ out \in {UpdateOrderFields(o, v, e), CapturePayment(o, v, e),
                                  CancelOrder(o, v, e), IssueRefund(o, v, e)}
  BY <1>4, UpdateOrderFieldsRecords, CapturePaymentRecords, CancelOrderRecords,
     IssueRefundRecords
<1> QED
  BY <1>1, <1>2, <1>3, <1>4 DEF Dispatched, Missing

-----------------------------------------------------------------------------
\* What an event does to the amount and the currency of its order.

\* The event speaks about set-like field f of an order that exists, or comes to
\* exist, once out is decided.
Speaks(e, out, f) ==
  /\ e.type \in {"ORDER_CREATED", "ORDER_UPDATED"}
  /\ out.reasonCode \notin {"ORDER_NOT_READY", "ORDER_ALREADY_EXISTS"}
  /\ ReadOrderUpdateChanges(e.payload)[f] # NULL

\* The change of a set-like field that is recorded is what the event says, if the
\* event is the newest to set it.
Merges(o, v, e, out, f) ==
  out.changedFields[f] = IF Speaks(e, out, f) /\ (Missing(o) \/ CanApplyField(v, f, e))
                         THEN ReadOrderUpdateChanges(e.payload)[f] ELSE NULL

SetLike == {"amountMinor", "currency"}

\* How the two services that set fields merge them.
LEMMA CreateOrderMerges ==
  ASSUME NEW o, NEW v \in Versions, NEW e \in Event, NEW f \in SetLike,
         Missing(o), e.type = "ORDER_CREATED"
  PROVE  Merges(o, v, e, CreateOrder(v, e), f)
<1> DEFINE read == ReadOrderUpdateChanges(e.payload)
           out == CreateOrder(v, e)
<1>1. e.payload \in Payload
  BY DEF Event
<1>2. read \in Changes
  BY <1>1, ReadChangesType
<1>3. /\ out.changedFields = [read EXCEPT !.status = "CREATED"]
      /\ out.reasonCode = "APPLIED"
  BY DEF CreateOrder, Accept
<1> HIDE DEF read, out
<1>4. out.changedFields[f] = read[f]
  BY <1>2, <1>3 DEF Changes, SetLike
<1> QED
  BY <1>3, <1>4 DEF Merges, Speaks, read, out

LEMMA UpdateOrderFieldsMerges ==
  ASSUME NEW o, NEW v \in Versions, NEW e \in Event, NEW f \in SetLike,
         ~Missing(o), e.type = "ORDER_UPDATED"
  PROVE  Merges(o, v, e, UpdateOrderFields(o, v, e), f)
<1> DEFINE read == ReadOrderUpdateChanges(e.payload)
           fresh == {g \in VersionedFields : read[g] # NULL /\ CanApplyField(v, g, e)}
           skipped == {g \in VersionedFields : read[g] # NULL /\ g \notin fresh}
                        \cup {g \in {"status"} : e.payload.hasStatus}
           c == [NoChanges EXCEPT
                   !.amountMinor = IF "amountMinor" \in fresh THEN read.amountMinor ELSE NULL,
                   !.currency = IF "currency" \in fresh THEN read.currency ELSE NULL]
           accepted == Accept(Patched(o, c), UpsertFieldVersions(v, fresh, e),
                              o.status, o.status, c)
           out == UpdateOrderFields(o, v, e)
<1>1. out = IF fresh = {} THEN Reject(o, v, "NO_APPLICABLE_CHANGES", skipped)
            ELSE IF skipped = {} THEN accepted
            ELSE [accepted EXCEPT !.decision = "PARTIALLY_APPLIED",
                                  !.reasonCode = "PARTIAL_MERGE",
                                  !.skippedFields = skipped]
  BY DEF UpdateOrderFields
<1>2. f \in fresh <=> read[f] # NULL /\ CanApplyField(v, f, e)
  BY DEF SetLike, VersionedFields
<1>3. c[f] = IF f \in fresh THEN read[f] ELSE NULL
  BY DEF SetLike, NoChanges
<1>4. NoChanges[f] = NULL
  BY DEF SetLike, NoChanges
<1> HIDE DEF fresh, skipped, c, read
<1>5. /\ out.changedFields = IF fresh = {} THEN NoChanges ELSE c
      /\ out.reasonCode \in {"NO_APPLICABLE_CHANGES", "APPLIED", "PARTIAL_MERGE"}
  <2>1. CASE fresh = {}
    BY <1>1, <2>1 DEF Reject
  <2>2. CASE fresh # {} /\ skipped = {}
    BY <1>1, <2>2 DEF Accept
  <2>3. CASE fresh # {} /\ skipped # {}
    BY <1>1, <2>3 DEF Accept
  <2> QED
    BY <2>1, <2>2, <2>3
<1> HIDE DEF out, accepted
<1>6. Speaks(e, out, f) <=> read[f] # NULL
  BY <1>5 DEF Speaks, read
<1>7. out.changedFields[f] = IF f \in fresh THEN read[f] ELSE NULL
  BY <1>3, <1>4, <1>5
<1> QED
  BY <1>2, <1>6, <1>7 DEF Merges, read, out

\* No other service touches a set-like field.
LEMMA ServicesKeepFields ==
  ASSUME NEW o, NEW v, NEW e, NEW f \in SetLike,
         NEW out \in {CapturePayment(o, v, e), CancelOrder(o, v, e), IssueRefund(o, v, e)}
  PROVE  out.changedFields[f] = NULL
<1>1. NoChanges[f] = NULL
  BY DEF SetLike, NoChanges
<1>2. ASSUME NEW reason, NEW skipped
      PROVE  Reject(o, v, reason, skipped).changedFields[f] = NULL
  BY <1>1 DEF Reject
<1>3. ASSUME NEW c, c[f] = NULL
      PROVE  ApplyStatusWhenCurrent(o, v, e, c).changedFields[f] = NULL
  BY <1>1, <1>3 DEF ApplyStatusWhenCurrent, RejectObsoleteStatus, Reject, Accept
<1>4. ASSUME NEW c, c[f] = NULL
      PROVE  ApplyRefund(o, v, e, c).changedFields[f] = NULL
  BY <1>4 DEF ApplyRefund, Accept
<1>5. CASE out = CapturePayment(o, v, e)
  <2> DEFINE amount == ReadPositiveAmountMinor(e.payload.amount)
             c == [NoChanges EXCEPT !.status = "PAID", !.paidAmountMinor = amount]
  <2>1. \/ \E reason : out = Reject(o, v, reason, {})
        \/ out = ApplyStatusWhenCurrent(o, v, e, c)
    BY <1>5 DEF CapturePayment, RejectOrderNotReady
  <2> HIDE DEF amount
  <2>2. c.amountMinor = NULL /\ c.currency = NULL
    BY DEF NoChanges
  <2> HIDE DEF c
  <2> QED
    BY <1>2, <1>3, <2>1, <2>2 DEF SetLike
<1>6. CASE out = CancelOrder(o, v, e)
  <2> DEFINE c == [NoChanges EXCEPT !.status = "CANCELLED"]
  <2>1. c.amountMinor = NULL /\ c.currency = NULL
    BY DEF NoChanges
  <2>2. \/ \E reason : out = Reject(o, v, reason, {})
        \/ out = ApplyStatusWhenCurrent(o, v, e, c)
    BY <1>6 DEF CancelOrder, RejectOrderNotReady
  <2> HIDE DEF c
  <2> QED
    BY <1>2, <1>3, <2>1, <2>2 DEF SetLike
<1>7. CASE out = IssueRefund(o, v, e)
  <2> DEFINE amount == ReadRefundAmountMinor(e.payload)
             refunded == o.refundedAmountMinor + amount
             status == IF refunded = o.paidAmountMinor THEN "REFUNDED"
                                                       ELSE "PARTIALLY_REFUNDED"
             c == [NoChanges EXCEPT !.status = status, !.refundedAmountMinor = refunded]
  <2>1. \/ \E reason : out = Reject(o, v, reason, {})
        \/ out = ApplyRefund(o, v, e, c)
    BY <1>7 DEF IssueRefund, RejectOrderNotReady
  <2> HIDE DEF status, refunded
  <2>2. c.amountMinor = NULL /\ c.currency = NULL
    BY DEF NoChanges
  <2> HIDE DEF c
  <2> QED
    BY <1>2, <1>4, <2>1, <2>2 DEF SetLike
<1> QED
  BY <1>5, <1>6, <1>7

\* The amount and the currency of an order change exactly when an event that
\* names them is newer than the one that set them, whichever handler it meets and
\* whatever else the event carries.
THEOREM HandleEventMerges ==
  ASSUME NEW o \in Order, NEW v \in Versions, NEW e \in Event, NEW f \in SetLike
  PROVE  Merges(o, v, e, HandleEvent(o, v, e), f)
<1> DEFINE out == HandleEvent(o, v, e)
<1> SUFFICES Merges(o, v, e, out, f)
  OBVIOUS
<1>1. Dispatched(o, v, e, out)
  BY HandleEventDispatches
<1> HIDE DEF out
<1>2. NoChanges[f] = NULL
  BY DEF SetLike, NoChanges
<1>3. CASE Missing(o) /\ e.type = "ORDER_CREATED" /\ out = CreateOrder(v, e)
  BY <1>3, CreateOrderMerges
<1>4. CASE out = RejectOrderNotReady(o, v) \/ out = RejectOrderAlreadyExists(o, v)
  BY <1>2, <1>4 DEF Merges, Speaks, RejectOrderNotReady, RejectOrderAlreadyExists, Reject
<1>5. CASE ~Missing(o) /\ e.type = "ORDER_UPDATED" /\ out = UpdateOrderFields(o, v, e)
  BY <1>5, UpdateOrderFieldsMerges
<1>6. CASE /\ e.type \notin {"ORDER_CREATED", "ORDER_UPDATED"}
           /\ out \in {CapturePayment(o, v, e), CancelOrder(o, v, e), IssueRefund(o, v, e)}
  BY <1>6, ServicesKeepFields DEF Merges, Speaks
<1>7. CASE /\ e.type \notin {"ORDER_CREATED", "ORDER_UPDATED"}
           /\ out = RejectForbiddenTransition(o, v)
  BY <1>2, <1>7 DEF Merges, Speaks, RejectForbiddenTransition, Reject
<1> QED
  BY <1>1, <1>3, <1>4, <1>5, <1>6, <1>7 DEF Dispatched

-----------------------------------------------------------------------------
\* What an event does to the money of its order.

Takes(out) == out.decision \in {"ACCEPTED", "PARTIALLY_APPLIED"}

CapturedAmount(e, out) ==
  IF Takes(out) /\ e.type = "PAYMENT_CAPTURED" THEN ReadAmountMinor(e.payload.amount) ELSE 0

RefundedAmount(e, out) ==
  IF Takes(out) /\ e.type = "REFUND_ISSUED" THEN ReadRefundAmountMinor(e.payload) ELSE 0

\* The paid and the refunded amount grow by what the event says, if it takes effect
\* and is a capture or a refund.
MovesMoney(o, e, out) ==
  /\ CapturedAmount(e, out) \in Nat /\ RefundedAmount(e, out) \in Nat
  /\ out.order.paidAmountMinor = o.paidAmountMinor + CapturedAmount(e, out)
  /\ out.order.refundedAmountMinor = o.refundedAmountMinor + RefundedAmount(e, out)

\* What neither captures nor refunds moves no money.
LEMMA NoMoneyMoves ==
  ASSUME NEW o \in Order, NEW e, NEW out,
         out.order.paidAmountMinor = o.paidAmountMinor,
         out.order.refundedAmountMinor = o.refundedAmountMinor,
         ~Takes(out) \/ e.type \notin {"PAYMENT_CAPTURED", "REFUND_ISSUED"}
  PROVE  MovesMoney(o, e, out)
<1>1. o.paidAmountMinor \in Nat /\ o.refundedAmountMinor \in Nat
  BY DEF Order
<1>2. CapturedAmount(e, out) = 0 /\ RefundedAmount(e, out) = 0
  BY DEF CapturedAmount, RefundedAmount
<1> QED
  BY <1>1, <1>2 DEF MovesMoney

LEMMA RejectMovesNoMoney ==
  ASSUME NEW o \in Order, NEW v, NEW e, NEW reason, NEW skipped
  PROVE  MovesMoney(o, e, Reject(o, v, reason, skipped))
  BY NoMoneyMoves DEF Reject, Takes

\* A capture that takes effect pays its amount, a refund gives its amount back.
LEMMA CaptureMovesMoney ==
  ASSUME NEW o \in Order, NEW v \in Versions, NEW e \in Event, ~Missing(o),
         e.type = "PAYMENT_CAPTURED"
  PROVE  MovesMoney(o, e, CapturePayment(o, v, e))
<1> DEFINE amount == ReadPositiveAmountMinor(e.payload.amount)
           c == [NoChanges EXCEPT !.status = "PAID", !.paidAmountMinor = amount]
           out == CapturePayment(o, v, e)
<1>1. out = IF amount = NULL THEN Reject(o, v, "PAYMENT_AMOUNT_REQUIRED", {})
            ELSE IF o.paidAmountMinor > 0 THEN Reject(o, v, "PAYMENT_ALREADY_CAPTURED", {})
            ELSE IF CanApplyField(v, "status", e)
            THEN Accept(Patched(o, c), UpsertFieldVersions(v, {"status"}, e),
                        StatusOrNull(o), c.status, c)
            ELSE Reject(o, v, "OBSOLETE_EVENT", {"status"})
  BY DEF CapturePayment, ApplyStatusWhenCurrent, RejectObsoleteStatus
<1>2. e.payload.amount \in Int \cup {NULL}
  BY DEF Event, Payload
<1>3. /\ amount \in (Nat \ {0}) \cup {NULL}
      /\ amount # NULL => amount = ReadAmountMinor(e.payload.amount)
  BY <1>2, AmountTypes DEF ReadPositiveAmountMinor
<1>4. c.paidAmountMinor = amount /\ c.refundedAmountMinor = NULL
  BY DEF NoChanges
<1>5. o.paidAmountMinor \in Nat /\ o.refundedAmountMinor \in Nat
  BY DEF Order
<1>6. CASE /\ amount # NULL /\ ~(o.paidAmountMinor > 0) /\ CanApplyField(v, "status", e)
  <2>1. out.order = Patched(o, c) /\ Takes(out)
    BY <1>1, <1>6 DEF Accept, Takes
  <2> HIDE DEF amount, c, out
  <2>2. /\ out.order.paidAmountMinor = amount
        /\ out.order.refundedAmountMinor = o.refundedAmountMinor
    BY <1>4, <1>6, <2>1 DEF Patched, Coalesce
  <2>3. CapturedAmount(e, out) = amount /\ RefundedAmount(e, out) = 0
    BY <1>3, <1>6, <2>1 DEF CapturedAmount, RefundedAmount
  <2>4. amount \in Nat /\ o.paidAmountMinor = 0
    BY <1>3, <1>5, <1>6
  <2>5. MovesMoney(o, e, out)
    BY <1>5, <2>2, <2>3, <2>4 DEF MovesMoney
  <2> QED
    BY <2>5 DEF out
<1>7. CASE ~(amount # NULL /\ ~(o.paidAmountMinor > 0) /\ CanApplyField(v, "status", e))
  <2>1. \E reason, skipped : out = Reject(o, v, reason, skipped)
    BY <1>1, <1>7
  <2> HIDE DEF out
  <2>2. MovesMoney(o, e, out)
    BY <2>1, RejectMovesNoMoney
  <2> QED
    BY <2>2 DEF out
<1> QED
  BY <1>6, <1>7

LEMMA RefundMovesMoney ==
  ASSUME NEW o \in Order, NEW v \in Versions, NEW e \in Event, ~Missing(o),
         e.type = "REFUND_ISSUED"
  PROVE  MovesMoney(o, e, IssueRefund(o, v, e))
<1> DEFINE amount == ReadRefundAmountMinor(e.payload)
           total == o.refundedAmountMinor + amount
           status == IF total = o.paidAmountMinor THEN "REFUNDED"
                                                  ELSE "PARTIALLY_REFUNDED"
           c == [NoChanges EXCEPT !.status = status, !.refundedAmountMinor = total]
           out == IssueRefund(o, v, e)
<1>1. out = IF amount = NULL THEN Reject(o, v, "REFUND_AMOUNT_REQUIRED", {})
            ELSE IF amount > o.paidAmountMinor - o.refundedAmountMinor
                 THEN Reject(o, v, "REFUND_EXCEEDS_CAPTURED", {})
            ELSE ApplyRefund(o, v, e, c)
  BY DEF IssueRefund
<1>2. amount \in (Nat \ {0}) \cup {NULL}
  BY RefundAmountType DEF Event
<1>3. o.paidAmountMinor \in Nat /\ o.refundedAmountMinor \in Nat
  BY DEF Order
<1> HIDE DEF status, amount
<1>4. c.refundedAmountMinor = total /\ c.paidAmountMinor = NULL
  BY DEF NoChanges
<1>5. CASE amount = NULL \/ amount > o.paidAmountMinor - o.refundedAmountMinor
  <2>1. \E reason, skipped : out = Reject(o, v, reason, skipped)
    BY <1>1, <1>5
  <2> HIDE DEF out
  <2>2. MovesMoney(o, e, out)
    BY <2>1, RejectMovesNoMoney
  <2> QED
    BY <2>2 DEF out
<1>6. CASE amount # NULL /\ ~(amount > o.paidAmountMinor - o.refundedAmountMinor)
  <2>1. out.order = Patched(o, c) /\ Takes(out)
    BY <1>1, <1>6 DEF ApplyRefund, Accept, Takes
  <2>2. total \in Nat
    BY <1>2, <1>3, <1>6
  <2> HIDE DEF c, out
  <2>3. total # NULL
    BY <2>2, NullAssumption
  <2>4. /\ out.order.paidAmountMinor = o.paidAmountMinor
        /\ out.order.refundedAmountMinor = total
    BY <1>4, <2>1, <2>3 DEF Patched, Coalesce
  <2>5. CapturedAmount(e, out) = 0 /\ RefundedAmount(e, out) = amount
    BY <2>1 DEF CapturedAmount, RefundedAmount, amount
  <2>6. amount \in Nat
    BY <1>2, <1>6
  <2>7. MovesMoney(o, e, out)
    BY <1>3, <2>4, <2>5, <2>6 DEF MovesMoney
  <2> QED
    BY <2>7 DEF out
<1> QED
  BY <1>5, <1>6

\* Money moves by exactly what an event says: a capture that takes effect adds its
\* amount to what is paid, a refund to what is refunded, and nothing else moves any.
THEOREM HandleEventMoney ==
  ASSUME NEW o \in Order, NEW v \in Versions, NEW e \in Event, ConsistentRow(o)
  PROVE  MovesMoney(o, e, HandleEvent(o, v, e))
<1> DEFINE out == HandleEvent(o, v, e)
<1> SUFFICES MovesMoney(o, e, out)
  OBVIOUS
<1>1. Dispatched(o, v, e, out)
  BY HandleEventDispatches
<1> HIDE DEF out
<1>2. CASE Missing(o) /\ e.type = "ORDER_CREATED" /\ out = CreateOrder(v, e)
  <2>1. o = NoOrder
    BY <1>2 DEF Missing, ConsistentRow
  <2>2. Opened(o, out.order)
    BY <1>2, <2>1, CreateOrderStep
  <2> QED
    BY <1>2, <2>2, NoMoneyMoves DEF Opened
<1>3. CASE \/ out = RejectOrderNotReady(o, v) \/ out = RejectOrderAlreadyExists(o, v)
           \/ out = RejectForbiddenTransition(o, v)
  BY <1>3, RejectMovesNoMoney
     DEF RejectOrderNotReady, RejectOrderAlreadyExists, RejectForbiddenTransition
<1>4. CASE e.type = "ORDER_UPDATED" /\ out = UpdateOrderFields(o, v, e)
  <2>1. Untouched(o, out.order)
    BY <1>4, UpdateOrderFieldsStep
  <2> QED
    BY <1>4, <2>1, NoMoneyMoves DEF Untouched
<1>5. CASE ~Missing(o) /\ e.type = "PAYMENT_CAPTURED" /\ out = CapturePayment(o, v, e)
  BY <1>5, CaptureMovesMoney
<1>6. CASE o.status = "CREATED" /\ e.type = "ORDER_CANCELLED" /\ out = CancelOrder(o, v, e)
  <2>1. Untouched(o, out.order) \/ Cancelled(o, out.order)
    BY <1>6, CancelOrderStep
  <2> QED
    BY <1>6, <2>1, NoMoneyMoves DEF Untouched, Cancelled
<1>7. CASE ~Missing(o) /\ e.type = "REFUND_ISSUED" /\ out = IssueRefund(o, v, e)
  BY <1>7, RefundMovesMoney
<1> QED
  BY <1>1, <1>2, <1>3, <1>4, <1>5, <1>6, <1>7 DEF Dispatched, Missing
=============================================================================
