------------------------ MODULE EventEngineProperties ------------------------
(***************************************************************************)
(* What makes the engine of EventEngine correct.                           *)
(***************************************************************************)
EXTENDS EventEngine, SequencesExt

RawOf(d) == inbox[d.rawIncomingEventId].raw

DecisionsOf(i) == {k \in DOMAIN decisions : decisions[k].rawIncomingEventId = i}

Applied(d) == d.decision \in {"ACCEPTED", "PARTIALLY_APPLIED"}

\* The engine looked at the order before it decided d.
Evaluated(d) ==
  Applied(d) \/ /\ d.decision = "REJECTED"
                /\ d.reasonCode \notin {"INVALID_SCHEMA", "UNKNOWN_EVENT_TYPE"}

-----------------------------------------------------------------------------
\* A delivery is DONE exactly when the audit log holds one decision about it,
\* and the log names no other deliveries: processEvent, its failure handler, a
\* rollback, a crash and a repeated poll never leave a decision without the
\* inbox row's change, or decide a delivery twice.
DoneIffDecided ==
  /\ \A k \in DOMAIN decisions : decisions[k].rawIncomingEventId \in DOMAIN inbox
  /\ \A i \in DOMAIN inbox : inbox[i].processingStatus = "DONE" <=> Decided(i)
  /\ \A j, k \in DOMAIN decisions :
       decisions[j].rawIncomingEventId = decisions[k].rawIncomingEventId => j = k

\* Of all deliveries of one event id only the one that holds its key is ever
\* evaluated against an order; every other one that passes validation ends as
\* DUPLICATE, or FAILED.  The key survives retries, failures of the holder and
\* its rejection.
OneDeliveryPerEventId ==
  \A k \in DOMAIN decisions :
    LET d == decisions[k]
        holder == keys[RawOf(d).eventId]
    IN  /\ Evaluated(d) => holder = d.rawIncomingEventId
        /\ d.decision = "DUPLICATE" => holder \notin {NULL, d.rawIncomingEventId}

\* An order's status and its money agree: nothing is paid before PAID, refunds
\* are positive and never exceed the capture, and REFUNDED means all of it.
LedgerConsistent == \A o \in OrderIds : ConsistentRow(orders[o])

\* The order row of o as the first n audit decisions tell it.
ReplayedOrder(o, n) ==
  LET row[k \in 0..Len(decisions)] ==
        IF k = 0 THEN NoOrder
        ELSE IF RawOf(decisions[k]).orderId = o
             THEN Patched(row[k - 1], decisions[k].changedFields)
        ELSE row[k - 1]
  IN  row[n]

\* The audit log explains the orders: replaying the changed fields of the
\* decisions yields every order row, and each decision records the status it
\* found and the status it left.
AuditReplaysOrders ==
  /\ \A o \in OrderIds : orders[o] = ReplayedOrder(o, Len(decisions))
  /\ \A k \in DOMAIN decisions :
       LET d == decisions[k]
           o == RawOf(d).orderId
       IN  Evaluated(d) =>
             /\ d.fromStatus = StatusOrNull(ReplayedOrder(o, k - 1))
             /\ d.toStatus = StatusOrNull(ReplayedOrder(o, k))

\* The decisions on order o that changed field f.
Setters(o, f) ==
  {k \in DOMAIN decisions :
     /\ RawOf(decisions[k]).orderId = o
     /\ decisions[k].changedFields[f] # NULL}

\* Decision k came from the newest event among ks, the first such to be
\* accepted.
Freshest(k, ks) ==
  /\ k \in ks
  /\ \A j \in ks :
       LET tk == RawOf(decisions[k]).timestamp
           tj == RawOf(decisions[j]).timestamp
       IN  tj < tk \/ (tj = tk /\ k <= j)

\* Whatever the order of arrival, a field version names the newest event that
\* changed the field (the first accepted of several equally new ones), and the
\* amount and currency of an order are the values that event gave.
FreshestWins ==
  \A o \in OrderIds : \A f \in VersionedFields :
    IF Setters(o, f) = {}
    THEN versions[o][f] = NoVersions[f]
    ELSE \E k \in Setters(o, f) :
           /\ Freshest(k, Setters(o, f))
           /\ versions[o][f].timestamp = RawOf(decisions[k]).timestamp
           /\ versions[o][f].eventId = RawOf(decisions[k]).eventId
           /\ f # "status" => orders[o][f] = decisions[k].changedFields[f]

\* What an event says the set-like field f of its order is.
Says(d, f) == ReadOrderUpdateChanges(RawOf(d).payload)[f]

\* The decisions on events that spoke about field f of order o once it existed,
\* whatever the decision was.
Speakers(o, f) ==
  {k \in DOMAIN decisions :
     /\ RawOf(decisions[k]).orderId = o
     /\ RawOf(decisions[k]).type \in {"ORDER_CREATED", "ORDER_UPDATED"}
     /\ Evaluated(decisions[k])
     /\ decisions[k].reasonCode \notin {"ORDER_NOT_READY", "ORDER_ALREADY_EXISTS"}
     /\ Says(decisions[k], f) # NULL}

\* Updates converge: the amount and the currency of an order are what the newest
\* event that named them says, among all events evaluated on the order, applied,
\* applied in part or refused, in whichever order they arrived.  No merge loses a
\* field because another field of the same event was stale.
UpdatesConverge ==
  \A o \in OrderIds : \A f \in {"amountMinor", "currency"} :
    IF Speakers(o, f) = {}
    THEN orders[o][f] = NULL
    ELSE \E k \in Speakers(o, f) :
           Freshest(k, Speakers(o, f)) /\ orders[o][f] = Says(decisions[k], f)

\* What decision d adds to the paid and to the refunded amount of order o.
CapturedBy(d, o) ==
  IF Applied(d) /\ RawOf(d).orderId = o /\ RawOf(d).type = "PAYMENT_CAPTURED"
  THEN ReadAmountMinor(RawOf(d).payload.amount) ELSE 0

RefundedBy(d, o) ==
  IF Applied(d) /\ RawOf(d).orderId = o /\ RawOf(d).type = "REFUND_ISSUED"
  THEN ReadRefundAmountMinor(RawOf(d).payload) ELSE 0

\* amount[1] + ... + amount[n].
SumTo(n, amount) ==
  LET sum[k \in 0..n] == IF k = 0 THEN 0 ELSE sum[k - 1] + amount[k]
  IN  sum[n]

\* Money moves once per applied event: what an order has paid and had refunded
\* is the sum of what its accepted captures and refunds say, late ones
\* included.
MoneyAddsUp ==
  \A o \in OrderIds :
    /\ orders[o].paidAmountMinor =
         SumTo(Len(decisions), [k \in DOMAIN decisions |-> CapturedBy(decisions[k], o)])
    /\ orders[o].refundedAmountMinor =
         SumTo(Len(decisions), [k \in DOMAIN decisions |-> RefundedBy(decisions[k], o)])

\* The statistics, incremented in the same transaction as each decision, are
\* the counts of the audit log.
Count(ds) == Cardinality({k \in DOMAIN decisions : decisions[k].decision \in ds})

StatsMatchAudit ==
  stats = [processed |-> Len(decisions),
           valid |-> Count({"ACCEPTED", "PARTIALLY_APPLIED"}),
           rejected |-> Count({"REJECTED", "FAILED"}),
           duplicate |-> Count({"DUPLICATE"})]

\* Missing-order attempts and technical failures share one budget of three: a
\* waiting row has used one or two of it and says why it waits, a FAILED
\* decision leaves two on the row and an ORDER_NOT_READY rejection three.
RetryBudget ==
  \A i \in DOMAIN inbox :
    LET row == inbox[i]
    IN  /\ row.processingStatus = "PENDING" => row.attempts = 0
        /\ row.processingStatus = "RETRY" =>
             row.attempts \in 1..2 /\ row.lastErrorMessage # NULL
        /\ \A k \in DecisionsOf(i) :
             /\ decisions[k].decision = "FAILED" =>
                  row.attempts = 2 /\ row.lastErrorMessage = "ERROR"
             /\ decisions[k].decision # "FAILED" => row.lastErrorMessage = NULL
             /\ decisions[k].reasonCode = "ORDER_NOT_READY" => row.attempts = 3

\* The isPolling guard: at most one invocation works on the inbox, and the rows
\* it read at the start of the poll have not been processed or rescheduled
\* since, so that the attempts it computes with are the stored ones.
PollSnapshotsFresh ==
  /\ isPolling <=> \E p \in Polls : pc[p] # "idle"
  /\ \A p, q \in Polls : pc[p] # "idle" /\ pc[q] # "idle" => p = q
  /\ \A p \in Polls : \A x \in batch[p] :
       /\ x.id \in Unprocessed
       /\ x.attempts = inbox[x.id].attempts
       /\ pc[p] \in {"processing", "failing"} => inbox[x.id].due

-----------------------------------------------------------------------------
\* A rescheduled delivery is not touched before its delay has passed, not even
\* by a poll that was under way when it was rescheduled.
RetryWaits ==
  [][\A i \in DOMAIN inbox :
       inbox[i].processingStatus = "RETRY" /\ ~inbox[i].due
         => inbox'[i] \in {inbox[i], [inbox[i] EXCEPT !.due = TRUE]}]_vars

\* Decisions are appended and never revised, a DONE delivery and a claimed key
\* stay as they are, and a stored item is never altered.
AuditIsFinal ==
  [][/\ IsPrefix(decisions, decisions')
     /\ \A i \in DOMAIN inbox :
          /\ i \in DOMAIN inbox' /\ inbox'[i].raw = inbox[i].raw
          /\ inbox[i].processingStatus = "DONE" => inbox'[i] = inbox[i]
     /\ \A e \in EventIds : keys[e] # NULL => keys'[e] = keys[e]]_vars

-----------------------------------------------------------------------------
\* The engine implements the ledger of orders: of an order row the ledger sees
\* the status and the money.
Book == [o \in OrderIds |-> [status |-> orders[o].status,
                            paid |-> orders[o].paidAmountMinor,
                            refunded |-> orders[o].refundedAmountMinor]]

Ledger == INSTANCE OrderLedger WITH ledger <- Book

\* Every step of the engine opens, cancels, captures or refunds one order, or
\* leaves the status and the money of every order alone.
ImplementsOrderLedger == Ledger!Spec

-----------------------------------------------------------------------------
\* The engine implements the inbox: of a delivery a client of POST /api/events
\* sees the event id and what became of it.
VerdictOf(d) ==
  CASE Applied(d) -> "APPLIED"
    [] Evaluated(d) /\ ~Applied(d) -> "REFUSED"
    [] d.decision = "REJECTED" /\ ~Evaluated(d) -> "INVALID"
    [] d.decision \in {"DUPLICATE", "FAILED"} -> d.decision

VerdictOn(i) ==
  IF Decided(i) THEN VerdictOf(decisions[CHOOSE k \in DecisionsOf(i) : TRUE]) ELSE NULL

Deliveries ==
  [i \in DOMAIN inbox |-> [eventId |-> inbox[i].raw.eventId, verdict |-> VerdictOn(i)]]

Counts ==
  [valid |-> stats.valid, rejected |-> stats.rejected, duplicate |-> stats.duplicate]

Clients == INSTANCE Inbox WITH deliveries <- Deliveries, counts <- Counts

\* No verdict yet is told apart from every verdict.
ASSUME VerdictAssumption == NULL \notin Clients!Verdicts

\* Every step of the engine stores the deliveries of one request, gives one of
\* them its one verdict and counts it, or changes nothing a client can see.
ImplementsInbox == Clients!Spec

\* Every stored delivery gets its verdict in the end, despite crashes, failing
\* transactions, aborted polls and missing orders.
EveryDeliveryDecided == Clients!Settles

-----------------------------------------------------------------------------
\* docs/api-contract.md: FAILED means that unexpected processing errors exhausted
\* the technical retry limit.  Then the attempt before the one that ends in FAILED
\* failed technically too.
FailedAfterTechnicalRetries ==
  [][\A k \in DOMAIN decisions' \ DOMAIN decisions :
       decisions'[k].decision = "FAILED"
         => inbox[decisions'[k].rawIncomingEventId].lastErrorMessage = "ERROR"]_vars

\* README.md: DUPLICATE means that the event id was claimed by an earlier
\* delivery.
DuplicateNamesEarlierDelivery ==
  \A k \in DOMAIN decisions :
    decisions[k].decision = "DUPLICATE" =>
      keys[RawOf(decisions[k]).eventId] < decisions[k].rawIncomingEventId

\* docs/multi-threading.md: the first structurally valid event claims its key before
\* business rules run, and later deliveries with the key end as DUPLICATE.  Then no
\* delivery is evaluated once an earlier stored valid one of its id has been decided
\* and was no duplicate itself.
LaterDeliveriesAreDuplicates ==
  \A j, k \in DOMAIN decisions :
    LET first == decisions[j].rawIncomingEventId
        later == decisions[k].rawIncomingEventId
    IN  /\ j < k /\ first < later
        /\ Valid(first) /\ Valid(later)
        /\ inbox[first].raw.eventId = inbox[later].raw.eventId
        /\ decisions[j].decision # "DUPLICATE"
        => ~Evaluated(decisions[k])
=============================================================================
