------------------------------ MODULE Scenarios ------------------------------
(***************************************************************************)
(* The batches the frontend sends: one scenario of the page, in the order  *)
(* of the page or as somebody rearranged it in the editor, is posted to an *)
(* empty engine in one request.                                            *)
(*                                                                         *)
(* The module is about any set of batches that are orderly, as the         *)
(* scenarios of the page are.                                              *)
(*                                                                         *)
(* Event ids are the numbers at the end of the page's ids; amounts are in  *)
(* thousandths, as everywhere.  An item that is no JSON object has no      *)
(* field at all.                                                           *)
(***************************************************************************)
EXTENDS EventEngineProperties

CONSTANTS orderId, PLN, EUR,
          Batches   \* the batches somebody may send

Raw(id, type, timestamp, payload) ==
  [eventId |-> id, orderId |-> orderId, type |-> type, timestamp |-> timestamp,
   payload |-> payload]

NoObject == [eventId |-> NULL, orderId |-> NULL, type |-> NULL, timestamp |-> NULL,
             payload |-> NULL]

Empty == [amount |-> NULL, refundAmount |-> NULL, currency |-> NULL, hasStatus |-> FALSE]
Amount(units) == [Empty EXCEPT !.amount = 1000 * units]
Priced(units, currency) == [Amount(units) EXCEPT !.currency = currency]
Refund(units) == [Empty EXCEPT !.refundAmount = 1000 * units]

stress ==
  <<Raw(2, "PAYMENT_CAPTURED", 2000, Amount(120)),
    Raw(1, "ORDER_CREATED", 1000, Priced(120, PLN)),
    Raw(3, "ORDER_UPDATED", 3000, Amount(130)),
    Raw(4, "ORDER_UPDATED", 2500, Priced(125, EUR)),
    Raw(5, "REFUND_ISSUED", 4000, Refund(30)),
    Raw(3, "ORDER_UPDATED", 3000, Amount(130))>>

ordering ==
  <<Raw(3, "REFUND_ISSUED", 3000, Refund(30)),
    Raw(2, "PAYMENT_CAPTURED", 2000, Amount(120)),
    Raw(1, "ORDER_CREATED", 1000, Priced(120, PLN))>>

malformed ==
  <<Raw(NULL, "ORDER_CREATED", 1000, Priced(50, PLN)),
    Raw(1, "UNSUPPORTED", 1100, Empty),
    Raw(2, "ORDER_UPDATED", NULL, Amount(40)),
    Raw(3, "ORDER_UPDATED", 1200, NULL),
    Raw(4, "REFUND_ISSUED", 1300, Refund(-30)),
    NoObject,
    NoObject>>

transitions ==
  <<Raw(1, "ORDER_CREATED", 4000, Priced(80, PLN)),
    Raw(2, "ORDER_CANCELLED", 4100, Empty),
    Raw(3, "PAYMENT_CAPTURED", 4200, Amount(80)),
    Raw(4, "REFUND_ISSUED", 4300, Refund(80))>>

duplicate ==
  <<Raw(1, "ORDER_CREATED", 1000, Priced(70, PLN)),
    Raw(1, "ORDER_CREATED", 1000, Priced(70, PLN))>>

partial ==
  <<Raw(1, "ORDER_CREATED", 1000, Priced(100, PLN)),
    Raw(3, "ORDER_UPDATED", 3000, Amount(150)),
    Raw(2, "ORDER_UPDATED", 2000, Priced(120, EUR))>>

refund ==
  <<Raw(1, "ORDER_CREATED", 1000, Priced(120, PLN)),
    Raw(2, "PAYMENT_CAPTURED", 2000, Amount(120)),
    Raw(3, "REFUND_ISSUED", 3000, Refund(40)),
    Raw(4, "REFUND_ISSUED", 4000, Refund(80))>>

guards ==
  <<Raw(1, "ORDER_CREATED", 1000, Priced(50, PLN)),
    Raw(2, "PAYMENT_CAPTURED", 2000, Amount(50)),
    Raw(3, "PAYMENT_CAPTURED", 3000, Amount(50)),
    Raw(4, "REFUND_ISSUED", 4000, Refund(60))>>

\* The scenario "invalid" is no array and is refused with 400: it stores nothing.
scenarioFactories ==
  {stress, ordering, malformed, transitions, duplicate, partial, refund, guards}

ScenarioItems == UNION {Range(batchOfPage) : batchOfPage \in scenarioFactories}

\* The items are about one order and can be put in order of time: those the engine
\* accepts as events differ in their timestamps and ids unless they are repetitions of
\* each other, and nothing happens to the order before its creation, if they tell of
\* it.
Orderly(items) ==
  LET events == {raw \in items : Validate(raw) = NULL}
  IN  /\ \A e \in events : e.orderId = orderId
      /\ \A e, f \in events :
           e.eventId = f.eventId \/ e.timestamp = f.timestamp => e = f
      /\ (\E e \in events : e.type = "ORDER_CREATED") =>
           \E first \in events : /\ first.type = "ORDER_CREATED"
                                 /\ \A e \in events : first.timestamp <= e.timestamp

ASSUME BatchesAssumption ==
  /\ orderId \in OrderIds
  /\ \A items \in Batches : /\ items \in Seq(RawEvents)
                             /\ Len(items) \in 1..MaxBatch /\ Len(items) <= MaxDeliveries
                             /\ Orderly(Range(items))

\* The same items, each as often, in any order.
Orderings(items) ==
  LET Places(raw, batchSent) == {k \in DOMAIN items : batchSent[k] = raw}
  IN  {posted \in [DOMAIN items -> Range(items)] :
         \A raw \in Range(items) :
           Cardinality(Places(raw, posted)) = Cardinality(Places(raw, items))}

\* The page posts a scenario as it is, or with its items rearranged.
SendScenario ==
  /\ phase = "serving" /\ inbox = <<>>
  /\ \E items \in Batches : \E posted \in Orderings(items) :
       inbox' = [k \in DOMAIN posted |-> CreateRawIncomingEvent(posted[k])]
  /\ UNCHANGED <<keys, orders, versions, decisions, stats, worker>>

\* The process may die and restart at any point.  No transaction throws: a delivery
\* put off by a failure meets its order later than the others.
ScenarioNext ==
  \/ SendScenario
  \/ \E i \in DOMAIN inbox : RetryDelayElapses(i)
  \/ Boot
  \/ Crash
  \/ \E p \in Polls :
       StartPoll(p) \/ FilterAvailableEvents(p) \/ ProcessEvent(p) \/ EndPoll(p)

ScenarioSpec == Init /\ [][ScenarioNext]_vars

-----------------------------------------------------------------------------
BatchDone == inbox # <<>> /\ \A i \in DOMAIN inbox : inbox[i].processingStatus = "DONE"

\* The events that were posted, without repetitions.
Posted == {inbox[i].raw : i \in {j \in DOMAIN inbox : Valid(j)}}

\* The n-th of some events in time.
Older(e, events) == {f \in events : f.timestamp < e.timestamp}
Nth(n, events) == CHOOSE e \in events : Cardinality(Older(e, events)) = n - 1

\* What event e makes of an order and its field versions.
Handled(state, e) ==
  LET out == HandleEvent(state.order, state.versions, e)
  IN  [order |-> out.order, versions |-> out.versions]

\* The row and the versions the order has once the first n of some events came one by
\* one, in time.
InTime(n, events) ==
  LET state[k \in 0..Cardinality(events)] ==
        IF k = 0 THEN [order |-> NoOrder, versions |-> NoVersions]
        ELSE Handled(state[k - 1], Nth(k, events))
  IN  state[n]

\* However the items of a batch are ordered, and wherever the process is restarted
\* while it works on them, the batch ends in the order its events lead to one by one
\* in time, and every repetition of an item in a DUPLICATE.
BatchOrderDoesNotMatter ==
  BatchDone =>
    LET timely == InTime(Cardinality(Posted), Posted)
    IN  /\ orders[orderId] = timely.order
        /\ versions[orderId] = timely.versions
        /\ Count({"DUPLICATE"}) =
             Cardinality({i \in DOMAIN inbox : Valid(i)}) - Cardinality(Posted)

\* frontend/index.html: the partial merge scenario shows an older amount skipped and a
\* newer currency applied.
PartialMergeIsShown ==
  BatchDone /\ Range(partial) = {inbox[i].raw : i \in DOMAIN inbox} =>
    \E k \in DOMAIN decisions : /\ decisions[k].decision = "PARTIALLY_APPLIED"
                                /\ decisions[k].skippedFields = {"amountMinor"}
=============================================================================
