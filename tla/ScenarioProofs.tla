---------------------------- MODULE ScenarioProofs ----------------------------
(***************************************************************************)
(* For every set of orderly batches: however the items of one are          *)
(* rearranged, and wherever the process is restarted while it works on     *)
(* them, the batch ends in the order its events lead to one by one in      *)
(* time.                                                                   *)
(*                                                                         *)
(* If the batch tells of the creation of the order, the poll takes its     *)
(* events in time: at any moment the evaluated ones are the first n, and   *)
(* the order is what the first n lead to.  If it does not, every event is  *)
(* put off until it is refused, and the order never exists.                *)
(***************************************************************************)
EXTENDS Scenarios, OrderHistoryProofs

-----------------------------------------------------------------------------
\* Events in time.

\* Events that differ in their times.
Timeline(events) ==
  /\ IsFiniteSet(events)
  /\ \A e \in events : e.timestamp \in Int
  /\ \A e, f \in events : e.timestamp = f.timestamp => e = f

\* Of some events, those in seen are older than the others.
First(seen, events) ==
  /\ seen \in SUBSET events
  /\ \A e \in seen : \A f \in events \ seen : e.timestamp < f.timestamp

\* The oldest event that was not seen is the next in time.
LEMMA NextInTime ==
  ASSUME NEW events, Timeline(events), NEW seen, First(seen, events),
         NEW e \in events \ seen,
         \A f \in events \ seen : e.timestamp <= f.timestamp
  PROVE  /\ IsFiniteSet(seen) /\ Cardinality(seen) \in Nat
         /\ Nth(Cardinality(seen) + 1, events) = e
         /\ First(seen \cup {e}, events)
         /\ Cardinality(seen \cup {e}) = Cardinality(seen) + 1
         /\ Cardinality(seen) + 1 <= Cardinality(events)
<1> DEFINE n == Cardinality(seen)
<1>1. /\ IsFiniteSet(events) /\ seen \in SUBSET events
      /\ \A f \in events : f.timestamp \in Int
      /\ \A f, g \in events : f.timestamp = g.timestamp => f = g
      /\ \A f \in seen : \A g \in events \ seen : f.timestamp < g.timestamp
  BY DEF Timeline, First
<1>2. IsFiniteSet(seen)
  BY <1>1, FS_Subset
<1>3. n \in Nat
  BY <1>2, FS_CardinalityType
<1>4. Cardinality(seen \cup {e}) = n + 1
  BY <1>2, FS_AddElement
<1>5. First(seen \cup {e}, events)
  <2>1. ASSUME NEW f \in seen \cup {e}, NEW g \in events \ (seen \cup {e})
        PROVE  f.timestamp < g.timestamp
    <3>1. CASE f \in seen
      BY <1>1, <3>1
    <3>2. CASE f = e
      <4>1. e.timestamp <= g.timestamp /\ e.timestamp # g.timestamp
        BY <1>1
      <4>2. e.timestamp \in Int /\ g.timestamp \in Int
        BY <1>1
      <4> QED
        BY <3>2, <4>1, <4>2
    <3> QED
      BY <3>1, <3>2
  <2> QED
    BY <1>1, <2>1 DEF First
<1>6. Older(e, events) = seen
  <2>1. ASSUME NEW f \in events \ seen PROVE ~(f.timestamp < e.timestamp)
    <3>1. e.timestamp <= f.timestamp /\ e.timestamp \in Int /\ f.timestamp \in Int
      BY <1>1
    <3> QED
      BY <3>1
  <2> QED
    BY <1>1, <2>1 DEF Older
<1>7. Cardinality(seen \cup {e}) <= Cardinality(events)
  <2>1. (seen \cup {e}) \in SUBSET events
    BY <1>1
  <2> QED
    BY <1>1, <2>1, FS_Subset
<1>8. ASSUME NEW f \in events, Cardinality(Older(f, events)) = n
      PROVE  f = e
  <2>1. f.timestamp \in Int /\ e.timestamp \in Int
    BY <1>1
  <2>2. Older(f, events) \in SUBSET events
    BY DEF Older
  <2>3. IsFiniteSet(Older(f, events))
    BY <1>1, <2>2, FS_Subset
  <2>4. CASE f.timestamp < e.timestamp
    <3>1. f \in seen
      BY <1>6, <2>4 DEF Older
    <3>2. Cardinality(seen \ {f}) = n - 1
      BY <1>2, <3>1, FS_RemoveElement
    <3>3. IsFiniteSet(seen \ {f})
      BY <1>2, FS_RemoveElement
    <3>4. Older(f, events) \in SUBSET (seen \ {f})
      <4>1. ASSUME NEW g \in events, g.timestamp < f.timestamp
            PROVE  g \in seen \ {f}
        <5>1. g.timestamp \in Int
          BY <1>1
        <5>2. g.timestamp < e.timestamp /\ g.timestamp # f.timestamp
          BY <2>1, <2>4, <4>1, <5>1
        <5> QED
          BY <1>6, <5>2 DEF Older
      <4> QED
        BY <4>1 DEF Older
    <3>5. Cardinality(Older(f, events)) <= Cardinality(seen \ {f})
      BY <3>3, <3>4, FS_Subset
    <3> QED
      BY <1>3, <1>8, <3>2, <3>5
  <2>5. CASE e.timestamp < f.timestamp
    <3>1. (seen \cup {e}) \in SUBSET Older(f, events)
      <4>1. ASSUME NEW g \in seen PROVE g.timestamp < f.timestamp
        <5>1. g.timestamp \in Int /\ g.timestamp < e.timestamp
          BY <1>1
        <5> QED
          BY <2>1, <2>5, <5>1
      <4> QED
        BY <1>1, <2>5, <4>1 DEF Older
    <3>2. Cardinality(seen \cup {e}) <= Cardinality(Older(f, events))
      BY <2>3, <3>1, FS_Subset
    <3> QED
      BY <1>3, <1>4, <1>8, <3>2
  <2>6. CASE e.timestamp = f.timestamp
    BY <1>1, <2>6
  <2> QED
    BY <2>1, <2>4, <2>5, <2>6
<1>9. Nth(n + 1, events) = e
  <2>1. Cardinality(Older(e, events)) = (n + 1) - 1
    BY <1>3, <1>6
  <2>2. \A f \in events : Cardinality(Older(f, events)) = (n + 1) - 1 => f = e
    BY <1>3, <1>8
  <2> HIDE DEF n
  <2> QED
    BY <2>1, <2>2 DEF Nth
<1> QED
  BY <1>2, <1>3, <1>4, <1>5, <1>7, <1>9

\* Some events have an oldest one.
LEMMA OldestEvent ==
  ASSUME NEW events, Timeline(events), NEW seen, First(seen, events), seen # events
  PROVE  \E e \in events \ seen : \A f \in events \ seen : e.timestamp <= f.timestamp
<1> DEFINE rest == events \ seen
           ages == {Cardinality(Older(e, events)) : e \in rest}
<1>1. /\ IsFiniteSet(events) /\ seen \in SUBSET events
      /\ \A e \in events : e.timestamp \in Int
  BY DEF Timeline, First
<1>2. ASSUME NEW e \in events
      PROVE  IsFiniteSet(Older(e, events)) /\ Cardinality(Older(e, events)) \in Nat
  <2>1. Older(e, events) \in SUBSET events
    BY DEF Older
  <2> QED
    BY <1>1, <2>1, FS_Subset, FS_CardinalityType
<1>3. ages \in SUBSET Nat /\ ages # {}
  BY <1>1, <1>2
<1>4. PICK a \in ages : \A b \in ages : a <= b
  <2> HIDE DEF ages
  <2> QED
    BY <1>3, LeastNumber
<1>5. PICK e \in rest : a = Cardinality(Older(e, events))
  BY <1>4
<1>6. ASSUME NEW f \in rest, f.timestamp < e.timestamp
      PROVE  FALSE
  <2>1. e \in events /\ f \in events /\ e.timestamp \in Int /\ f.timestamp \in Int
    BY <1>1
  <2>2. Older(f, events) \in SUBSET Older(e, events)
    <3>1. ASSUME NEW g \in events, g.timestamp < f.timestamp
          PROVE  g.timestamp < e.timestamp
      BY <1>1, <1>6, <2>1, <3>1
    <3> QED
      BY <3>1 DEF Older
  <2>3. f \in Older(e, events) /\ f \notin Older(f, events)
    BY <1>6, <2>1 DEF Older
  <2>4. IsFiniteSet(Older(e, events)) /\ Cardinality(Older(e, events)) \in Nat
    BY <1>2, <2>1
  <2>5. Cardinality(Older(f, events)) <= Cardinality(Older(e, events))
    BY <2>2, <2>4, FS_Subset
  <2>6. Cardinality(Older(f, events)) # Cardinality(Older(e, events))
    BY <2>2, <2>3, <2>4, FS_Subset
  <2>7. a <= Cardinality(Older(f, events))
    BY <1>4
  <2> QED
    BY <1>2, <1>5, <2>1, <2>5, <2>6, <2>7
<1>7. \A f \in rest : e.timestamp <= f.timestamp
  <2>1. \A f \in rest : ~(f.timestamp < e.timestamp)
    BY <1>6
  <2> QED
    BY <1>1, <2>1
<1> QED
  BY <1>7

\* There is an n-th event for every n up to their number.
LEMMA NthExists ==
  ASSUME NEW events, Timeline(events)
  PROVE  /\ Cardinality(events) \in Nat
         /\ \A n \in 1..Cardinality(events) : Nth(n, events) \in events
<1> DEFINE m == Cardinality(events)
           T == {n \in 0..m : \E seen : First(seen, events) /\ Cardinality(seen) = n}
<1>1. IsFiniteSet(events)
  BY DEF Timeline
<1>2. m \in Nat
  BY <1>1, FS_CardinalityType
<1>3. T \in SUBSET Nat
  OBVIOUS
<1>4. 0 \in T
  <2>1. First({}, events)
    BY DEF First
  <2> QED
    BY <1>2, <2>1, FS_EmptySet
<1>5. ASSUME NEW n \in 0..(m - 1), n \in T
      PROVE  n + 1 \in T /\ Nth(n + 1, events) \in events
  <2>1. PICK seen : First(seen, events) /\ Cardinality(seen) = n
    BY <1>5
  <2>2. n # m
    BY <1>2
  <2>3. seen # events
    BY <2>1, <2>2
  <2>4. PICK e \in events \ seen : \A f \in events \ seen : e.timestamp <= f.timestamp
    BY <2>1, <2>3, OldestEvent
  <2>5. /\ Nth(Cardinality(seen) + 1, events) = e
        /\ First(seen \cup {e}, events)
        /\ Cardinality(seen \cup {e}) = Cardinality(seen) + 1
    BY <2>1, <2>4, NextInTime
  <2>6. n + 1 \in 0..m
    BY <1>2
  <2> QED
    BY <2>1, <2>5, <2>6
<1> HIDE DEF T, m
<1>6. 0..m \subseteq T
  BY <1>2, <1>3, <1>4, <1>5, SetInduction
<1>7. ASSUME NEW n \in 1..m PROVE Nth(n, events) \in events
  <2>1. n - 1 \in 0..(m - 1) /\ n - 1 \in 0..m /\ (n - 1) + 1 = n
    BY <1>2
  <2>2. n - 1 \in T
    BY <1>6, <2>1
  <2>3. Nth((n - 1) + 1, events) \in events
    BY <1>5, <2>1, <2>2
  <2> QED
    BY <2>1, <2>3
<1> QED
  BY <1>2, <1>7 DEF m

-----------------------------------------------------------------------------
\* The order after the first events.

\* What an order can be, and what there is before the first event.
OrderStates ==
  {state \in [order : Order, versions : Versions] : ConsistentRow(state.order)}

Unborn == [order |-> NoOrder, versions |-> NoVersions]

LEMMA HandledType ==
  ASSUME NEW state \in OrderStates, NEW e \in Event
  PROVE  Handled(state, e) \in OrderStates
<1>1. state.order \in Order /\ state.versions \in Versions /\ ConsistentRow(state.order)
  BY DEF OrderStates
<1>2. PICK out : out = HandleEvent(state.order, state.versions, e)
  OBVIOUS
<1>3. out \in Outcome /\ LedgerStep(state.order, out.order)
  BY <1>1, <1>2, HandleEventStep
<1>4. out.order \in Order /\ out.versions \in Versions
  BY <1>3 DEF Outcome
<1>5. ConsistentRow(out.order)
  BY <1>1, <1>3, <1>4, LedgerStepConsistent
<1>6. Handled(state, e) = [order |-> out.order, versions |-> out.versions]
  BY <1>2 DEF Handled
<1> QED
  BY <1>4, <1>5, <1>6 DEF OrderStates

\* InTime is well defined: it takes one event after the other.
LEMMA InTimeSteps ==
  ASSUME NEW events, Timeline(events), events \subseteq Event
  PROVE  /\ InTime(0, events) = Unborn
         /\ \A n \in 1..Cardinality(events) :
              InTime(n, events) = Handled(InTime(n - 1, events), Nth(n, events))
<1>1. PICK m : m = Cardinality(events)
  OBVIOUS
<1>2. m \in Nat /\ \A n \in 1..m : Nth(n, events) \in Event
  BY <1>1, NthExists
<1>3. PICK S : S = [n \in 1..m |-> [state \in OrderStates |->
                                      Handled(state, Nth(n, events))]]
  OBVIOUS
<1>4. S \in [1..m -> [OrderStates -> OrderStates]]
  BY <1>2, <1>3, HandledType
<1>5. Unborn \in OrderStates
  BY NoOrderType DEF Unborn, OrderStates, ConsistentRow
<1>6. PICK f : f \in [0..m -> OrderStates] /\ Follows(f, m, Unborn, S)
  BY <1>2, <1>4, <1>5, StepsFollowed
<1>7. ASSUME NEW n \in 0..m
      PROVE  f[n] = IF n = 0 THEN Unborn ELSE Handled(f[n - 1], Nth(n, events))
  <2>1. CASE n = 0
    BY <1>6, <2>1 DEF Follows
  <2>2. CASE n # 0
    <3>1. n \in 1..m /\ n - 1 \in 0..m
      BY <1>2, <2>2
    <3>2. f[n] = S[n][f[n - 1]] /\ f[n - 1] \in OrderStates
      BY <1>6, <2>2, <3>1 DEF Follows
    <3> QED
      BY <1>3, <2>2, <3>1, <3>2
  <2> QED
    BY <2>1, <2>2
<1>8. f = [n \in 0..m |-> IF n = 0 THEN Unborn ELSE Handled(f[n - 1], Nth(n, events))]
  BY <1>6, <1>7
<1>9. PICK state :
        /\ state = [n \in 0..m |-> IF n = 0 THEN Unborn
                                   ELSE Handled(state[n - 1], Nth(n, events))]
        /\ \A n : InTime(n, events) = state[n]
  BY <1>1, <1>8 DEF InTime, Unborn
<1>10. 0 \in 0..m /\ \A n \in 1..m : n \in 0..m /\ n # 0
  BY <1>2
<1>11. state[0] = Unborn
  BY <1>9, <1>10
<1>12. ASSUME NEW n \in 1..m PROVE state[n] = Handled(state[n - 1], Nth(n, events))
  BY <1>9, <1>10
<1> QED
  BY <1>1, <1>9, <1>11, <1>12

\* Nothing happens to an order that is not created.
LEMMA UncreatedIsRefused ==
  ASSUME NEW e \in Event, e.type # "ORDER_CREATED"
  PROVE  /\ HandleEvent(NoOrder, NoVersions, e).order = NoOrder
         /\ HandleEvent(NoOrder, NoVersions, e).versions = NoVersions
<1>1. Dispatched(NoOrder, NoVersions, e, HandleEvent(NoOrder, NoVersions, e))
  BY NoOrderType, HandleEventDispatches
<1>2. Missing(NoOrder) /\ NoOrder.status = "DOES_NOT_EXIST"
  BY DEF Missing, NoOrder
<1>3. HandleEvent(NoOrder, NoVersions, e) = RejectOrderNotReady(NoOrder, NoVersions)
  BY <1>1, <1>2 DEF Dispatched
<1> QED
  BY <1>3 DEF RejectOrderNotReady, Reject

LEMMA NeverCreated ==
  ASSUME NEW events, Timeline(events), events \subseteq Event,
         \A e \in events : e.type # "ORDER_CREATED"
  PROVE  InTime(Cardinality(events), events) = Unborn
<1>1. PICK m : m = Cardinality(events)
  OBVIOUS
<1>2. m \in Nat /\ \A n \in 1..m : Nth(n, events) \in events
  BY <1>1, NthExists
<1>3. PICK f : f = [n \in 0..m |-> InTime(n, events)]
  OBVIOUS
<1>4. PICK g : g = [n \in 0..m |-> Unborn]
  OBVIOUS
<1>5. f[0] = g[0]
  BY <1>2, <1>3, <1>4, InTimeSteps
<1>6. ASSUME NEW n \in 1..m, f[n - 1] = g[n - 1] PROVE f[n] = g[n]
  <2>1. n \in 0..m /\ n - 1 \in 0..m
    BY <1>2
  <2>2. InTime(n - 1, events) = Unborn
    BY <1>3, <1>4, <1>6, <2>1
  <2>3. InTime(n, events) = Handled(Unborn, Nth(n, events))
    BY <1>1, <2>2, InTimeSteps
  <2>4. Nth(n, events) \in Event /\ Nth(n, events).type # "ORDER_CREATED"
    BY <1>2
  <2>5. Handled(Unborn, Nth(n, events)) = Unborn
    BY <2>4, UncreatedIsRefused DEF Handled, Unborn
  <2> QED
    BY <1>3, <1>4, <2>1, <2>3, <2>5
<1>7. \A n \in 1..m : f[n - 1] = g[n - 1] => f[n] = g[n]
  BY <1>6
<1>8. \A n \in 0..m : f[n] = g[n]
  BY <1>2, <1>5, <1>7, SameSteps
<1>9. m \in 0..m
  BY <1>2
<1> QED
  BY <1>1, <1>3, <1>4, <1>8, <1>9

\* A creation is accepted, and whatever happens to an order that exists, it is ready and
\* stays.
LEMMA CreatedIsReady ==
  ASSUME NEW o \in Order, NEW v \in Versions, NEW e \in Event, ConsistentRow(o),
         ~Missing(o) \/ e.type = "ORDER_CREATED"
  PROVE  LET out == HandleEvent(o, v, e)
         IN  out.reasonCode # "ORDER_NOT_READY" /\ ~Missing(out.order)
<1>1. PICK out : out = HandleEvent(o, v, e)
  OBVIOUS
<1>2. Dispatched(o, v, e, out) /\ (Refused(o, v, out) \/ TakesEffect(o, v, e, out))
  BY <1>1, HandleEventDispatches, HandleEventRecords
<1>3. CASE Missing(o)
  <2>1. out = CreateOrder(v, e) /\ o.status = "DOES_NOT_EXIST"
    BY <1>2, <1>3 DEF Dispatched, Missing
  <2>2. out.reasonCode = "APPLIED" /\ out.order.status = "CREATED"
    BY <2>1 DEF CreateOrder, Accept, NoOrder
  <2> QED
    BY <1>1, <2>2 DEF Missing
<1>4. CASE ~Missing(o)
  <2>1. ~Missing(out.order)
    BY <1>2, <1>4 DEF Refused, TakesEffect
  <2>2. out.reasonCode # "ORDER_NOT_READY"
    <3> USE DEF Reject, Accept
    <3>1. CASE out = RejectOrderAlreadyExists(o, v) \/ out = RejectForbiddenTransition(o, v)
      BY <3>1 DEF RejectOrderAlreadyExists, RejectForbiddenTransition
    <3>2. CASE out = UpdateOrderFields(o, v, e)
      BY <1>4, <3>2 DEF UpdateOrderFields
    <3>3. CASE out = CapturePayment(o, v, e)
      BY <1>4, <3>3 DEF CapturePayment, ApplyStatusWhenCurrent, RejectObsoleteStatus
    <3>4. CASE out = CancelOrder(o, v, e)
      BY <1>4, <3>4 DEF CancelOrder, ApplyStatusWhenCurrent, RejectObsoleteStatus
    <3>5. CASE out = IssueRefund(o, v, e)
      BY <1>4, <3>5 DEF IssueRefund, ApplyRefund
    <3> QED
      BY <1>2, <1>4, <3>1, <3>2, <3>3, <3>4, <3>5 DEF Dispatched
  <2> QED
    BY <1>1, <2>1, <2>2
<1> QED
  BY <1>3, <1>4

-----------------------------------------------------------------------------
\* The invariant.

\* The order is told to come into being.
Told == \E e \in Posted : e.type = "ORDER_CREATED"

\* The deliveries that were evaluated on their order, and their events.
Judged == {i \in DOMAIN inbox : \E k \in DecisionsOf(i) : Evaluated(decisions[k])}
SeenEvents == {inbox[i].raw : i \in Judged}

\* No transaction throws, so that no delivery fails.
NothingFails ==
  /\ \A k \in DOMAIN decisions : decisions[k].decision # "FAILED"
  /\ \A p \in Polls : pc[p] # "failing"

\* An event is evaluated or found to be a repetition, and nothing else is.
EventsJudged ==
  \A k \in DOMAIN decisions :
    Valid(decisions[k].rawIncomingEventId) <=>
      Evaluated(decisions[k]) \/ decisions[k].decision = "DUPLICATE"

HoldersValid == \A e \in EventIds : keys[e] # NULL => Valid(keys[e])

\* An order nobody creates does not exist.
Unmade == orders[orderId] = NoOrder /\ versions[orderId] = NoVersions

\* An order that is created meets its events in time: none is put off, a poll that holds
\* any delivery holds all that are open, and the order is what the events seen so far
\* lead to.
NothingWaits == \A i \in DOMAIN inbox : inbox[i].processingStatus # "RETRY"

HoldersJudged == \A e \in EventIds : keys[e] # NULL => keys[e] \in Judged

PollsHoldAll ==
  \A p \in Polls : batch[p] = {} \/ \A i \in Unprocessed : \E x \in batch[p] : x.id = i

CreatedFirst == SeenEvents # {} => ~Missing(orders[orderId])

SeenSoFar ==
  LET state == InTime(Cardinality(SeenEvents), Posted)
  IN  orders[orderId] = state.order /\ versions[orderId] = state.versions

InStep ==
  /\ NothingWaits /\ HoldersJudged /\ PollsHoldAll
  /\ First(SeenEvents, Posted) /\ CreatedFirst /\ SeenSoFar

BatchInv ==
  /\ DeliveryInv
  /\ Orderly(Posted) /\ NothingFails /\ EventsJudged /\ HoldersValid
  /\ IF Told THEN InStep ELSE Unmade

-----------------------------------------------------------------------------
\* What the invariant says of a state.

\* The posted events are about the order, and differ in times and ids.
LEMMA PostedEvents ==
  ASSUME TypeOK, Orderly(Posted)
  PROVE  /\ Timeline(Posted) /\ Posted \subseteq Event
         /\ \A e \in Posted : e.orderId = orderId
         /\ \A e, f \in Posted : e.eventId = f.eventId => e = f
         /\ Told => \E e \in Posted : /\ e.type = "ORDER_CREATED"
                                      /\ \A f \in Posted : e.timestamp <= f.timestamp
<1>1. {raw \in Posted : Validate(raw) = NULL} = Posted
  BY DEF Posted, Valid
<1>2. /\ \A e \in Posted : e.orderId = orderId
      /\ \A e, f \in Posted : e.eventId = f.eventId \/ e.timestamp = f.timestamp => e = f
      /\ Told => \E e \in Posted : /\ e.type = "ORDER_CREATED"
                                   /\ \A f \in Posted : e.timestamp <= f.timestamp
  BY <1>1 DEF Orderly, Told
<1>3. Posted \subseteq Event
  BY ValidIsEvent DEF Posted
<1>4. \A e \in Posted : e.timestamp \in Int
  BY <1>3 DEF Event
<1>5. IsFiniteSet(Posted)
  <2> DEFINE D == {i \in DOMAIN inbox : Valid(i)}
  <2>1. inbox \in Seq(Row)
    BY DEF TypeOK
  <2>2. IsFiniteSet(DOMAIN inbox)
    BY <2>1, LenProperties, FS_Interval
  <2>3. IsFiniteSet(D)
    BY <2>2, FS_Subset
  <2>4. Posted = {inbox[i].raw : i \in D}
    BY DEF Posted
  <2> HIDE DEF D
  <2>5. PICK f : f = [i \in D |-> inbox[i].raw]
    OBVIOUS
  <2>6. f \in Surjection(D, Posted)
    BY <2>4, <2>5 DEF Surjection
  <2> QED
    BY <2>3, <2>6, FS_Surjection
<1> QED
  BY <1>2, <1>3, <1>4, <1>5 DEF Timeline

\* What was evaluated is an event that was posted, and holds its key.
LEMMA JudgedIsPosted ==
  ASSUME DeliveryInv, EventsJudged, NEW i \in Judged
  PROVE  /\ i \in DOMAIN inbox /\ Valid(i) /\ inbox[i].raw \in Posted
         /\ Decided(i) /\ inbox[i].raw.eventId \in EventIds
         /\ keys[inbox[i].raw.eventId] = i
<1>1. PICK k \in DecisionsOf(i) : Evaluated(decisions[k])
  BY DEF Judged
<1>2. i \in DOMAIN inbox /\ k \in DOMAIN decisions /\ decisions[k].rawIncomingEventId = i
  BY <1>1 DEF Judged, DecisionsOf
<1>3. Valid(i)
  BY <1>1, <1>2 DEF EventsJudged
<1>4. keys[inbox[i].raw.eventId] = i
  BY <1>1, <1>2 DEF DeliveryInv, OneDeliveryPerEventId, RawOf
<1>5. inbox[i].raw.eventId \in EventIds
  BY <1>2, <1>3, ValidIsEvent DEF DeliveryInv, IInv, Event
<1> QED
  BY <1>2, <1>3, <1>4, <1>5 DEF Decided, Posted

\* A decision on an event says whether it was evaluated or a repetition.
LEMMA DecidedEvent ==
  ASSUME EventsJudged, NEW i \in DOMAIN inbox, Valid(i), Decided(i)
  PROVE  i \in Judged \/ \E k \in DecisionsOf(i) : decisions[k].decision = "DUPLICATE"
  BY DEF EventsJudged, Decided, Judged, DecisionsOf

\* A repetition has an id that another delivery of the same event holds.
LEMMA RepetitionHasHolder ==
  ASSUME DeliveryInv, Orderly(Posted), HoldersValid,
         NEW i \in DOMAIN inbox, Valid(i),
         NEW k \in DecisionsOf(i), decisions[k].decision = "DUPLICATE"
  PROVE  /\ inbox[i].raw.eventId \in EventIds
         /\ keys[inbox[i].raw.eventId] \in DOMAIN inbox \ {i}
         /\ Valid(keys[inbox[i].raw.eventId])
         /\ inbox[keys[inbox[i].raw.eventId]].raw = inbox[i].raw
<1> DEFINE e == inbox[i].raw.eventId
           h == keys[e]
<1>1. TypeOK
  BY DEF DeliveryInv, IInv
<1>2. e \in EventIds
  BY <1>1, ValidIsEvent DEF Event
<1>3. h \notin {NULL, i}
  <2>1. k \in DOMAIN decisions /\ decisions[k].rawIncomingEventId = i
    BY DEF DecisionsOf
  <2> QED
    BY <2>1 DEF DeliveryInv, OneDeliveryPerEventId, RawOf
<1>4. h \in DOMAIN inbox /\ inbox[h].raw.eventId = e /\ Valid(h)
  BY <1>2, <1>3 DEF DeliveryInv, KeysHeld, HoldersValid
<1>5. inbox[h].raw \in Posted /\ inbox[i].raw \in Posted
  BY <1>4 DEF Posted
<1>6. inbox[h].raw = inbox[i].raw
  BY <1>1, <1>4, <1>5, PostedEvents
<1> QED
  BY <1>2, <1>3, <1>4, <1>6

\* An event that was not seen is still open.
LEMMA UnseenIsOpen ==
  ASSUME BatchInv, HoldersJudged, NEW i \in DOMAIN inbox, Valid(i), inbox[i].raw \notin SeenEvents
  PROVE  i \in Unprocessed
<1>1. /\ DeliveryInv /\ Orderly(Posted) /\ EventsJudged /\ HoldersValid
      /\ TypeOK /\ DoneIffDecided
  BY DEF BatchInv, DeliveryInv, IInv
<1>2. i \notin Judged
  BY DEF SeenEvents
<1>3. ASSUME Decided(i) PROVE FALSE
  <2>1. PICK k \in DecisionsOf(i) : decisions[k].decision = "DUPLICATE"
    BY <1>1, <1>2, <1>3, DecidedEvent
  <2>2. /\ inbox[i].raw.eventId \in EventIds
        /\ keys[inbox[i].raw.eventId] \in DOMAIN inbox
        /\ inbox[keys[inbox[i].raw.eventId]].raw = inbox[i].raw
    BY <1>1, <2>1, RepetitionHasHolder
  <2>3. keys[inbox[i].raw.eventId] # NULL
    BY <2>2, RowOfInbox, <1>1, NullIsNoId
  <2>4. keys[inbox[i].raw.eventId] \in Judged
    BY <2>2, <2>3 DEF HoldersJudged
  <2> QED
    BY <2>2, <2>4 DEF SeenEvents
<1>4. inbox[i].processingStatus # "DONE" /\ inbox[i].processingStatus \in ProcessingStatuses
  BY <1>1, <1>3, RowOfInbox DEF DoneIffDecided, Row
<1> QED
  BY <1>4 DEF Unprocessed, ProcessingStatuses

\* An open event whose id is free was not seen.
LEMMA ClaimantIsUnseen ==
  ASSUME BatchInv, NEW i \in DOMAIN inbox, ~Decided(i), ~ClaimedByAnother(i)
  PROVE  inbox[i].raw \notin SeenEvents
<1> SUFFICES ASSUME inbox[i].raw \in SeenEvents PROVE FALSE
  OBVIOUS
<1>1. PICK j \in Judged : inbox[j].raw = inbox[i].raw
  BY DEF SeenEvents
<1>2. /\ j \in DOMAIN inbox /\ Decided(j)
      /\ keys[inbox[i].raw.eventId] = j
  BY <1>1, JudgedIsPosted DEF BatchInv
<1>3. j # NULL
  BY <1>2, RowOfInbox, NullIsNoId DEF BatchInv, DeliveryInv, IInv
<1> QED
  BY <1>2, <1>3 DEF ClaimedByAnother

\* The delivery a poll takes next, if it claims its id, holds the oldest event that was
\* not seen.
LEMMA ClaimantIsOldest ==
  ASSUME BatchInv, InStep, NEW p \in Polls, NEW x \in batch[p], IsNext(p, x),
         Valid(x.id), ~ClaimedByAnother(x.id)
  PROVE  /\ inbox[x.id].raw \in Posted \ SeenEvents
         /\ \A f \in Posted \ SeenEvents : inbox[x.id].raw.timestamp <= f.timestamp
<1> DEFINE e == inbox[x.id].raw
<1>1. TypeOK /\ IInv /\ Orderly(Posted) /\ HoldersJudged /\ PollsHoldAll
  BY DEF BatchInv, DeliveryInv, IInv, InStep
<1>2. x.id \in DOMAIN inbox /\ ~Decided(x.id)
  BY <1>1, EntryOfBatch
<1>3. e \in Posted
  BY <1>2 DEF Posted
<1>4. e \notin SeenEvents
  BY <1>2, ClaimantIsUnseen
<1>5. ASSUME NEW f \in Posted \ SeenEvents
      PROVE  e.timestamp <= f.timestamp
  <2>1. PICK j \in DOMAIN inbox : Valid(j) /\ f = inbox[j].raw
    BY DEF Posted
  <2>2. j \in Unprocessed
    BY <1>1, <2>1, UnseenIsOpen
  <2>3. PICK y \in batch[p] : y.id = j
    BY <1>1, <2>2 DEF PollsHoldAll
  <2>4. y.id = x.id \/ Precedes(x.id, y.id)
    BY DEF IsNext
  <2>5. e.timestamp \in Int /\ f.timestamp \in Int /\ e.timestamp # NULL /\ f.timestamp # NULL
    BY <1>1, <1>3, PostedEvents, NullAssumption DEF Event
  <2>6. CASE j = x.id
    BY <2>1, <2>5, <2>6
  <2>7. CASE Precedes(x.id, j)
    BY <2>1, <2>5, <2>7 DEF Precedes
  <2> QED
    BY <2>3, <2>4, <2>6, <2>7
<1> QED
  BY <1>3, <1>4, <1>5

\* It finds the order ready, and leads it one event further.
LEMMA ClaimantGoesOn ==
  ASSUME BatchInv, Told, InStep, NEW p \in Polls, NEW x \in batch[p], IsNext(p, x),
         Valid(x.id), ~ClaimedByAnother(x.id)
  PROVE  LET e == inbox[x.id].raw
             out == OutcomeOf(x.id)
             n == Cardinality(SeenEvents)
         IN  /\ e.orderId = orderId /\ e \in Posted
             /\ ~OrderNotReady(x.id) /\ ~Missing(out.order)
             /\ First(SeenEvents \cup {e}, Posted)
             /\ Cardinality(SeenEvents \cup {e}) = n + 1
             /\ [order |-> out.order, versions |-> out.versions] = InTime(n + 1, Posted)
<1>1. PICK e : e = inbox[x.id].raw
  OBVIOUS
<1>2. PICK out : out = OutcomeOf(x.id)
  OBVIOUS
<1>3. PICK n : n = Cardinality(SeenEvents)
  OBVIOUS
<1>4. e \in Posted \ SeenEvents /\ \A f \in Posted \ SeenEvents : e.timestamp <= f.timestamp
  BY <1>1, ClaimantIsOldest
<1>5. /\ TypeOK /\ LedgerConsistent /\ Orderly(Posted)
      /\ First(SeenEvents, Posted) /\ CreatedFirst /\ SeenSoFar
  BY DEF BatchInv, DeliveryInv, IInv, InStep
<1>6. Timeline(Posted) /\ Posted \subseteq Event /\ e.orderId = orderId
  BY <1>4, <1>5, PostedEvents
<1>7. /\ n \in Nat /\ Nth(n + 1, Posted) = e /\ First(SeenEvents \cup {e}, Posted)
      /\ Cardinality(SeenEvents \cup {e}) = n + 1 /\ n + 1 <= Cardinality(Posted)
  BY <1>3, <1>4, <1>5, <1>6, NextInTime
<1>8. out = HandleEvent(orders[orderId], versions[orderId], e)
  BY <1>1, <1>2, <1>6 DEF OutcomeOf
<1>9. PICK state : state = InTime(n, Posted)
  OBVIOUS
<1>10. orders[orderId] = state.order /\ versions[orderId] = state.versions
  BY <1>3, <1>5, <1>9 DEF SeenSoFar
<1>11. InTime(n + 1, Posted) = [order |-> out.order, versions |-> out.versions]
  <2>1. n + 1 \in 1..Cardinality(Posted) /\ (n + 1) - 1 = n
    BY <1>6, <1>7, NthExists
  <2>2. InTime(n + 1, Posted) = Handled(state, e)
    BY <1>6, <1>7, <1>9, <2>1, InTimeSteps
  <2> QED
    BY <1>8, <1>10, <2>2 DEF Handled
<1>12. ~Missing(orders[orderId]) \/ e.type = "ORDER_CREATED"
  <2>1. CASE SeenEvents # {}
    BY <1>5, <2>1 DEF CreatedFirst
  <2>2. CASE SeenEvents = {}
    <3>1. PICK f \in Posted : /\ f.type = "ORDER_CREATED"
                              /\ \A g \in Posted : f.timestamp <= g.timestamp
      BY <1>5, PostedEvents
    <3>2. e.timestamp <= f.timestamp /\ f.timestamp <= e.timestamp
      BY <1>4, <2>2, <3>1
    <3>3. e.timestamp \in Int /\ f.timestamp \in Int
      BY <1>4, <1>6 DEF Timeline
    <3>4. e.timestamp = f.timestamp
      BY <3>2, <3>3
    <3>5. e = f
      BY <1>4, <1>6, <3>4 DEF Timeline
    <3> QED
      BY <3>1, <3>5
  <2> QED
    BY <2>1, <2>2
<1>13. out.reasonCode # "ORDER_NOT_READY" /\ ~Missing(out.order)
  <2>1. /\ orders[orderId] \in Order /\ versions[orderId] \in Versions
        /\ ConsistentRow(orders[orderId])
    BY <1>5, BatchesAssumption DEF TypeOK, LedgerConsistent
  <2>2. e \in Event
    BY <1>4, <1>6
  <2> QED
    BY <1>8, <1>12, <2>1, <2>2, CreatedIsReady
<1> QED
  BY <1>1, <1>2, <1>3, <1>4, <1>6, <1>7, <1>11, <1>13 DEF OrderNotReady

-----------------------------------------------------------------------------
\* Steps.

\* The page's request is one of POST /api/events.
LEMMA RearrangedItems ==
  ASSUME NEW items \in Batches, NEW posted \in Orderings(items)
  PROVE  /\ Len(items) \in Nat /\ posted \in [1..Len(items) -> RawEvents]
         /\ {posted[k] : k \in 1..Len(items)} = Range(items)
         /\ Len(items) \in 1..MaxBatch /\ Len(items) <= MaxDeliveries
         /\ Orderly(Range(items))
<1>1. /\ items \in Seq(RawEvents) /\ Len(items) \in 1..MaxBatch
      /\ Len(items) <= MaxDeliveries /\ Orderly(Range(items))
  BY BatchesAssumption
<1>2. /\ Len(items) \in Nat /\ DOMAIN items = 1..Len(items)
      /\ items \in [1..Len(items) -> RawEvents]
  BY <1>1, LenProperties
<1>3. Range(items) = {items[k] : k \in 1..Len(items)} /\ Range(items) \subseteq RawEvents
  BY <1>2 DEF Range
<1>4. posted \in [1..Len(items) -> Range(items)]
  BY <1>2 DEF Orderings
<1>5. ASSUME NEW raw \in Range(items)
      PROVE  \E k \in 1..Len(items) : posted[k] = raw
  <2> DEFINE A == {k \in 1..Len(items) : posted[k] = raw}
             B == {k \in 1..Len(items) : items[k] = raw}
  <2>1. Cardinality(A) = Cardinality(B)
    BY <1>2 DEF Orderings
  <2>2. IsFiniteSet(1..Len(items))
    BY <1>2, FS_Interval
  <2>3. IsFiniteSet(A) /\ IsFiniteSet(B)
    BY <2>2, FS_Subset
  <2>4. B # {}
    BY <1>3
  <2>5. Cardinality(B) # 0
    <3> HIDE DEF B
    <3> QED
      BY <2>3, <2>4, FS_EmptySet
  <2>6. A # {}
    <3> HIDE DEF A, B
    <3> QED
      BY <2>1, <2>5, FS_EmptySet
  <2> QED
    BY <2>6
<1> QED
  BY <1>1, <1>2, <1>3, <1>4, <1>5

\* What sending a batch stores.
LEMMA SendStores ==
  ASSUME SendScenario
  PROVE  /\ EnqueueBatch /\ phase = "serving" /\ inbox = <<>>
         /\ \E items \in Batches :
              /\ Orderly(Range(items))
              /\ {inbox'[i].raw : i \in DOMAIN inbox'} = Range(items)
         /\ \A i \in DOMAIN inbox' : inbox'[i].processingStatus = "PENDING"
         /\ UNCHANGED <<keys, orders, versions, decisions, stats, worker>>
<1>0. PICK items \in Batches : \E posted \in Orderings(items) :
        inbox' = [k \in DOMAIN posted |-> CreateRawIncomingEvent(posted[k])]
  BY DEF SendScenario
<1>1. PICK posted \in Orderings(items) :
        inbox' = [k \in DOMAIN posted |-> CreateRawIncomingEvent(posted[k])]
  BY <1>0
<1>2. PICK n : n = Len(items)
  OBVIOUS
<1>3. /\ n \in Nat /\ posted \in [1..n -> RawEvents]
      /\ {posted[k] : k \in 1..n} = Range(items)
      /\ n \in 1..MaxBatch /\ n <= MaxDeliveries
      /\ Orderly(Range(items))
  BY <1>2, RearrangedItems
<1>4. PICK new : new = [k \in 1..n |-> CreateRawIncomingEvent(posted[k])]
  OBVIOUS
<1>5. inbox' = new
  BY <1>1, <1>3, <1>4
<1>6. inbox = <<>> /\ Len(inbox) = 0
  BY DEF SendScenario
<1>7. inbox \o new = new
  <2>1. new \in Seq({new[k] : k \in 1..n})
    BY <1>3, <1>4, IsASeq
  <2> QED
    BY <1>6, <2>1, ConcatEmptySeq
<1>8. EnqueueBatch
  <2>1. Len(inbox) + n <= MaxDeliveries
    BY <1>3, <1>6
  <2> QED
    BY <1>3, <1>4, <1>5, <1>7, <2>1 DEF EnqueueBatch, SendScenario
<1>9. DOMAIN inbox' = 1..n /\ \A k \in 1..n : /\ inbox'[k].raw = posted[k]
                                             /\ inbox'[k].processingStatus = "PENDING"
  BY <1>4, <1>5 DEF CreateRawIncomingEvent
<1>10. {inbox'[i].raw : i \in DOMAIN inbox'} = Range(items)
  BY <1>3, <1>9
<1> QED
  BY <1>3, <1>6, <1>8, <1>9, <1>10 DEF SendScenario

LEMMA ScenarioIsEngine == [ScenarioNext]_vars => [Next]_vars
  BY SendStores DEF ScenarioNext, Next, Poll

\* As long as no item is added, the events are the same.
LEMMA ItemsKept ==
  ASSUME HistoryKept, DOMAIN inbox' = DOMAIN inbox
  PROVE  /\ \A i \in DOMAIN inbox : inbox'[i].raw = inbox[i].raw
         /\ \A i \in DOMAIN inbox : Valid(i)' <=> Valid(i)
         /\ Posted' = Posted /\ (Told' <=> Told)
<1>1. \A i \in DOMAIN inbox : inbox'[i].raw = inbox[i].raw
  BY DEF HistoryKept
<1>2. \A i \in DOMAIN inbox : Valid(i)' <=> Valid(i)
  BY <1>1 DEF Valid
<1>3. Posted' = Posted
  BY <1>1, <1>2 DEF Posted
<1> QED
  BY <1>1, <1>2, <1>3 DEF Told

\* As long as the log stays, what was evaluated is the same.
LEMMA JudgedKept ==
  ASSUME HistoryKept, DOMAIN inbox' = DOMAIN inbox, UNCHANGED decisions
  PROVE  Judged' = Judged /\ SeenEvents' = SeenEvents
<1>1. Judged' = Judged
  BY DEF Judged, DecisionsOf, Evaluated, Applied
<1> QED
  BY <1>1, ItemsKept DEF SeenEvents, Judged

\* Keys stay with events.
LEMMA HoldersStayValid ==
  ASSUME TypeOK, KeysHeld, HoldersValid, HistoryKept, DOMAIN inbox' = DOMAIN inbox,
         UNCHANGED keys \/ \E i \in DOMAIN inbox : Claims(i)
  PROVE  HoldersValid'
<1> SUFFICES ASSUME NEW e \in EventIds, keys'[e] # NULL PROVE Valid(keys[e])'
  BY DEF HoldersValid
<1>1. PICK h : h = keys'[e]
  OBVIOUS
<1>2. h \in DOMAIN inbox /\ Valid(h)
  <2>1. CASE h = keys[e]
    BY <1>1, <2>1 DEF HoldersValid, KeysHeld
  <2>2. CASE h # keys[e]
    <3>1. PICK i \in DOMAIN inbox : Claims(i)
      BY <1>1, <2>2
    <3>2. h = i
      BY <1>1, <2>2, <3>1, ClaimTakes
    <3> QED
      BY <3>1, <3>2 DEF Claims
  <2> QED
    BY <2>1, <2>2
<1>3. Valid(h)'
  BY <1>2, ItemsKept
<1> QED
  BY <1>1, <1>3 DEF Valid

\* A step that decides nothing.
LEMMA UndecidingKeeps ==
  ASSUME BatchInv, [Next]_vars, DOMAIN inbox' = DOMAIN inbox,
         UNCHANGED <<orders, versions, decisions>>,
         UNCHANGED keys \/ \E i \in DOMAIN inbox : Claims(i),
         \A p \in Polls : pc'[p] # "failing",
         Told => UNCHANGED keys /\ NothingWaits' /\ PollsHoldAll'
  PROVE  BatchInv'
<1>1. /\ DeliveryInv /\ Orderly(Posted) /\ NothingFails /\ EventsJudged /\ HoldersValid
      /\ TypeOK /\ KeysHeld /\ DoneIffDecided
  BY DEF BatchInv, DeliveryInv, IInv
<1>2. DeliveryInv' /\ HistoryKept
  BY <1>1, DeliveryStep, StepKeepsHistory DEF DeliveryInv
<1>3. /\ Posted' = Posted /\ (Told' <=> Told) /\ Judged' = Judged /\ SeenEvents' = SeenEvents
      /\ \A i \in DOMAIN inbox : Valid(i)' <=> Valid(i)
  BY <1>2, ItemsKept, JudgedKept
<1>4. Orderly(Posted)'
  BY <1>1, <1>3 DEF Orderly
<1>5. NothingFails'
  BY <1>1 DEF NothingFails
<1>6. EventsJudged'
  <2> SUFFICES ASSUME NEW k \in DOMAIN decisions
               PROVE  Valid(decisions[k].rawIncomingEventId)' <=>
                        Evaluated(decisions[k])' \/ decisions'[k].decision = "DUPLICATE"
    BY DEF EventsJudged
  <2>1. PICK i : i = decisions[k].rawIncomingEventId
    OBVIOUS
  <2>2. i \in DOMAIN inbox
    BY <1>1, <2>1 DEF DoneIffDecided
  <2>3. Valid(i) <=> Evaluated(decisions[k]) \/ decisions[k].decision = "DUPLICATE"
    BY <1>1, <2>1 DEF EventsJudged
  <2>4. Valid(decisions[k].rawIncomingEventId)' <=> Valid(i)'
    BY <2>1 DEF Valid
  <2> QED
    BY <1>3, <2>2, <2>3, <2>4 DEF Evaluated, Applied
<1>7. HoldersValid'
  BY <1>1, <1>2, HoldersStayValid
<1>8. CASE Told
  <2>1. InStep
    BY <1>8 DEF BatchInv
  <2>2. HoldersJudged'
    BY <1>3, <1>8, <2>1 DEF InStep, HoldersJudged
  <2>3. First(SeenEvents, Posted)'
    BY <1>3, <2>1 DEF InStep, First
  <2>4. CreatedFirst'
    BY <1>3, <2>1 DEF InStep, CreatedFirst, Missing
  <2>5. SeenSoFar'
    <3>1. PICK state : state = InTime(Cardinality(SeenEvents), Posted)
      OBVIOUS
    <3>2. InTime(Cardinality(SeenEvents), Posted)' = state
      BY <1>3, <3>1 DEF InTime
    <3> QED
      BY <2>1, <3>1, <3>2 DEF InStep, SeenSoFar
  <2>6. InStep'
    BY <1>8, <2>2, <2>3, <2>4, <2>5 DEF InStep
  <2> QED
    BY <1>2, <1>3, <1>4, <1>5, <1>6, <1>7, <1>8, <2>6 DEF BatchInv
<1>9. CASE ~Told
  <2>1. Unmade'
    BY <1>9 DEF BatchInv, Unmade
  <2> QED
    BY <1>2, <1>3, <1>4, <1>5, <1>6, <1>7, <1>9, <2>1 DEF BatchInv
<1> QED
  BY <1>8, <1>9

\* A decision adds its delivery to those evaluated, or leaves them as they were.
LEMMA DecisionJudges ==
  ASSUME IInv, EventsJudged, HistoryKept, NEW i \in DOMAIN inbox,
         NEW d \in Decision, NEW r \in Row, DecidedBy(i, d, r), d.decision # "FAILED"
  PROVE  /\ Judged' = IF Evaluated(d) THEN Judged \cup {i} ELSE Judged
         /\ SeenEvents' = IF Evaluated(d) THEN SeenEvents \cup {inbox[i].raw} ELSE SeenEvents
         /\ EventsJudged'
<1>1. PICK n : n = Len(decisions) + 1
  OBVIOUS
<1>2. /\ n \in Nat /\ DOMAIN decisions' = DOMAIN decisions \cup {n}
      /\ n \notin DOMAIN decisions
      /\ decisions'[n] = d /\ \A k \in DOMAIN decisions : decisions'[k] = decisions[k]
      /\ d.rawIncomingEventId = i
      /\ DOMAIN inbox' = DOMAIN inbox
  BY <1>1 DEF DecidedBy, Logged, RowBecomes
<1>3. /\ \A j \in DOMAIN inbox : inbox'[j].raw = inbox[j].raw
      /\ \A j \in DOMAIN inbox : Valid(j)' <=> Valid(j)
  BY <1>2, ItemsKept
<1>4. ASSUME NEW j \in DOMAIN inbox
      PROVE  j \in Judged' <=> j \in Judged \/ (j = i /\ Evaluated(d))
  <2>1. j \in Judged <=>
          \E k \in DOMAIN decisions : /\ decisions[k].rawIncomingEventId = j
                                      /\ Evaluated(decisions[k])
    BY DEF Judged, DecisionsOf
  <2>2. j \in Judged' <=>
          \E k \in DOMAIN decisions' : /\ decisions'[k].rawIncomingEventId = j
                                       /\ Evaluated(decisions'[k])
    BY <1>2 DEF Judged, DecisionsOf, Evaluated, Applied
  <2>3. (\E k \in DOMAIN decisions' : /\ decisions'[k].rawIncomingEventId = j
                                      /\ Evaluated(decisions'[k]))
        <=> \/ \E k \in DOMAIN decisions : /\ decisions[k].rawIncomingEventId = j
                                           /\ Evaluated(decisions[k])
            \/ i = j /\ Evaluated(d)
    BY <1>2
  <2> QED
    BY <2>1, <2>2, <2>3
<1>5. Judged \subseteq DOMAIN inbox /\ Judged' \subseteq DOMAIN inbox
  BY <1>2 DEF Judged
<1>6. Judged' = IF Evaluated(d) THEN Judged \cup {i} ELSE Judged
  BY <1>4, <1>5
<1>7. SeenEvents' = IF Evaluated(d) THEN SeenEvents \cup {inbox[i].raw} ELSE SeenEvents
  <2>1. SeenEvents' = {inbox[j].raw : j \in Judged'}
    BY <1>3, <1>5 DEF SeenEvents
  <2> QED
    BY <1>6, <2>1 DEF SeenEvents
<1>8. EventsJudged'
  <2>1. Valid(i) <=> Evaluated(d) \/ d.decision = "DUPLICATE"
    <3>1. CASE FoundInvalid(i, d, r)
      BY <3>1 DEF FoundInvalid, Evaluated, Applied
    <3>2. CASE FoundDuplicate(i, d, r)
      BY <3>2 DEF FoundDuplicate
    <3>3. CASE OrderAsked(i, d, r)
      BY <3>3 DEF OrderAsked, Claims
    <3> QED
      BY <3>1, <3>2, <3>3 DEF DecidedBy, GivenUp
  <2> SUFFICES ASSUME NEW k \in DOMAIN decisions'
               PROVE  Valid(decisions[k].rawIncomingEventId)' <=>
                        Evaluated(decisions[k])' \/ decisions'[k].decision = "DUPLICATE"
    BY DEF EventsJudged
  <2>2. PICK c : c = decisions'[k]
    OBVIOUS
  <2>3. PICK j : j = c.rawIncomingEventId
    OBVIOUS
  <2>4. j \in DOMAIN inbox /\ (Valid(j) <=> Evaluated(c) \/ c.decision = "DUPLICATE")
    <3>1. CASE k = n
      BY <1>2, <2>1, <2>2, <2>3, <3>1
    <3>2. CASE k \in DOMAIN decisions
      <4>1. c = decisions[k]
        BY <1>2, <2>2, <3>2
      <4> QED
        BY <2>3, <3>2, <4>1 DEF IInv, DoneIffDecided, EventsJudged
    <3> QED
      BY <1>2, <3>1, <3>2
  <2>5. Valid(decisions[k].rawIncomingEventId)' <=> Valid(j)'
    BY <2>2, <2>3 DEF Valid
  <2> QED
    BY <1>3, <2>2, <2>4, <2>5 DEF Evaluated, Applied
<1> QED
  BY <1>6, <1>7, <1>8

\* The decision on the next delivery of a poll keeps the order in step.
LEMMA DecisionKeepsStep ==
  ASSUME BatchInv, Told, InStep, HistoryKept,
         NEW p \in Polls, pc[p] = "processing", NEW x \in batch[p], IsNext(p, x),
         batch' = [batch EXCEPT ![p] = @ \ {x}],
         NEW i \in DOMAIN inbox, i = x.id,
         NEW d \in Decision, NEW r \in Row, DecidedBy(i, d, r), d.decision # "FAILED"
  PROVE  InStep'
<1>1. /\ IInv /\ TypeOK /\ EventsJudged /\ KeysHeld /\ HoldersJudged /\ NothingWaits
      /\ PollsHoldAll /\ First(SeenEvents, Posted) /\ CreatedFirst /\ SeenSoFar
  BY DEF BatchInv, DeliveryInv, IInv, InStep
<1>2. /\ DOMAIN inbox' = DOMAIN inbox /\ inbox'[i] = r /\ r.processingStatus = "DONE"
      /\ \A j \in DOMAIN inbox : j # i => inbox'[j] = inbox[j]
  BY DEF DecidedBy, RowBecomes
<1>3. /\ Judged' = IF Evaluated(d) THEN Judged \cup {i} ELSE Judged
      /\ SeenEvents' = IF Evaluated(d) THEN SeenEvents \cup {inbox[i].raw} ELSE SeenEvents
      /\ Posted' = Posted
  BY <1>1, <1>2, DecisionJudges, ItemsKept
<1>4. NothingWaits'
  BY <1>1, <1>2 DEF NothingWaits
<1>5. PollsHoldAll'
  <2>1. Unprocessed' = Unprocessed \ {i}
    BY <1>2 DEF Unprocessed
  <2>2. DOMAIN batch = Polls
    BY <1>1 DEF TypeOK
  <2>3. ASSUME NEW q \in Polls, batch'[q] # {}, NEW j \in Unprocessed \ {i}
        PROVE  \E y \in batch'[q] : y.id = j
    <3>1. CASE q = p
      <4>1. PICK y \in batch[p] : y.id = j
        BY <1>1, <2>3 DEF PollsHoldAll
      <4>2. y # x
        BY <2>3, <4>1
      <4>3. batch'[p] = batch[p] \ {x}
        BY <2>2
      <4> QED
        BY <3>1, <4>1, <4>2, <4>3
    <3>2. CASE q # p
      <4>1. batch'[q] = batch[q]
        BY <2>2, <3>2
      <4>2. pc[q] = "idle"
        BY <1>1, <3>2 DEF IInv, PollSnapshotsFresh
      <4>3. batch[q] = {}
        BY <1>1, <4>2 DEF IInv, IdleHoldsNothing
      <4> QED
        BY <2>3, <4>1, <4>3
    <3> QED
      BY <3>1, <3>2
  <2> QED
    BY <2>1, <2>3 DEF PollsHoldAll
<1>6. CASE ~Evaluated(d)
  <2>1. UNCHANGED <<keys, orders, versions>>
    BY <1>6 DEF DecidedBy, OrderAsked
  <2>2. SeenEvents' = SeenEvents /\ Judged' = Judged
    BY <1>3, <1>6
  <2>3. HoldersJudged'
    BY <1>1, <2>1, <2>2 DEF HoldersJudged
  <2>4. First(SeenEvents, Posted)'
    BY <1>1, <1>3, <2>2 DEF First
  <2>5. CreatedFirst'
    BY <1>1, <2>1, <2>2 DEF CreatedFirst, Missing
  <2>6. SeenSoFar'
    <3>1. PICK state : state = InTime(Cardinality(SeenEvents), Posted)
      OBVIOUS
    <3>2. InTime(Cardinality(SeenEvents), Posted)' = state
      BY <1>3, <2>2, <3>1 DEF InTime
    <3> QED
      BY <1>1, <2>1, <3>1, <3>2 DEF SeenSoFar
  <2> QED
    BY <1>4, <1>5, <2>3, <2>4, <2>5, <2>6 DEF InStep
<1>7. CASE Evaluated(d)
  <2>1. OrderAsked(i, d, r)
    BY <1>7 DEF DecidedBy, GivenUp, FoundInvalid, FoundDuplicate, Evaluated, Applied
  <2>2. Claims(i) /\ Valid(i) /\ ~ClaimedByAnother(i)
    BY <2>1 DEF OrderAsked, Claims
  <2>3. PICK e : e = inbox[i].raw
    OBVIOUS
  <2>4. PICK out : out = OutcomeOf(i)
    OBVIOUS
  <2>5. PICK n : n = Cardinality(SeenEvents)
    OBVIOUS
  <2>6. /\ e.orderId = orderId /\ e \in Posted
        /\ ~Missing(out.order)
        /\ First(SeenEvents \cup {e}, Posted)
        /\ Cardinality(SeenEvents \cup {e}) = n + 1
        /\ [order |-> out.order, versions |-> out.versions] = InTime(n + 1, Posted)
    BY <2>2, <2>3, <2>4, <2>5, ClaimantGoesOn
  <2>7. orders'[orderId] = out.order /\ versions'[orderId] = out.versions
    <3>1. orders' = [orders EXCEPT ![orderId] = out.order]
      BY <2>1, <2>3, <2>4, <2>6 DEF OrderAsked
    <3>2. versions' = [versions EXCEPT ![orderId] = out.versions]
      BY <2>1, <2>3, <2>4, <2>6 DEF OrderAsked
    <3> QED
      BY <1>1, <3>1, <3>2, BatchesAssumption DEF TypeOK
  <2>8. Judged' = Judged \cup {i} /\ SeenEvents' = SeenEvents \cup {e}
    BY <1>3, <1>7, <2>3
  <2>9. HoldersJudged'
    <3> SUFFICES ASSUME NEW k \in EventIds, keys'[k] # NULL PROVE keys'[k] \in Judged'
      BY DEF HoldersJudged
    <3>1. keys'[k] = i \/ keys'[k] = keys[k]
      BY <1>1, <2>2, ClaimTakes
    <3> QED
      BY <1>1, <2>8, <3>1 DEF HoldersJudged
  <2>10. First(SeenEvents, Posted)'
    BY <1>3, <2>6, <2>8 DEF First
  <2>11. CreatedFirst'
    BY <2>6, <2>7 DEF CreatedFirst, Missing
  <2>12. SeenSoFar'
    <3>1. PICK state : state = InTime(n + 1, Posted)
      OBVIOUS
    <3>2. state.order = out.order /\ state.versions = out.versions
      BY <2>6, <3>1
    <3>3. Cardinality(SeenEvents) ' = n + 1
      BY <2>6, <2>8
    <3>4. InTime(Cardinality(SeenEvents), Posted)' = state
      BY <1>3, <3>1, <3>3 DEF InTime
    <3> QED
      BY <2>7, <3>2, <3>4 DEF SeenSoFar
  <2> QED
    BY <1>4, <1>5, <2>9, <2>10, <2>11, <2>12 DEF InStep
<1> QED
  BY <1>6, <1>7

\* A decision on the next delivery of a poll keeps the invariant.
LEMMA DecisionKeeps ==
  ASSUME BatchInv, [Next]_vars, UNCHANGED pc,
         NEW p \in Polls, pc[p] = "processing", NEW x \in batch[p], IsNext(p, x),
         batch' = [batch EXCEPT ![p] = @ \ {x}],
         NEW i \in DOMAIN inbox, i = x.id,
         NEW d \in Decision, NEW r \in Row, DecidedBy(i, d, r), d.decision # "FAILED"
  PROVE  BatchInv'
<1>1. /\ DeliveryInv /\ Orderly(Posted) /\ NothingFails /\ EventsJudged /\ HoldersValid
      /\ IInv /\ TypeOK /\ OnlyRetriesWait /\ KeysHeld
  BY DEF BatchInv, DeliveryInv, IInv
<1>2. DeliveryInv' /\ HistoryKept /\ DOMAIN inbox' = DOMAIN inbox
  <2>1. DeliveryInv'
    BY <1>1, DeliveryStep
  <2>2. HistoryKept
    BY <1>1, StepKeepsHistory
  <2> QED
    BY <2>1, <2>2 DEF DecidedBy, RowBecomes
<1>3. Posted' = Posted /\ (Told' <=> Told)
  BY <1>2, ItemsKept
<1>4. Orderly(Posted)'
  BY <1>1, <1>3 DEF Orderly
<1>5. NothingFails'
  BY <1>1 DEF NothingFails, DecidedBy, Logged
<1>6. EventsJudged'
  BY <1>1, <1>2, DecisionJudges
<1>7. HoldersValid'
  <2>1. UNCHANGED keys \/ Claims(i)
    BY DEF DecidedBy, OrderAsked
  <2> QED
    BY <1>1, <1>2, <2>1, HoldersStayValid
<1>8. CASE Told
  <2>1. InStep
    BY <1>8 DEF BatchInv
  <2>2. InStep'
    BY <1>2, <1>8, <2>1, DecisionKeepsStep
  <2> QED
    BY <1>2, <1>3, <1>4, <1>5, <1>6, <1>7, <1>8, <2>2 DEF BatchInv
<1>9. CASE ~Told
  <2>1. Unmade
    BY <1>9 DEF BatchInv
  <2>2. Unmade'
    <3>1. CASE OrderAsked(i, d, r)
      <4>1. PICK e : e = inbox[i].raw
        OBVIOUS
      <4>2. e \in Posted
        BY <3>1, <4>1 DEF OrderAsked, Claims, Posted
      <4>3. e.orderId = orderId /\ e \in Event /\ e.type # "ORDER_CREATED"
        BY <1>1, <1>9, <4>2, PostedEvents DEF Told
      <4>4. PICK out : out = OutcomeOf(i)
        OBVIOUS
      <4>5. out.order = NoOrder /\ out.versions = NoVersions
        BY <2>1, <4>1, <4>3, <4>4, UncreatedIsRefused DEF OutcomeOf, Unmade
      <4>6. /\ orders' = [orders EXCEPT ![orderId] = NoOrder]
            /\ versions' = [versions EXCEPT ![orderId] = NoVersions]
        BY <3>1, <4>1, <4>3, <4>4, <4>5 DEF OrderAsked
      <4> QED
        BY <1>1, <4>6, BatchesAssumption DEF TypeOK, Unmade
    <3>2. CASE UNCHANGED <<orders, versions>>
      BY <2>1, <3>2 DEF Unmade
    <3> QED
      BY <3>1, <3>2 DEF DecidedBy
  <2> QED
    BY <1>2, <1>3, <1>4, <1>5, <1>6, <1>7, <1>9, <2>2 DEF BatchInv
<1> QED
  BY <1>8, <1>9

\* A step of a poll or of the process that leaves the database alone.
LEMMA WorkerKeeps ==
  ASSUME BatchInv, [Next]_vars, UNCHANGED database,
         \A p \in Polls : pc'[p] # "failing",
         Told => \A p \in Polls : \/ batch'[p] \in {batch[p], {}}
                                  \/ \A i \in Unprocessed : \E x \in batch'[p] : x.id = i
  PROVE  BatchInv'
<1>1. UNCHANGED <<inbox, keys, orders, versions, decisions>>
  BY DEF database
<1>2. Unprocessed' = Unprocessed
  BY <1>1 DEF Unprocessed
<1>3. ASSUME Told PROVE NothingWaits' /\ PollsHoldAll'
  <2>1. NothingWaits /\ PollsHoldAll
    BY <1>3 DEF BatchInv, InStep
  <2>2. NothingWaits'
    BY <1>1, <2>1 DEF NothingWaits
  <2>3. PollsHoldAll'
    BY <1>2, <1>3, <2>1 DEF PollsHoldAll
  <2> QED
    BY <2>2, <2>3
<1> QED
  BY <1>1, <1>3, UndecidingKeeps

\* The delay of a delivery passes: the order is never created.
LEMMA DelayKeepsBatch ==
  ASSUME BatchInv, [Next]_vars, NEW i \in DOMAIN inbox, RetryDelayElapses(i)
  PROVE  BatchInv'
<1>1. TypeOK /\ OnlyRetriesWait /\ NothingFails
  BY DEF BatchInv, DeliveryInv, IInv
<1>2. DelayPassed(i)
  BY <1>1, DelayPasses
<1>3. inbox[i].processingStatus = "RETRY"
  BY <1>1, <1>2 DEF DelayPassed, OnlyRetriesWait
<1>4. ~Told
  BY <1>3 DEF BatchInv, InStep, NothingWaits
<1>5. /\ DOMAIN inbox' = DOMAIN inbox
      /\ UNCHANGED <<keys, orders, versions, decisions>>
  BY <1>2 DEF DelayPassed, RowBecomes
<1>6. \A p \in Polls : pc'[p] # "failing"
  BY <1>1 DEF RetryDelayElapses, worker, NothingFails
<1> QED
  BY <1>4, <1>5, <1>6, UndecidingKeeps

\* The process or a poll starts, stops or filters its rows.
LEMMA PollingKeeps ==
  ASSUME BatchInv, [Next]_vars,
         \/ Boot \/ Crash \/ UNCHANGED vars
         \/ \E p \in Polls : StartPoll(p) \/ FilterAvailableEvents(p) \/ EndPoll(p)
  PROVE  BatchInv'
<1>1. TypeOK /\ OnlyRetriesWait /\ NothingFails /\ PollSnapshotsFresh
  BY DEF BatchInv, DeliveryInv, IInv
<1>2. UNCHANGED database
  BY DEF Boot, Crash, vars, StartPoll, FilterAvailableEvents, EndPoll
<1>3. DOMAIN batch = Polls /\ DOMAIN pc = Polls
  BY <1>1 DEF TypeOK
<1>4. \A p \in Polls : pc'[p] # "failing"
  BY <1>1, <1>3 DEF Boot, Crash, vars, worker, StartPoll, FilterAvailableEvents, EndPoll,
                    NothingFails
<1>5. ASSUME Told, NEW p \in Polls
      PROVE  \/ batch'[p] \in {batch[p], {}}
             \/ \A i \in Unprocessed : \E x \in batch'[p] : x.id = i
  <2>1. CASE Boot \/ Crash \/ UNCHANGED vars
    BY <2>1 DEF Boot, Crash, vars, worker
  <2>2. CASE \E q \in Polls : StartPoll(q)
    <3>1. PICK q \in Polls : StartPoll(q)
      BY <2>2
    <3>2. batch' = [batch EXCEPT
            ![q] = {[id |-> i, attempts |-> inbox[i].attempts] : i \in Unprocessed}]
      BY <3>1 DEF StartPoll
    <3>3. CASE p # q
      BY <1>3, <3>2, <3>3
    <3>4. CASE p = q
      <4>1. batch'[p] = {[id |-> i, attempts |-> inbox[i].attempts] : i \in Unprocessed}
        BY <1>3, <3>2, <3>4
      <4>2. ASSUME NEW i \in Unprocessed PROVE \E x \in batch'[p] : x.id = i
        <5>1. [id |-> i, attempts |-> inbox[i].attempts] \in batch'[p]
          BY <4>1
        <5> QED
          BY <5>1
      <4> QED
        BY <4>2
    <3> QED
      BY <3>3, <3>4
  <2>3. CASE \E q \in Polls : FilterAvailableEvents(q)
    <3>1. PICK q \in Polls : FilterAvailableEvents(q)
      BY <2>3
    <3>2. NothingWaits
      BY <1>5 DEF BatchInv, InStep
    <3>3. \A x \in batch[q] : inbox[x.id].due
      BY <1>1, <3>2 DEF PollSnapshotsFresh, OnlyRetriesWait, NothingWaits, Unprocessed
    <3>4. batch' = [batch EXCEPT ![q] = {x \in @ : inbox[x.id].due}]
      BY <3>1 DEF FilterAvailableEvents
    <3>5. batch'[p] = batch[p]
      BY <1>3, <3>3, <3>4
    <3> QED
      BY <3>5
  <2>4. CASE \E q \in Polls : EndPoll(q)
    BY <2>4 DEF EndPoll
  <2> QED
    BY <2>1, <2>2, <2>3, <2>4
<1> QED
  BY <1>2, <1>4, <1>5, WorkerKeeps

\* A poll processes its next delivery.
LEMMA ProcessingKeeps ==
  ASSUME BatchInv, [Next]_vars, NEW p \in Polls, ProcessEvent(p)
  PROVE  BatchInv'
<1>1. IInv /\ TypeOK /\ LedgerConsistent /\ NothingFails
  BY DEF BatchInv, DeliveryInv, IInv
<1>2. PICK x \in batch[p] :
        /\ IsNext(p, x) /\ batch' = [batch EXCEPT ![p] = @ \ {x}]
        /\ IF Decided(x.id) THEN UNCHANGED database ELSE ProcessingActions(x)
  BY DEF ProcessEvent, ProcessingActions
<1>3. pc[p] = "processing" /\ UNCHANGED pc
  BY DEF ProcessEvent
<1>4. PICK i : i = x.id
  OBVIOUS
<1>5. /\ x \in Entry /\ i \in DOMAIN inbox
      /\ Workable(i) /\ x.attempts = inbox[i].attempts
  BY <1>1, <1>3, <1>4, EntryIsWorkable
<1>6. Processed(i)
  BY <1>2, <1>4, <1>5 DEF Processed, Workable
<1>7. CASE \E r \in Row : PutOff(i, r) /\ Claims(i) /\ OrderNotReady(i)
  <2>1. PICK r \in Row : PutOff(i, r) /\ Claims(i) /\ OrderNotReady(i)
    BY <1>7
  <2>2. ASSUME Told PROVE FALSE
    <3>1. InStep
      BY <2>2 DEF BatchInv
    <3>2. Valid(x.id) /\ ~ClaimedByAnother(x.id) /\ OrderNotReady(x.id)
      BY <1>4, <2>1 DEF Claims
    <3> QED
      BY <1>2, <2>2, <3>1, <3>2, ClaimantGoesOn
  <2>3. /\ DOMAIN inbox' = DOMAIN inbox
        /\ UNCHANGED <<orders, versions, decisions>>
    BY <2>1 DEF PutOff, RowBecomes
  <2>4. \A q \in Polls : pc'[q] # "failing"
    BY <1>1, <1>3 DEF NothingFails
  <2> QED
    BY <1>5, <2>1, <2>2, <2>3, <2>4, UndecidingKeeps
<1>8. CASE \E d \in Decision, r \in Row : DecidedBy(i, d, r) /\ d.decision # "FAILED"
  <2>1. PICK d \in Decision, r \in Row : DecidedBy(i, d, r) /\ d.decision # "FAILED"
    BY <1>8
  <2> QED
    BY <1>2, <1>3, <1>4, <1>5, <2>1, DecisionKeeps
<1> QED
  BY <1>1, <1>5, <1>6, <1>7, <1>8, ProcessedCases

\* Where nothing is stored, nothing has happened.
LEMMA NothingStored ==
  ASSUME BatchInv, DOMAIN inbox = {}
  PROVE  /\ DOMAIN decisions = {} /\ \A e \in EventIds : keys[e] = NULL
         /\ \A p \in Polls : batch[p] = {}
         /\ orders[orderId] = NoOrder /\ versions[orderId] = NoVersions
<1>1. DoneIffDecided /\ KeysHeld /\ PollSnapshotsFresh
  BY DEF BatchInv, DeliveryInv, IInv
<1>2. DOMAIN decisions = {} /\ (\A e \in EventIds : keys[e] = NULL)
  BY <1>1 DEF DoneIffDecided, KeysHeld
<1>3. \A p \in Polls : batch[p] = {}
  BY <1>1 DEF PollSnapshotsFresh, Unprocessed
<1>4. ~Told
  BY DEF Told, Posted
<1> QED
  BY <1>2, <1>3, <1>4 DEF BatchInv, Unmade

\* Where events are stored and nothing has happened, the order is in step.
FreshState ==
  /\ DeliveryInv /\ Orderly(Posted)
  /\ DOMAIN decisions = {} /\ \A e \in EventIds : keys[e] = NULL
  /\ \A p \in Polls : batch[p] = {} /\ pc[p] # "failing"
  /\ \A i \in DOMAIN inbox : inbox[i].processingStatus = "PENDING"
  /\ orders[orderId] = NoOrder /\ versions[orderId] = NoVersions

LEMMA FreshBatch == FreshState => BatchInv
<1> SUFFICES ASSUME FreshState PROVE BatchInv
  OBVIOUS
<1> USE DEF FreshState
<1>1. NothingFails /\ EventsJudged /\ HoldersValid
  BY DEF NothingFails, EventsJudged, HoldersValid
<1>2. SeenEvents = {}
  BY DEF SeenEvents, Judged, DecisionsOf
<1>3. NothingWaits /\ HoldersJudged /\ PollsHoldAll /\ First(SeenEvents, Posted) /\ CreatedFirst
  BY <1>2 DEF NothingWaits, HoldersJudged, PollsHoldAll, First, CreatedFirst
<1>4. Cardinality(SeenEvents) = 0
  BY <1>2, FS_EmptySet
<1>5. InTime(0, Posted) = Unborn
  BY PostedEvents, InTimeSteps DEF DeliveryInv, IInv
<1>6. SeenSoFar
  BY <1>4, <1>5 DEF SeenSoFar, Unborn
<1> QED
  BY <1>1, <1>3, <1>6 DEF BatchInv, InStep, Unmade

\* A batch is sent.
LEMMA SendingKeeps ==
  ASSUME BatchInv, [Next]_vars, SendScenario
  PROVE  BatchInv'
<1>1. DOMAIN inbox = {}
  BY SendStores
<1>2. PICK items \in Batches :
        /\ Orderly(Range(items))
        /\ {inbox'[i].raw : i \in DOMAIN inbox'} = Range(items)
  BY SendStores
<1>3. PICK E : E = {raw \in Range(items) : Validate(raw) = NULL}
  OBVIOUS
<1>4. Posted' = E
  BY <1>2, <1>3 DEF Posted, Valid
<1>5. {raw \in E : Validate(raw) = NULL} = E
  BY <1>3
<1>6. Orderly(E)
  BY <1>2, <1>3, <1>5 DEF Orderly
<1>7. Orderly(Posted)'
  BY <1>4, <1>6 DEF Orderly
<1>8. DeliveryInv'
  BY DeliveryStep DEF BatchInv
<1>9. /\ DOMAIN decisions = {} /\ \A e \in EventIds : keys[e] = NULL
      /\ \A p \in Polls : batch[p] = {}
      /\ orders[orderId] = NoOrder /\ versions[orderId] = NoVersions
  BY <1>1, NothingStored
<1>10. UNCHANGED <<keys, orders, versions, decisions, pc, batch>>
  BY SendStores DEF worker
<1>11. \A p \in Polls : pc[p] # "failing"
  BY DEF BatchInv, NothingFails
<1>12. \A i \in DOMAIN inbox' : inbox'[i].processingStatus = "PENDING"
  BY SendStores
<1>13. FreshState'
  BY <1>7, <1>8, <1>9, <1>10, <1>11, <1>12 DEF FreshState
<1>14. FreshState' => BatchInv'
  BY FreshBatch, PTL
<1> QED
  BY <1>13, <1>14

LEMMA InitBatchInv == Init => BatchInv
<1> SUFFICES ASSUME Init PROVE BatchInv
  OBVIOUS
<1>1. DeliveryInv
  BY InitDeliveryInv
<1>2. DOMAIN inbox = {} /\ DOMAIN decisions = {}
  BY DEF Init
<1>3. Orderly(Posted)
  BY <1>2 DEF Orderly, Posted
<1>4. FreshState
  BY <1>1, <1>2, <1>3, BatchesAssumption DEF Init, FreshState
<1> QED
  BY <1>4, FreshBatch

\* The invariant is inductive: no step of the engine that works on one orderly batch,
\* crashes and retries included, leaves it.
THEOREM BatchStep == BatchInv /\ [ScenarioNext]_vars => BatchInv'
<1> SUFFICES ASSUME BatchInv, [ScenarioNext]_vars PROVE BatchInv'
  OBVIOUS
<1>1. [Next]_vars
  BY ScenarioIsEngine
<1>2. CASE SendScenario
  BY <1>1, <1>2, SendingKeeps
<1>3. CASE \E i \in DOMAIN inbox : RetryDelayElapses(i)
  BY <1>1, <1>3, DelayKeepsBatch
<1>4. CASE \E p \in Polls : ProcessEvent(p)
  BY <1>1, <1>4, ProcessingKeeps
<1>5. CASE \/ Boot \/ Crash \/ UNCHANGED vars
           \/ \E p \in Polls : StartPoll(p) \/ FilterAvailableEvents(p) \/ EndPoll(p)
  BY <1>1, <1>5, PollingKeeps
<1> QED
  BY <1>2, <1>3, <1>4, <1>5 DEF ScenarioNext

\* While the engine works on a batch, its order is what the events it has seen lead to one
\* by one in time, and stays out of existence if no event creates it.
THEOREM BatchInvariant == ScenarioSpec => []BatchInv
  BY InitBatchInv, BatchStep, PTL DEF ScenarioSpec

-----------------------------------------------------------------------------
\* The end of a batch.

LEMMA OrderOfDone ==
  ASSUME BatchInv, BatchDone
  PROVE  LET timely == InTime(Cardinality(Posted), Posted)
         IN  orders[orderId] = timely.order /\ versions[orderId] = timely.versions
<1>1. TypeOK /\ Orderly(Posted)
  BY DEF BatchInv, DeliveryInv, IInv
<1>2. CASE Told
  <2>1. HoldersJudged /\ First(SeenEvents, Posted) /\ SeenSoFar
    BY <1>2 DEF BatchInv, InStep
  <2>2. ASSUME NEW e \in Posted, e \notin SeenEvents PROVE FALSE
    <3>1. PICK i \in DOMAIN inbox : Valid(i) /\ e = inbox[i].raw
      BY DEF Posted
    <3>2. i \in Unprocessed
      BY <2>1, <2>2, <3>1, UnseenIsOpen
    <3> QED
      BY <3>1, <3>2 DEF Unprocessed, BatchDone
  <2>3. SeenEvents = Posted
    BY <2>1, <2>2 DEF First
  <2> QED
    BY <2>1, <2>3 DEF SeenSoFar
<1>3. CASE ~Told
  <2>1. InTime(Cardinality(Posted), Posted) = Unborn
    BY <1>1, <1>3, PostedEvents, NeverCreated DEF Told
  <2> QED
    BY <1>3, <2>1 DEF BatchInv, Unmade, Unborn
<1> QED
  BY <1>2, <1>3

\* Of the deliveries of an event one is evaluated.
LEMMA EventIsJudged ==
  ASSUME BatchInv, BatchDone, NEW e \in Posted
  PROVE  \E i \in Judged : inbox[i].raw = e
<1>1. /\ DeliveryInv /\ Orderly(Posted) /\ EventsJudged /\ HoldersValid
      /\ DoneIffDecided
  BY DEF BatchInv, DeliveryInv, IInv
<1>2. \A i \in DOMAIN inbox : Decided(i)
  BY <1>1 DEF DoneIffDecided, BatchDone
<1>3. PICK i \in DOMAIN inbox : Valid(i) /\ inbox[i].raw = e
  BY DEF Posted
<1>4. CASE \E k \in DecisionsOf(i) : decisions[k].decision = "DUPLICATE"
  <2>1. PICK h : h = keys[e.eventId]
    OBVIOUS
  <2>2. h \in DOMAIN inbox /\ Valid(h) /\ inbox[h].raw = e
    BY <1>1, <1>3, <1>4, <2>1, RepetitionHasHolder
  <2>3. ASSUME NEW k \in DecisionsOf(h), decisions[k].decision = "DUPLICATE" PROVE FALSE
    BY <1>1, <2>1, <2>2, <2>3, RepetitionHasHolder
  <2>4. h \in Judged
    BY <1>1, <1>2, <2>2, <2>3, DecidedEvent
  <2> QED
    BY <2>2, <2>4
<1> QED
  BY <1>1, <1>2, <1>3, <1>4, DecidedEvent

LEMMA RepetitionsOfDone ==
  ASSUME BatchInv, BatchDone
  PROVE  Count({"DUPLICATE"}) =
           Cardinality({i \in DOMAIN inbox : Valid(i)}) - Cardinality(Posted)
<1>1. /\ DeliveryInv /\ EventsJudged /\ TypeOK /\ DoneIffDecided
  BY DEF BatchInv, DeliveryInv, IInv
<1>2. PICK valid : valid = {i \in DOMAIN inbox : Valid(i)}
  OBVIOUS
<1>3. PICK repeated : repeated =
        {i \in valid : \E k \in DecisionsOf(i) : decisions[k].decision = "DUPLICATE"}
  OBVIOUS
<1>4. PICK log : log = {k \in DOMAIN decisions : decisions[k].decision \in {"DUPLICATE"}}
  OBVIOUS
<1>5. Judged \subseteq valid
  BY <1>1, <1>2, JudgedIsPosted
<1>6. valid = Judged \cup repeated
  <2>1. \A i \in DOMAIN inbox : Decided(i)
    BY <1>1 DEF DoneIffDecided, BatchDone
  <2>2. \A i \in valid : i \in Judged \cup repeated
    BY <1>1, <1>2, <1>3, <2>1, DecidedEvent
  <2> QED
    BY <1>3, <1>5, <2>2
<1>7. Judged \cap repeated = {}
  <2>1. ASSUME NEW i \in Judged, i \in repeated PROVE FALSE
    <3>1. PICK j \in DecisionsOf(i) : Evaluated(decisions[j])
      BY DEF Judged
    <3>2. PICK k \in DecisionsOf(i) : decisions[k].decision = "DUPLICATE"
      BY <1>3, <2>1
    <3>3. j = k
      BY <1>1 DEF DecisionsOf, DoneIffDecided
    <3> QED
      BY <3>1, <3>2, <3>3 DEF Evaluated, Applied
  <2> QED
    BY <2>1
<1>8. IsFiniteSet(Judged) /\ IsFiniteSet(repeated)
  <2>1. inbox \in Seq(Row)
    BY <1>1 DEF TypeOK
  <2>2. IsFiniteSet(DOMAIN inbox)
    BY <2>1, LenProperties, FS_Interval
  <2>3. Judged \subseteq DOMAIN inbox /\ repeated \subseteq DOMAIN inbox
    BY <1>2, <1>3, <1>5
  <2> QED
    BY <2>2, <2>3, FS_Subset
<1>9. Cardinality(valid) = Cardinality(Judged) + Cardinality(repeated)
  <2>1. Cardinality(Judged \cup repeated) =
          Cardinality(Judged) + Cardinality(repeated) - Cardinality(Judged \cap repeated)
    BY <1>8, FS_Union
  <2>2. Cardinality(Judged \cap repeated) = 0
    BY <1>7, FS_EmptySet
  <2>3. Cardinality(Judged) \in Nat /\ Cardinality(repeated) \in Nat
    BY <1>8, FS_CardinalityType
  <2> QED
    BY <1>6, <2>1, <2>2, <2>3
<1>10. Cardinality(Judged) = Cardinality(Posted)
  <2>1. PICK f : f = [i \in Judged |-> inbox[i].raw]
    OBVIOUS
  <2>2. \A i \in Judged : inbox[i].raw \in Posted
    BY <1>1, JudgedIsPosted
  <2>3. ASSUME NEW i \in Judged, NEW j \in Judged, inbox[i].raw = inbox[j].raw
        PROVE  i = j
    BY <1>1, <2>3, JudgedIsPosted
  <2>4. \A e \in Posted : \E i \in Judged : inbox[i].raw = e
    BY EventIsJudged
  <2>5. f \in [Judged -> Posted] /\ \A x, y \in Judged : f[x] = f[y] => x = y
    BY <2>1, <2>2, <2>3
  <2>6. \A t \in Posted : \E x \in Judged : f[x] = t
    BY <2>1, <2>4
  <2>7. f \in Bijection(Judged, Posted)
    BY <2>5, <2>6 DEF Bijection, Injection, IsInjective, Surjection
  <2> QED
    BY <1>8, <2>7, FS_Bijection DEF ExistsBijection
<1>11. Cardinality(log) = Cardinality(repeated)
  <2>1. PICK f : f = [k \in log |-> decisions[k].rawIncomingEventId]
    OBVIOUS
  <2>2. \A k \in log : decisions[k].rawIncomingEventId \in repeated
    BY <1>1, <1>2, <1>3, <1>4 DEF EventsJudged, DoneIffDecided, DecisionsOf
  <2>3. ASSUME NEW j \in log, NEW k \in log,
               decisions[j].rawIncomingEventId = decisions[k].rawIncomingEventId
        PROVE  j = k
    BY <1>1, <1>4, <2>3 DEF DoneIffDecided
  <2>4. \A i \in repeated : \E k \in log : decisions[k].rawIncomingEventId = i
    BY <1>3, <1>4 DEF DecisionsOf
  <2>5. f \in [log -> repeated] /\ \A x, y \in log : f[x] = f[y] => x = y
    BY <2>1, <2>2, <2>3
  <2>6. \A t \in repeated : \E x \in log : f[x] = t
    BY <2>1, <2>4
  <2>7. f \in Bijection(log, repeated)
    BY <2>5, <2>6 DEF Bijection, Injection, IsInjective, Surjection
  <2>8. IsFiniteSet(log)
    <3>1. decisions \in Seq(Decision)
      BY <1>1 DEF TypeOK
    <3>2. IsFiniteSet(DOMAIN decisions)
      BY <3>1, LenProperties, FS_Interval
    <3>3. log \subseteq DOMAIN decisions
      BY <1>4
    <3> QED
      BY <3>2, <3>3, FS_Subset
  <2> QED
    BY <2>7, <2>8, FS_Bijection DEF ExistsBijection
<1>12. Count({"DUPLICATE"}) = Cardinality(log)
  BY <1>4 DEF Count
<1>13. /\ Cardinality(Judged) \in Nat /\ Cardinality(repeated) \in Nat
  BY <1>8, FS_CardinalityType
<1> QED
  BY <1>2, <1>9, <1>10, <1>11, <1>12, <1>13

\* However the items of an orderly batch are arranged, and wherever the process is
\* restarted while it works on them, the batch ends in the order its events lead to one
\* by one in time, and every repetition of an item in a DUPLICATE.
THEOREM BatchOrderIrrelevant == ScenarioSpec => []BatchOrderDoesNotMatter
<1>1. BatchInv => BatchOrderDoesNotMatter
  BY OrderOfDone, RepetitionsOfDone, Zenon DEF BatchOrderDoesNotMatter
<1> QED
  BY <1>1, BatchInvariant, PTL
=============================================================================
