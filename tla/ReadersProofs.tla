----------------------------- MODULE ReadersProofs -----------------------------
(***************************************************************************)
(* What the read side promises, for every set of posted items, of polls,   *)
(* of orders and of clients: whatever the engine commits between two       *)
(* queries of a request, its response loses no delivery, has no gap in its *)
(* log and explains what it shows as DONE.                                 *)
(***************************************************************************)
EXTENDS Readers, OrderHistoryProofs

-----------------------------------------------------------------------------
\* What holds of a request under way.

\* When the request began, and what was stored and decided by then.
BeganAt(since) ==
  /\ since \in Since
  /\ since.stored <= Len(inbox) /\ since.decided <= Len(decisions)
  /\ \A k \in DOMAIN decisions :
       k <= since.decided => decisions[k].rawIncomingEventId <= since.stored

\* The deliveries of order o that were stored when the request began.
StoredBefore(o, since) == {i \in RawEventsOf(o) : i <= since.stored}

RawEventsRead(q) ==
  /\ q.rawEvents \in SUBSET RawEventsOf(q.orderId)
  /\ StoredBefore(q.orderId, q.since) \subseteq q.rawEvents

AuditLogRead(q) ==
  \E n \in q.since.decided..Len(decisions) :
    q.auditLog = DecisionsAbout(q.rawEvents) \cap 1..n

PendingJobsRead(q) ==
  /\ q.pendingJobs \in SUBSET RawEventsOf(q.orderId)
  /\ \A i \in StoredBefore(q.orderId, q.since) : i \in q.pendingJobs \/ Decided(i)

OrderReads(q) ==
  /\ q \in OrderRequest
  /\ BeganAt(q.since)
  /\ q.rawEvents # NULL => RawEventsRead(q)
  /\ q.auditLog # NULL => q.rawEvents # NULL /\ AuditLogRead(q)
  /\ q.pendingJobs # NULL => PendingJobsRead(q)

DeliveriesRead(q) ==
  /\ q.deliveries \in SUBSET Delivery
  /\ \A x \in q.deliveries :
       x.id \in DOMAIN inbox /\ (x.status = "DONE" => Decided(x.id))

DecisionsRead(q) ==
  \A x \in q.deliveries : x.status = "DONE" => DecisionsOf(x.id) \cap q.decisions # {}

EventReads(q) ==
  /\ q \in EventRequest
  /\ q.deliveries # NULL => DeliveriesRead(q)
  /\ q.decisions # NULL => q.deliveries # NULL /\ DecisionsRead(q)

OrderRequestsInv ==
  /\ orderRequests \in [OrderClients -> OrderRequest \cup {NULL}]
  /\ \A c \in OrderClients : orderRequests[c] # NULL => OrderReads(orderRequests[c])

EventRequestsInv ==
  /\ eventRequests \in [EventClients -> EventRequest \cup {NULL}]
  /\ \A c \in EventClients : eventRequests[c] # NULL => EventReads(eventRequests[c])

\* The inductive invariant.
ReadersInv == DeliveryInv /\ OrderRequestsInv /\ EventRequestsInv

LEMMA InitReadersInv == ReadersInit => ReadersInv
  BY InitDeliveryInv DEF ReadersInit, ReadersInv, OrderRequestsInv, EventRequestsInv,
     NoOrderRequests, NoEventRequests

-----------------------------------------------------------------------------
\* The engine goes on under the requests.

\* Rows and decisions are added behind the ones there are.
LEMMA TablesGrow ==
  ASSUME DeliveryInv, [Next]_vars
  PROVE  /\ HistoryKept
         /\ DOMAIN inbox = 1..Len(inbox) /\ DOMAIN inbox' = 1..Len(inbox')
         /\ DOMAIN decisions = 1..Len(decisions) /\ DOMAIN decisions' = 1..Len(decisions')
         /\ Len(inbox) \in Nat /\ Len(inbox') \in Nat /\ Len(inbox) <= Len(inbox')
         /\ Len(decisions) \in Nat /\ Len(decisions') \in Nat
         /\ Len(decisions) <= Len(decisions')
<1>1. TypeOK /\ TypeOK'
  BY DeliveryStep DEF DeliveryInv, IInv
<1>2. HistoryKept
  BY StepKeepsHistory DEF DeliveryInv
<1>3. /\ DOMAIN inbox = 1..Len(inbox) /\ DOMAIN inbox' = 1..Len(inbox')
      /\ DOMAIN decisions = 1..Len(decisions) /\ DOMAIN decisions' = 1..Len(decisions')
      /\ Len(inbox) \in Nat /\ Len(inbox') \in Nat
      /\ Len(decisions) \in Nat /\ Len(decisions') \in Nat
  BY <1>1, LenProperties DEF TypeOK
<1>4. \A m, n \in Nat : 1..m \subseteq 1..n => m <= n
  <2> SUFFICES ASSUME NEW m \in Nat, NEW n \in Nat, 1..m \subseteq 1..n PROVE m <= n
    OBVIOUS
  <2>1. CASE m = 0
    BY <2>1
  <2>2. CASE m # 0
    <3>1. m \in 1..m
      BY <2>2
    <3> QED
      BY <3>1
  <2> QED
    BY <2>1, <2>2
<1>5. 1..Len(inbox) \subseteq 1..Len(inbox') /\ 1..Len(decisions) \subseteq 1..Len(decisions')
  BY <1>2, <1>3 DEF HistoryKept
<1> QED
  BY <1>2, <1>3, <1>4, <1>5

\* What had happened when a request began has happened.
LEMMA BeginningStays ==
  ASSUME DeliveryInv, [Next]_vars, NEW since, BeganAt(since)
  PROVE  BeganAt(since)'
<1>1. since \in Since /\ since.stored \in Nat /\ since.decided \in Nat
  BY DEF BeganAt, Since
<1>2. ASSUME NEW k \in DOMAIN decisions', k <= since.decided
      PROVE  decisions'[k].rawIncomingEventId <= since.stored
  <2>1. k \in DOMAIN decisions
    BY <1>1, <1>2, TablesGrow DEF BeganAt
  <2> QED
    BY <1>2, <2>1, TablesGrow DEF BeganAt, HistoryKept
<1>3. since.stored <= Len(inbox') /\ since.decided <= Len(decisions')
  BY <1>1, TablesGrow DEF BeganAt
<1> QED
  BY <1>1, <1>2, <1>3 DEF BeganAt

\* The items of an order only grow, and what is decided stays decided.
LEMMA ItemsStay ==
  ASSUME DeliveryInv, [Next]_vars, NEW o, NEW since, BeganAt(since)
  PROVE  /\ RawEventsOf(o) \subseteq RawEventsOf(o)'
         /\ StoredBefore(o, since)' = StoredBefore(o, since)
         /\ StoredBefore(o, since) \subseteq DOMAIN inbox
         /\ \A i : Decided(i) => Decided(i)'
<1>1. since.stored \in Nat /\ since.stored <= Len(inbox)
  BY DEF BeganAt, Since
<1>2. \A i \in DOMAIN inbox' : i <= since.stored => i \in DOMAIN inbox
  BY <1>1, TablesGrow
<1>3. /\ \A i \in DOMAIN inbox : i \in DOMAIN inbox' /\ inbox'[i].raw = inbox[i].raw
      /\ \A k \in DOMAIN decisions : k \in DOMAIN decisions' /\ decisions'[k] = decisions[k]
  BY TablesGrow DEF HistoryKept
<1> QED
  BY <1>2, <1>3 DEF RawEventsOf, StoredBefore, Decided

\* No step of the engine makes a result untrue that a request has kept.
LEMMA EngineKeepsOrderReads ==
  ASSUME DeliveryInv, [Next]_vars, NEW q, OrderReads(q)
  PROVE  OrderReads(q)'
<1>1. q \in OrderRequest /\ BeganAt(q.since) /\ q.since.decided \in Nat
  BY DEF OrderReads, BeganAt, Since
<1>2. BeganAt(q.since)'
  BY <1>1, BeginningStays
<1>3. q.rawEvents # NULL => RawEventsRead(q)'
  BY <1>1, ItemsStay DEF OrderReads, RawEventsRead
<1>4. ASSUME AuditLogRead(q)
      PROVE  AuditLogRead(q)'
  <2>1. PICK n \in q.since.decided..Len(decisions) :
          q.auditLog = DecisionsAbout(q.rawEvents) \cap 1..n
    BY <1>4 DEF AuditLogRead
  <2>2. n \in Nat /\ n <= Len(decisions)
    BY <1>1, <2>1, TablesGrow
  <2>3. \A k \in 1..n : k \in DOMAIN decisions /\ k \in DOMAIN decisions'
    BY <2>2, TablesGrow
  <2>4. \A k \in 1..n : decisions'[k] = decisions[k]
    BY <2>3, TablesGrow DEF HistoryKept
  <2>5. q.auditLog = DecisionsAbout(q.rawEvents)' \cap 1..n
    BY <2>1, <2>3, <2>4 DEF DecisionsAbout
  <2>6. n \in q.since.decided..Len(decisions')
    BY <1>1, <2>1, <2>2, TablesGrow
  <2> QED
    BY <2>5, <2>6 DEF AuditLogRead
<1>5. q.pendingJobs # NULL => PendingJobsRead(q)'
  BY <1>1, ItemsStay DEF OrderReads, PendingJobsRead
<1> QED
  BY <1>1, <1>2, <1>3, <1>4, <1>5 DEF OrderReads

LEMMA EngineKeepsEventReads ==
  ASSUME DeliveryInv, [Next]_vars, NEW q, EventReads(q)
  PROVE  EventReads(q)'
<1>1. /\ \A i \in DOMAIN inbox : i \in DOMAIN inbox'
      /\ \A k \in DOMAIN decisions : k \in DOMAIN decisions' /\ decisions'[k] = decisions[k]
  BY TablesGrow DEF HistoryKept
<1>2. \A i : Decided(i) => Decided(i)'
  BY <1>1 DEF Decided
<1>3. \A i : DecisionsOf(i) \subseteq DecisionsOf(i)'
  BY <1>1 DEF DecisionsOf
<1>4. q.deliveries # NULL => DeliveriesRead(q)'
  BY <1>1, <1>2 DEF EventReads, DeliveriesRead
<1>5. q.decisions # NULL => DecisionsRead(q)'
  BY <1>3 DEF EventReads, DecisionsRead
<1> QED
  BY <1>4, <1>5 DEF EventReads

\* The engine goes on, or its process ends and the requests with it.
LEMMA EngineStepKeeps ==
  ASSUME ReadersInv, EngineStep
  PROVE  ReadersInv'
<1>1. DeliveryInv'
  BY DeliveryStep DEF ReadersInv, EngineStep
<1>2. CASE phase' = "down"
  BY <1>1, <1>2 DEF EngineStep, ReadersInv, OrderRequestsInv, EventRequestsInv,
     NoOrderRequests, NoEventRequests
<1>3. CASE UNCHANGED requests
  <2>1. UNCHANGED <<orderRequests, eventRequests>> /\ Next
    BY <1>3 DEF EngineStep, requests
  <2>2. ASSUME NEW c \in OrderClients, orderRequests[c] # NULL
        PROVE  OrderReads(orderRequests[c])'
    <3>1. PICK q : q = orderRequests[c]
      OBVIOUS
    <3>2. OrderReads(q)'
      BY <2>1, <2>2, <3>1, EngineKeepsOrderReads DEF ReadersInv, OrderRequestsInv
    <3> QED
      BY <2>1, <3>1, <3>2
  <2>3. ASSUME NEW c \in EventClients, eventRequests[c] # NULL
        PROVE  EventReads(eventRequests[c])'
    <3>1. PICK q : q = eventRequests[c]
      OBVIOUS
    <3>2. EventReads(q)'
      BY <2>1, <2>3, <3>1, EngineKeepsEventReads DEF ReadersInv, EventRequestsInv
    <3> QED
      BY <2>1, <3>1, <3>2
  <2> QED
    BY <1>1, <2>1, <2>2, <2>3 DEF ReadersInv, OrderRequestsInv, EventRequestsInv
<1> QED
  BY <1>2, <1>3 DEF EngineStep

-----------------------------------------------------------------------------
\* A request goes on while the engine stands still.

LEMMA StandstillKeeps ==
  ASSUME ReadersInv, UNCHANGED vars
  PROVE  /\ DeliveryInv'
         /\ \A c \in OrderClients : orderRequests[c] # NULL =>
              \A q : q = orderRequests[c] => OrderReads(q)'
         /\ \A c \in EventClients : eventRequests[c] # NULL =>
              \A q : q = eventRequests[c] => EventReads(q)'
<1>1. DeliveryInv /\ [Next]_vars
  BY DEF ReadersInv
<1> QED
  BY <1>1, DeliveryStep, EngineKeepsOrderReads, EngineKeepsEventReads
     DEF ReadersInv, OrderRequestsInv, EventRequestsInv

\* It is enough that the request that moves keeps true results.
LEMMA OrderRequestMoves ==
  ASSUME ReadersInv, NEW c \in OrderClients, NEW r \in OrderRequest \cup {NULL},
         r # NULL => OrderReads(r),
         orderRequests' = [orderRequests EXCEPT ![c] = r],
         UNCHANGED <<vars, eventRequests>>
  PROVE  ReadersInv'
<1>1. DeliveryInv /\ [Next]_vars
  BY DEF ReadersInv
<1>2. r # NULL => OrderReads(r)'
  BY <1>1, EngineKeepsOrderReads
<1>3. orderRequests' \in [OrderClients -> OrderRequest \cup {NULL}]
  BY DEF ReadersInv, OrderRequestsInv
<1>4. ASSUME NEW b \in OrderClients, orderRequests'[b] # NULL
      PROVE  OrderReads(orderRequests[b])'
  <2>1. PICK q : q = orderRequests'[b]
    OBVIOUS
  <2>2. OrderReads(q)'
    BY <1>2, <1>4, <2>1, StandstillKeeps DEF ReadersInv, OrderRequestsInv
  <2> QED
    BY <2>1, <2>2
<1>5. ASSUME NEW b \in EventClients, eventRequests'[b] # NULL
      PROVE  EventReads(eventRequests[b])'
  <2>1. PICK q : q = eventRequests'[b]
    OBVIOUS
  <2>2. EventReads(q)'
    BY <1>5, <2>1, StandstillKeeps
  <2> QED
    BY <2>1, <2>2
<1> QED
  BY <1>3, <1>4, <1>5, StandstillKeeps DEF ReadersInv, OrderRequestsInv, EventRequestsInv

LEMMA EventRequestMoves ==
  ASSUME ReadersInv, NEW c \in EventClients, NEW r \in EventRequest \cup {NULL},
         r # NULL => EventReads(r),
         eventRequests' = [eventRequests EXCEPT ![c] = r],
         UNCHANGED <<vars, orderRequests>>
  PROVE  ReadersInv'
<1>1. DeliveryInv /\ [Next]_vars
  BY DEF ReadersInv
<1>2. r # NULL => EventReads(r)'
  BY <1>1, EngineKeepsEventReads
<1>3. eventRequests' \in [EventClients -> EventRequest \cup {NULL}]
  BY DEF ReadersInv, EventRequestsInv
<1>4. ASSUME NEW b \in EventClients, eventRequests'[b] # NULL
      PROVE  EventReads(eventRequests[b])'
  <2>1. PICK q : q = eventRequests'[b]
    OBVIOUS
  <2>2. EventReads(q)'
    BY <1>2, <1>4, <2>1, StandstillKeeps DEF ReadersInv, EventRequestsInv
  <2> QED
    BY <2>1, <2>2
<1>5. ASSUME NEW b \in OrderClients, orderRequests'[b] # NULL
      PROVE  OrderReads(orderRequests[b])'
  <2>1. PICK q : q = orderRequests'[b]
    OBVIOUS
  <2>2. OrderReads(q)'
    BY <1>5, <2>1, StandstillKeeps
  <2> QED
    BY <2>1, <2>2
<1> QED
  BY <1>3, <1>4, <1>5, StandstillKeeps DEF ReadersInv, OrderRequestsInv, EventRequestsInv

\* What a query finds when it is executed.
LEMMA ReadNow ==
  ASSUME IInv
  PROVE  /\ BeganAt(Now)
         /\ DOMAIN decisions = 1..Len(decisions) /\ Len(decisions) \in Nat
         /\ DOMAIN inbox \subseteq Nat \ {0} /\ DOMAIN decisions \subseteq Nat \ {0}
         /\ \A i \in DOMAIN inbox : i \in Unprocessed \/ Decided(i)
<1>1. /\ DOMAIN decisions = 1..Len(decisions) /\ Len(decisions) \in Nat
      /\ DOMAIN inbox = 1..Len(inbox) /\ Len(inbox) \in Nat
  BY LenProperties DEF IInv, TypeOK
<1>2. Now \in Since /\ Now.stored = Len(inbox) /\ Now.decided = Len(decisions)
  BY <1>1 DEF Now, Since
<1>3. \A k \in DOMAIN decisions : decisions[k].rawIncomingEventId <= Len(inbox)
  BY <1>1 DEF IInv, DoneIffDecided
<1>4. \A i \in DOMAIN inbox : i \in Unprocessed \/ Decided(i)
  BY RowType DEF Unprocessed, IInv, DoneIffDecided, Row, ProcessingStatuses
<1> QED
  BY <1>1, <1>2, <1>3, <1>4 DEF BeganAt

\* Each step of getOrderDetails.
LEMMA OrderStepKeeps ==
  ASSUME ReadersInv, NEW c \in OrderClients, OrderStep(c)
  PROVE  ReadersInv'
<1>1. IInv /\ UNCHANGED <<vars, eventRequests>>
  BY DEF ReadersInv, DeliveryInv, OrderStep, AskOrder, FindCurrentState, FindRawEvents,
     FindDecisions, ReadPendingJobs, GetOrderDetails
<1>2. orderRequests[c] # NULL => OrderReads(orderRequests[c])
  BY DEF ReadersInv, OrderRequestsInv
<1>3. ASSUME NEW r, OrderReads(r), orderRequests' = [orderRequests EXCEPT ![c] = r]
      PROVE  ReadersInv'
  BY <1>1, <1>3, OrderRequestMoves DEF OrderReads
<1>4. ASSUME NEW o \in OrderIds, AskOrder(c, o)
      PROVE  ReadersInv'
  <2> DEFINE r == [orderId |-> o, since |-> Now, currentState |-> NULL, rawEvents |-> NULL,
                   auditLog |-> NULL, pendingJobs |-> NULL]
  <2>1. BeganAt(Now) /\ Now \in Since
    BY <1>1, ReadNow DEF BeganAt
  <2>2. r \in OrderRequest
    BY <2>1 DEF OrderRequest
  <2>3. OrderReads(r)
    BY <2>1, <2>2 DEF OrderReads
  <2>4. orderRequests' = [orderRequests EXCEPT ![c] = r]
    BY <1>4 DEF AskOrder
  <2> HIDE DEF r
  <2> QED
    BY <1>3, <2>3, <2>4
<1>5. PICK q : q = orderRequests[c]
  OBVIOUS
<1>6. CASE FindCurrentState(c)
  <2> DEFINE row == orders[q.orderId]
             r == [q EXCEPT !.currentState = row]
  <2>1. OrderReads(q) /\ q \in OrderRequest
    BY <1>2, <1>5, <1>6 DEF FindCurrentState, OrderReads
  <2>2. row \in Order
    BY <1>1, <2>1 DEF IInv, TypeOK, OrderRequest
  <2>3. orderRequests' = [orderRequests EXCEPT ![c] = r]
    BY <1>5, <1>6 DEF FindCurrentState
  <2> HIDE DEF row
  <2>4. /\ r \in OrderRequest /\ r.orderId = q.orderId /\ r.since = q.since
        /\ r.rawEvents = q.rawEvents /\ r.auditLog = q.auditLog
        /\ r.pendingJobs = q.pendingJobs
    BY <2>1, <2>2 DEF OrderRequest
  <2> HIDE DEF r
  <2>5. OrderReads(r)
    BY <2>1, <2>4 DEF OrderReads, RawEventsRead, AuditLogRead, PendingJobsRead
  <2> QED
    BY <1>3, <2>3, <2>5
<1>7. CASE FindRawEvents(c)
  <2> DEFINE ids == RawEventsOf(q.orderId)
             r == [q EXCEPT !.rawEvents = ids]
  <2>1. OrderReads(q) /\ q \in OrderRequest /\ q.auditLog = NULL
    BY <1>2, <1>5, <1>7 DEF FindRawEvents, OrderReads
  <2>2. ids \in SUBSET (Nat \ {0})
    BY <1>1, ReadNow DEF RawEventsOf
  <2>3. orderRequests' = [orderRequests EXCEPT ![c] = r]
    BY <1>5, <1>7 DEF FindRawEvents
  <2> HIDE DEF ids
  <2>4. /\ r \in OrderRequest /\ r.orderId = q.orderId /\ r.since = q.since
        /\ r.rawEvents = ids /\ r.auditLog = q.auditLog
        /\ r.pendingJobs = q.pendingJobs
    BY <2>1, <2>2 DEF OrderRequest
  <2> HIDE DEF r
  <2>5. RawEventsRead(r)
    BY <2>4 DEF RawEventsRead, StoredBefore, ids
  <2>6. OrderReads(r)
    BY <2>1, <2>4, <2>5 DEF OrderReads, PendingJobsRead
  <2> QED
    BY <1>3, <2>3, <2>6
<1>8. CASE FindDecisions(c)
  <2> DEFINE log == DecisionsAbout(q.rawEvents)
             r == [q EXCEPT !.auditLog = log]
  <2>1. OrderReads(q) /\ q \in OrderRequest /\ q.rawEvents # NULL
    BY <1>2, <1>5, <1>8 DEF FindDecisions, OrderReads
  <2>2. log \in SUBSET (Nat \ {0}) /\ log = DecisionsAbout(q.rawEvents) \cap 1..Len(decisions)
    BY <1>1, ReadNow DEF DecisionsAbout
  <2>3. orderRequests' = [orderRequests EXCEPT ![c] = r]
    BY <1>5, <1>8 DEF FindDecisions
  <2> HIDE DEF log
  <2>4. /\ r \in OrderRequest /\ r.orderId = q.orderId /\ r.since = q.since
        /\ r.rawEvents = q.rawEvents /\ r.auditLog = log
        /\ r.pendingJobs = q.pendingJobs
    BY <2>1, <2>2 DEF OrderRequest
  <2>5. Len(decisions) \in q.since.decided..Len(decisions)
    BY <1>1, <2>1, ReadNow DEF OrderReads, BeganAt, Since
  <2> HIDE DEF r
  <2>6. AuditLogRead(r)
    BY <2>2, <2>4, <2>5 DEF AuditLogRead
  <2>7. OrderReads(r)
    BY <2>1, <2>4, <2>6 DEF OrderReads, RawEventsRead, PendingJobsRead
  <2> QED
    BY <1>3, <2>3, <2>7
<1>9. CASE ReadPendingJobs(c)
  <2> DEFINE jobs == RawEventsOf(q.orderId) \cap Unprocessed
             r == [q EXCEPT !.pendingJobs = jobs]
  <2>1. OrderReads(q) /\ q \in OrderRequest
    BY <1>2, <1>5, <1>9 DEF ReadPendingJobs, OrderReads
  <2>2. jobs \in SUBSET (Nat \ {0})
    BY <1>1, ReadNow DEF RawEventsOf
  <2>3. orderRequests' = [orderRequests EXCEPT ![c] = r]
    BY <1>5, <1>9 DEF ReadPendingJobs
  <2> HIDE DEF jobs
  <2>4. /\ r \in OrderRequest /\ r.orderId = q.orderId /\ r.since = q.since
        /\ r.rawEvents = q.rawEvents /\ r.auditLog = q.auditLog
        /\ r.pendingJobs = jobs
    BY <2>1, <2>2 DEF OrderRequest
  <2> HIDE DEF r
  <2>5. PendingJobsRead(r)
    BY <1>1, <2>4, ReadNow DEF PendingJobsRead, StoredBefore, RawEventsOf, jobs
  <2>6. OrderReads(r)
    BY <2>1, <2>4, <2>5 DEF OrderReads, RawEventsRead, AuditLogRead
  <2> QED
    BY <1>3, <2>3, <2>6
<1>10. CASE GetOrderDetails(c)
  BY <1>1, <1>10, OrderRequestMoves DEF GetOrderDetails
<1> QED
  BY <1>4, <1>6, <1>7, <1>8, <1>9, <1>10 DEF OrderStep

\* Each step of getEventDetails.
LEMMA EventStepKeeps ==
  ASSUME ReadersInv, NEW c \in EventClients, EventStep(c)
  PROVE  ReadersInv'
<1>1. IInv /\ UNCHANGED <<vars, orderRequests>>
  BY DEF ReadersInv, DeliveryInv, EventStep, AskEvent, FindDeliveries,
     FindDeliveryDecisions, GetEventDetails
<1>2. eventRequests[c] # NULL => EventReads(eventRequests[c])
  BY DEF ReadersInv, EventRequestsInv
<1>3. ASSUME NEW r, EventReads(r), eventRequests' = [eventRequests EXCEPT ![c] = r]
      PROVE  ReadersInv'
  BY <1>1, <1>3, EventRequestMoves DEF EventReads
<1>4. ASSUME NEW e \in EventIds, AskEvent(c, e)
      PROVE  ReadersInv'
  <2> DEFINE r == [eventId |-> e, since |-> Now, deliveries |-> NULL, decisions |-> NULL]
  <2>1. Now \in Since
    BY <1>1, ReadNow DEF BeganAt
  <2>2. r \in EventRequest
    BY <2>1 DEF EventRequest
  <2>3. EventReads(r)
    BY <2>2 DEF EventReads
  <2>4. eventRequests' = [eventRequests EXCEPT ![c] = r]
    BY <1>4 DEF AskEvent
  <2> HIDE DEF r
  <2> QED
    BY <1>3, <2>3, <2>4
<1>5. PICK q : q = eventRequests[c]
  OBVIOUS
<1>6. CASE FindDeliveries(c)
  <2> DEFINE found == DeliveriesOf(q.eventId)
             r == [q EXCEPT !.deliveries = found]
  <2>1. EventReads(q) /\ q \in EventRequest /\ q.deliveries = NULL
    BY <1>2, <1>5, <1>6 DEF FindDeliveries, EventReads
  <2>2. ASSUME NEW x \in found
        PROVE  /\ x \in Delivery /\ x.id \in DOMAIN inbox
               /\ x.status = "DONE" => Decided(x.id)
    <3>1. PICK i \in DOMAIN inbox : x = [id |-> i, status |-> inbox[i].processingStatus]
      BY <2>2 DEF DeliveriesOf
    <3> QED
      BY <1>1, <3>1, RowType DEF Delivery, Row, IInv, DoneIffDecided
  <2>3. eventRequests' = [eventRequests EXCEPT ![c] = r]
    BY <1>5, <1>6 DEF FindDeliveries
  <2> HIDE DEF found
  <2>4. /\ r \in EventRequest /\ r.deliveries = found /\ r.decisions = q.decisions
    BY <2>1, <2>2 DEF EventRequest
  <2> HIDE DEF r
  <2>5. q.decisions = NULL
    BY <2>1 DEF EventReads
  <2>6. EventReads(r)
    BY <2>2, <2>4, <2>5 DEF EventReads, DeliveriesRead
  <2> QED
    BY <1>3, <2>3, <2>6
<1>7. CASE FindDeliveryDecisions(c)
  <2> DEFINE log == DecisionsAbout({x.id : x \in q.deliveries})
             r == [q EXCEPT !.decisions = log]
  <2>1. EventReads(q) /\ q \in EventRequest /\ q.deliveries # NULL
    BY <1>2, <1>5, <1>7 DEF FindDeliveryDecisions, EventReads
  <2>2. log \in SUBSET (Nat \ {0})
    BY <1>1, ReadNow DEF DecisionsAbout
  <2>3. eventRequests' = [eventRequests EXCEPT ![c] = r]
    BY <1>5, <1>7 DEF FindDeliveryDecisions
  <2>4. ASSUME NEW x \in q.deliveries, x.status = "DONE"
        PROVE  DecisionsOf(x.id) \cap log # {}
    <3>1. Decided(x.id)
      BY <2>1, <2>4 DEF EventReads, DeliveriesRead
    <3> QED
      BY <2>4, <3>1 DEF Decided, DecisionsOf, DecisionsAbout
  <2> HIDE DEF log
  <2>5. /\ r \in EventRequest /\ r.deliveries = q.deliveries /\ r.decisions = log
    BY <2>1, <2>2 DEF EventRequest
  <2> HIDE DEF r
  <2>6. EventReads(r)
    BY <2>1, <2>4, <2>5 DEF EventReads, DeliveriesRead, DecisionsRead
  <2> QED
    BY <1>3, <2>3, <2>6
<1>8. CASE GetEventDetails(c)
  BY <1>1, <1>8, EventRequestMoves DEF GetEventDetails
<1> QED
  BY <1>4, <1>6, <1>7, <1>8 DEF EventStep

\* The invariant of the requests is inductive: whatever commits between the queries of
\* an answer, what each query returned stays true of a state since the request began.
THEOREM ReadersStep == ReadersInv /\ [ReadersNext]_readVars => ReadersInv'
<1> SUFFICES ASSUME ReadersInv, [ReadersNext]_readVars PROVE ReadersInv'
  OBVIOUS
<1>1. CASE UNCHANGED readVars
  BY <1>1, StandstillKeeps DEF readVars, requests, ReadersInv, OrderRequestsInv, EventRequestsInv
<1> QED
  BY <1>1, EngineStepKeeps, OrderStepKeeps, EventStepKeeps DEF ReadersNext

\* In every reachable state the results that requests have kept are explained by the
\* tables as they were at some moment since the request began.
THEOREM ReadersInvariant == ReadersSpec => []ReadersInv
  BY InitReadersInv, ReadersStep, PTL DEF ReadersSpec

-----------------------------------------------------------------------------
\* What an answered request may rely on.

\* An answer is computed when all four queries have returned.
LEMMA AnsweredOrderReads ==
  ASSUME ReadersInv, NEW q \in AnsweredOrders
  PROVE  /\ IInv /\ OrderReads(q)
         /\ RawEventsRead(q) /\ AuditLogRead(q) /\ PendingJobsRead(q)
<1>1. PICK c \in OrderClients : OrderAnswered(orderRequests[c]) /\ q = orderRequests[c]
  BY DEF AnsweredOrders
<1> QED
  BY <1>1 DEF OrderAnswered, OrderReads, ReadersInv, OrderRequestsInv, DeliveryInv

\* A decision made before the request began is in the audit log it returns.
LEMMA EarlyDecisionsShown ==
  ASSUME ReadersInv, NEW q \in AnsweredOrders, NEW i \in StoredBefore(q.orderId, q.since),
         NEW k \in DecisionsOf(i), k <= q.since.decided
  PROVE  k \in q.auditLog
<1>1. PICK n \in q.since.decided..Len(decisions) :
        q.auditLog = DecisionsAbout(q.rawEvents) \cap 1..n
  BY AnsweredOrderReads DEF AuditLogRead
<1>2. i \in q.rawEvents
  BY AnsweredOrderReads DEF RawEventsRead
<1>3. k \in DecisionsAbout(q.rawEvents) /\ k \in DOMAIN decisions
  BY <1>2 DEF DecisionsOf, DecisionsAbout
<1>4. k \in 1..n
  <2>1. /\ DOMAIN decisions = 1..Len(decisions) /\ Len(decisions) \in Nat
        /\ q.since.decided \in Nat
    BY AnsweredOrderReads, ReadNow DEF OrderReads, BeganAt, Since
  <2> QED
    BY <1>1, <1>3, <2>1
<1> QED
  BY <1>1, <1>3, <1>4

\* Every request is well typed while it runs.
THEOREM ReadersTyped == ReadersSpec => []ReadersTypeOK
<1>1. ReadersInv => ReadersTypeOK
  BY DEF ReadersInv, DeliveryInv, IInv, OrderRequestsInv, EventRequestsInv, ReadersTypeOK
<1> QED
  BY <1>1, ReadersInvariant, PTL

\* Whatever is committed between the queries of getOrderDetails, no delivery stored
\* before the request falls between pendingJobs and auditLog.
THEOREM NoDeliveryLost == ReadersSpec => []NothingVanishes
<1>1. ReadersInv => NothingVanishes
  <2> SUFFICES ASSUME ReadersInv, NEW q \in AnsweredOrders,
                      NEW i \in RawEventsOf(q.orderId), i <= q.since.stored
               PROVE  \/ i \in q.pendingJobs
                      \/ \E k \in DecisionsOf(i) : k \in q.auditLog \/ k > q.since.decided
    BY DEF NothingVanishes
  <2>1. i \in StoredBefore(q.orderId, q.since)
    BY DEF StoredBefore
  <2>2. i \in q.pendingJobs \/ Decided(i)
    BY <2>1, AnsweredOrderReads DEF PendingJobsRead
  <2>3. ASSUME NEW k \in DecisionsOf(i)
        PROVE  k \in q.auditLog \/ k > q.since.decided
    <3>1. k \in Nat /\ q.since.decided \in Nat
      BY AnsweredOrderReads, ReadNow DEF DecisionsOf, OrderReads, BeganAt, Since
    <3> QED
      BY <2>1, <3>1, EarlyDecisionsShown
  <2> QED
    BY <2>2, <2>3 DEF Decided, DecisionsOf
<1> QED
  BY <1>1, ReadersInvariant, PTL

\* A 404 on an order is never given while a decision about it was already there when
\* the request began.
THEOREM NotFoundIsHonest == ReadersSpec => []NotFoundWasUndecided
<1>1. ReadersInv => NotFoundWasUndecided
  <2> SUFFICES ASSUME ReadersInv, NEW q \in AnsweredOrders, OrderNotFound(q),
                      NEW k \in DecisionsAbout(RawEventsOf(q.orderId))
               PROVE  k > q.since.decided
    BY DEF NotFoundWasUndecided
  <2>1. k \in Nat /\ k \in DOMAIN decisions /\ q.since.decided \in Nat
    BY AnsweredOrderReads, ReadNow DEF DecisionsAbout, OrderReads, BeganAt, Since
  <2>2. ASSUME k <= q.since.decided
        PROVE  FALSE
    <3> DEFINE i == decisions[k].rawIncomingEventId
    <3>1. i \in StoredBefore(q.orderId, q.since)
      BY <2>1, <2>2, AnsweredOrderReads DEF DecisionsAbout, StoredBefore, OrderReads, BeganAt
    <3>2. k \in DecisionsOf(i)
      BY <2>1 DEF DecisionsOf
    <3> HIDE DEF i
    <3>3. k \in q.auditLog
      BY <2>2, <3>1, <3>2, EarlyDecisionsShown
    <3> QED
      BY <3>3 DEF OrderNotFound
  <2> QED
    BY <2>1, <2>2
<1> QED
  BY <1>1, ReadersInvariant, PTL

\* The audit log a client gets is all of the order's log up to some moment.
THEOREM LogIsPrefix == ReadersSpec => []LogHasNoGaps
<1>1. ReadersInv => LogHasNoGaps
  <2> SUFFICES ASSUME ReadersInv, NEW q \in AnsweredOrders,
                      \A i \in RawEventsOf(q.orderId) : i <= q.since.stored
               PROVE  \E n \in q.since.decided..Len(decisions) :
                        q.auditLog = DecisionsAbout(RawEventsOf(q.orderId)) \cap 1..n
    BY DEF LogHasNoGaps
  <2>1. q.rawEvents = RawEventsOf(q.orderId)
    BY AnsweredOrderReads DEF RawEventsRead, StoredBefore
  <2> QED
    BY <2>1, AnsweredOrderReads DEF AuditLogRead
<1> QED
  BY <1>1, ReadersInvariant, PTL

\* The inspector never shows a DONE delivery without its decision.
THEOREM DoneExplained == ReadersSpec => []DoneIsExplained
<1>1. ReadersInv => DoneIsExplained
  <2> SUFFICES ASSUME ReadersInv, NEW q \in AnsweredEvents,
                      NEW x \in q.deliveries, x.status = "DONE"
               PROVE  DecisionsOf(x.id) \cap q.decisions # {}
    BY DEF DoneIsExplained
  <2>1. PICK c \in EventClients : EventAnswered(eventRequests[c]) /\ q = eventRequests[c]
    BY DEF AnsweredEvents
  <2>2. EventReads(q) /\ q.decisions # NULL
    BY <2>1 DEF EventAnswered, EventNotFound, ReadersInv, EventRequestsInv
  <2> QED
    BY <2>2 DEF EventReads, DecisionsRead
<1> QED
  BY <1>1, ReadersInvariant, PTL

-----------------------------------------------------------------------------
\* Requests that nothing was stored or decided under.

\* What such a request has read is still so.
QuietRead(q) ==
  q.since = Now =>
    /\ q.currentState # NULL => q.currentState = orders[q.orderId]
    /\ q.rawEvents # NULL => q.rawEvents = RawEventsOf(q.orderId)
    /\ q.pendingJobs # NULL => q.pendingJobs = RawEventsOf(q.orderId) \cap Unprocessed

QuietInv ==
  /\ ReadersInv /\ AuditInv
  /\ \A c \in OrderClients : orderRequests[c] # NULL => QuietRead(orderRequests[c])

\* A step that neither stores nor decides changes no order, and puts a delivery that
\* waits off at most.
LEMMA QuietStep ==
  ASSUME DeliveryInv, [Next]_vars, Now' = Now
  PROVE  /\ UNCHANGED orders
         /\ \A o : RawEventsOf(o)' = RawEventsOf(o)
         /\ Unprocessed' = Unprocessed
<1>1. IInv /\ OnlyRetriesWait
  BY DEF DeliveryInv
<1>2. Len(inbox') = Len(inbox) /\ Len(decisions') = Len(decisions)
  BY DEF Now
<1>3. DOMAIN inbox' = DOMAIN inbox /\ DOMAIN decisions' = DOMAIN decisions
  BY <1>2, TablesGrow
<1>4. \A o : RawEventsOf(o)' = RawEventsOf(o)
  BY <1>3, TablesGrow DEF RawEventsOf, HistoryKept
<1>5. CASE UNCHANGED database
  BY <1>4, <1>5 DEF database, Unprocessed
<1>6. ASSUME NEW i \in DOMAIN inbox, DelayPassed(i)
      PROVE  UNCHANGED orders /\ Unprocessed' = Unprocessed
  <2>1. inbox[i] \in Row
    BY <1>1, RowType
  <2>2. \A j \in DOMAIN inbox : inbox'[j].processingStatus = inbox[j].processingStatus
    BY <1>6, <2>1 DEF DelayPassed, RowBecomes, Row
  <2> QED
    BY <1>3, <1>6, <2>2 DEF DelayPassed, Unprocessed
<1>7. ASSUME NEW i \in DOMAIN inbox, Workable(i), NEW r \in Row, PutOff(i, r)
      PROVE  UNCHANGED orders /\ Unprocessed' = Unprocessed
  <2>1. \A j \in DOMAIN inbox :
          inbox'[j].processingStatus \in {"PENDING", "RETRY"} <=>
          inbox[j].processingStatus \in {"PENDING", "RETRY"}
    BY <1>7 DEF PutOff, RowBecomes, Workable, Unprocessed
  <2> QED
    BY <1>3, <1>7, <2>1 DEF PutOff, Unprocessed
<1>8. ~RowsAdded
  <2>1. Len(inbox) \in Nat /\ DOMAIN inbox = 1..Len(inbox)
    BY TablesGrow
  <2>2. ASSUME NEW n \in 1..MaxBatch, DOMAIN inbox' = 1..(Len(inbox) + n)
        PROVE  FALSE
    <3>1. Len(inbox) + n \in 1..(Len(inbox) + n) /\ Len(inbox) + n \notin 1..Len(inbox)
      BY <2>1, EngineAssumption
    <3> QED
      BY <1>3, <2>1, <2>2, <3>1
  <2> QED
    BY <2>2 DEF RowsAdded
<1>9. ASSUME NEW i, NEW d, NEW r, DecidedBy(i, d, r)
      PROVE  FALSE
  <2>1. PICK m : m = Len(decisions)
    OBVIOUS
  <2>2. m \in Nat /\ 1..(m + 1) = 1..m
    BY <1>3, <1>9, <2>1 DEF DecidedBy, Logged
  <2>3. m + 1 \in 1..(m + 1) /\ m + 1 \notin 1..m
    BY <2>2
  <2> QED
    BY <2>2, <2>3
<1> QED
  BY <1>1, <1>4, <1>5, <1>6, <1>7, <1>8, <1>9, DatabaseSteps

\* An undisturbed result stays so, or is disturbed by what is stored or decided.
LEMMA EngineKeepsQuiet ==
  ASSUME DeliveryInv, [Next]_vars, NEW q, OrderReads(q), QuietRead(q)
  PROVE  QuietRead(q)'
<1> SUFFICES ASSUME q.since = Now'
             PROVE  /\ q.currentState # NULL => q.currentState = orders'[q.orderId]
                    /\ q.rawEvents # NULL => q.rawEvents = RawEventsOf(q.orderId)'
                    /\ q.pendingJobs # NULL =>
                         q.pendingJobs = RawEventsOf(q.orderId)' \cap Unprocessed'
  BY DEF QuietRead
<1>1. /\ q.since.stored = Len(inbox') /\ q.since.decided = Len(decisions')
      /\ q.since.stored <= Len(inbox) /\ q.since.decided <= Len(decisions)
  BY DEF Now, OrderReads, BeganAt
<1>2. /\ Len(inbox) \in Nat /\ Len(inbox') \in Nat /\ Len(inbox) <= Len(inbox')
      /\ Len(decisions) \in Nat /\ Len(decisions') \in Nat
      /\ Len(decisions) <= Len(decisions')
  BY TablesGrow
<1>3. Len(inbox') = Len(inbox) /\ Len(decisions') = Len(decisions)
  BY <1>1, <1>2
<1>4. Now' = Now
  BY <1>3 DEF Now
<1> QED
  BY <1>4, QuietStep DEF QuietRead

LEMMA InitQuietInv == ReadersInit => QuietInv
  BY InitReadersInv, InitAuditInv DEF ReadersInit, QuietInv, NoOrderRequests

\* The invariant is inductive: a query returns what is so now, and only what is stored
\* or decided later makes it stale.
LEMMA QuietInvStep == QuietInv /\ [ReadersNext]_readVars => QuietInv'
<1> SUFFICES ASSUME QuietInv, [ReadersNext]_readVars PROVE QuietInv'
  OBVIOUS
<1>1. ReadersInv' /\ ReadersInv /\ DeliveryInv
  BY ReadersStep DEF QuietInv, ReadersInv
<1>2. [Next]_vars
  BY DEF ReadersNext, EngineStep, OrderStep, AskOrder, FindCurrentState, FindRawEvents,
     FindDecisions, ReadPendingJobs, GetOrderDetails, EventStep, AskEvent, FindDeliveries,
     FindDeliveryDecisions, GetEventDetails, readVars
<1>3. AuditInv'
  BY <1>2, AuditStep DEF QuietInv
<1>4. ASSUME NEW c \in OrderClients, orderRequests[c] # NULL
      PROVE  \A q : q = orderRequests[c] => QuietRead(q)'
  BY <1>1, <1>2, <1>4, EngineKeepsQuiet DEF QuietInv, ReadersInv, OrderRequestsInv
<1>5. ASSUME NEW b \in OrderClients, orderRequests'[b] # NULL
      PROVE  QuietRead(orderRequests[b])'
  <2>1. PICK q : q = orderRequests'[b]
    OBVIOUS
  <2>2. CASE orderRequests'[b] = orderRequests[b]
    <3>1. QuietRead(q)'
      BY <1>4, <1>5, <2>1, <2>2
    <3> QED
      BY <2>1, <3>1
  <2>3. CASE orderRequests'[b] # orderRequests[b]
    <3>1. DOMAIN orderRequests = OrderClients
      BY <1>1 DEF ReadersInv, OrderRequestsInv
    <3>2. ~EngineStep
      BY <1>5, <2>3 DEF EngineStep, NoOrderRequests, requests
    <3>3. OrderStep(b) /\ UNCHANGED vars
      BY <2>3, <3>1, <3>2 DEF ReadersNext, OrderStep, AskOrder, FindCurrentState, FindRawEvents,
         FindDecisions, ReadPendingJobs, GetOrderDetails, EventStep, AskEvent, FindDeliveries,
         FindDeliveryDecisions, GetEventDetails, readVars, requests
    <3>4. ASSUME NEW r, QuietRead(r) PROVE QuietRead(r)'
      BY <3>3, <3>4 DEF QuietRead, Now, RawEventsOf, Unprocessed, vars, database
    <3>5. PICK o : o = orderRequests[b]
      OBVIOUS
    <3>6. o # NULL => o \in OrderRequest /\ QuietRead(o)
      BY <1>1, <3>5 DEF QuietInv, ReadersInv, OrderRequestsInv, OrderReads
    <3>7. QuietRead(q)
      <4>1. ASSUME NEW x \in OrderIds, AskOrder(b, x) PROVE QuietRead(q)
        <5>1. q = [orderId |-> x, since |-> Now, currentState |-> NULL, rawEvents |-> NULL,
                   auditLog |-> NULL, pendingJobs |-> NULL]
          BY <2>1, <3>1, <4>1 DEF AskOrder
        <5> QED
          BY <5>1 DEF QuietRead
      <4>2. CASE FindCurrentState(b)
        <5>1. o # NULL /\ q = [o EXCEPT !.currentState = orders[o.orderId]]
          BY <2>1, <3>1, <3>5, <4>2 DEF FindCurrentState
        <5> QED
          BY <3>6, <5>1 DEF QuietRead, OrderRequest
      <4>3. CASE FindRawEvents(b)
        <5>1. o # NULL /\ q = [o EXCEPT !.rawEvents = RawEventsOf(o.orderId)]
          BY <2>1, <3>1, <3>5, <4>3 DEF FindRawEvents
        <5> QED
          BY <3>6, <5>1 DEF QuietRead, OrderRequest
      <4>4. CASE FindDecisions(b)
        <5>1. o # NULL /\ q = [o EXCEPT !.auditLog = DecisionsAbout(o.rawEvents)]
          BY <2>1, <3>1, <3>5, <4>4 DEF FindDecisions
        <5> QED
          BY <3>6, <5>1 DEF QuietRead, OrderRequest
      <4>5. CASE ReadPendingJobs(b)
        <5>1. /\ o # NULL
              /\ q = [o EXCEPT !.pendingJobs = RawEventsOf(o.orderId) \cap Unprocessed]
          BY <2>1, <3>1, <3>5, <4>5 DEF ReadPendingJobs
        <5> QED
          BY <3>6, <5>1 DEF QuietRead, OrderRequest
      <4>6. ~GetOrderDetails(b)
        BY <1>5, <3>1 DEF GetOrderDetails
      <4> QED
        BY <3>3, <4>1, <4>2, <4>3, <4>4, <4>5, <4>6 DEF OrderStep
    <3>8. QuietRead(q)'
      BY <3>4, <3>7
    <3> QED
      BY <2>1, <3>8
  <2> QED
    BY <2>2, <2>3
<1> QED
  BY <1>1, <1>3, <1>5 DEF QuietInv

\* The row a response tells of: its history replayed.
LEMMA HistoryReplays ==
  ASSUME QuietInv, NEW q, NEW o, q.auditLog = DecisionsAbout(RawEventsOf(o))
  PROVE  ExplainedState(q) = ReplayedOrder(o, Len(decisions))
<1>1. PICK n : n = Len(decisions)
  OBVIOUS
<1>2. IInv /\ EffectsShown
  BY DEF QuietInv, ReadersInv, DeliveryInv, AuditInv
<1>3. /\ n \in Nat /\ DOMAIN decisions = 1..n
      /\ \A k \in 1..n : decisions[k] \in Decision /\ decisions[k].changedFields \in Changes
  BY <1>1, <1>2, LogType DEF IInv
<1>4. PICK f : f = [k \in 0..n |-> ReplayedOrder(o, k)]
  OBVIOUS
<1>5. Replays(o) /\ \A k \in 0..n : ReplayedOrder(o, k) \in Order
  BY <1>1, <1>2, ReplayFollowsLog, ReplayType DEF LogReplays
<1>6. f[0] = NoOrder /\ \A k \in 1..n : f[k] = Replayed(o, k, f[k - 1]) /\ f[k - 1] \in Order
  <2>1. 0 \in 0..n /\ \A k \in 1..n : k \in 0..n /\ k - 1 \in 0..n
    BY <1>3
  <2> QED
    BY <1>3, <1>4, <1>5, <2>1 DEF Replays
<1>7. ASSUME NEW k \in 1..n
      PROVE  f[k] = IF k \in ReadHistory(q) THEN Patched(f[k - 1], decisions[k].changedFields)
                    ELSE f[k - 1]
  <2>1. k \in DOMAIN decisions /\ decisions[k].rawIncomingEventId \in DOMAIN inbox
    BY <1>2, <1>3 DEF IInv, DoneIffDecided
  <2>2. k \in q.auditLog <=> RawOf(decisions[k]).orderId = o
    BY <2>1 DEF DecisionsAbout, RawEventsOf, RawOf
  <2>3. Effective(decisions[k])
    BY <1>2, <2>1 DEF EffectsShown
  <2>4. f[k] = Replayed(o, k, f[k - 1]) /\ f[k - 1] \in Order
    BY <1>6
  <2>5. CASE k \in q.auditLog /\ Applied(decisions[k])
    BY <2>2, <2>3, <2>4, <2>5 DEF ReadHistory, Effective, Replayed
  <2>6. CASE k \in q.auditLog /\ ~Applied(decisions[k])
    BY <2>2, <2>3, <2>4, <2>6, NothingPatched DEF ReadHistory, Effective, Replayed
  <2>7. CASE k \notin q.auditLog
    BY <2>2, <2>4, <2>7 DEF ReadHistory, Replayed
  <2> QED
    BY <2>5, <2>6, <2>7
<1>8. f = [k \in 0..n |->
             IF k = 0 THEN NoOrder
             ELSE IF k \in ReadHistory(q) THEN Patched(f[k - 1], decisions[k].changedFields)
             ELSE f[k - 1]]
  <2>1. ASSUME NEW k \in 0..n
        PROVE  f[k] = IF k = 0 THEN NoOrder
                      ELSE IF k \in ReadHistory(q)
                           THEN Patched(f[k - 1], decisions[k].changedFields)
                      ELSE f[k - 1]
    <3>1. k = 0 \/ k \in 1..n
      BY <1>3
    <3>2. k \in 1..n => k # 0
      OBVIOUS
    <3> QED
      BY <1>6, <1>7, <3>1, <3>2
  <2> QED
    BY <1>4, <2>1
<1>9. PICK row : /\ row = [k \in 0..n |->
                             IF k = 0 THEN NoOrder
                             ELSE IF k \in ReadHistory(q)
                                  THEN Patched(row[k - 1], decisions[k].changedFields)
                             ELSE row[k - 1]]
                 /\ ExplainedState(q) = row[n]
  BY <1>1, <1>8 DEF ExplainedState
<1>10. f[0] = row[0]
  <2>1. 0 \in 0..n
    BY <1>3
  <2> QED
    BY <1>6, <1>9, <2>1
<1>11. ASSUME NEW k \in 1..n, f[k - 1] = row[k - 1] PROVE f[k] = row[k]
  <2>1. k \in 0..n /\ k # 0
    OBVIOUS
  <2> QED
    BY <1>7, <1>9, <1>11, <2>1
<1>12. \A k \in 1..n : f[k - 1] = row[k - 1] => f[k] = row[k]
  BY <1>11
<1>13. n \in Nat
  BY <1>3
<1>14. \A k \in 0..n : f[k] = row[k]
  BY <1>10, <1>12, <1>13, SameSteps
<1>15. n \in 0..n
  BY <1>13
<1> QED
  BY <1>1, <1>4, <1>9, <1>14, <1>15

\* The parts of a response under which nothing was stored or decided agree: its history
\* replays to the state at its root, every audit entry is history or rejected, and what
\* is not decided is pending (the concurrent queries of getOrderDetails).
THEOREM QuietAnswersAgree == ReadersSpec => []QuietReadsAgree
<1>1. ASSUME QuietInv PROVE QuietReadsAgree
  <2> SUFFICES ASSUME NEW q \in AnsweredOrders, q.since = Now
               PROVE  /\ q.currentState = ExplainedState(q)
                      /\ ReadHistory(q) \cup RejectedEvents(q) = q.auditLog
                      /\ ReadHistory(q) \cap RejectedEvents(q) = {}
                      /\ {i \in RawEventsOf(q.orderId) : DecisionsOf(i) \cap q.auditLog = {}}
                           = q.pendingJobs
    BY DEF QuietReadsAgree
  <2>1. PICK o : o = q.orderId
    OBVIOUS
  <2>2. /\ ReadersInv /\ AuditReplaysOrders /\ EffectsShown
        /\ IInv /\ OrderReads(q) /\ AuditLogRead(q) /\ o \in OrderIds
    BY <1>1, <2>1, AnsweredOrderReads DEF QuietInv, AuditInv, OrderReads, OrderRequest
  <2>3. /\ q.currentState = orders[o]
        /\ q.rawEvents = RawEventsOf(o)
        /\ q.pendingJobs = RawEventsOf(o) \cap Unprocessed
    <3>1. PICK c \in OrderClients : OrderAnswered(orderRequests[c]) /\ q = orderRequests[c]
      BY DEF AnsweredOrders
    <3>2. QuietRead(q) /\ q.currentState # NULL /\ q.auditLog # NULL /\ q.pendingJobs # NULL
      BY <1>1, <3>1 DEF QuietInv, OrderAnswered
    <3> QED
      BY <2>1, <2>2, <3>2 DEF QuietRead, OrderReads
  <2>4. q.auditLog = DecisionsAbout(RawEventsOf(o))
    <3>1. DOMAIN decisions = 1..Len(decisions) /\ Len(decisions) \in Nat
      BY <2>2, ReadNow
    <3>2. PICK n \in q.since.decided..Len(decisions) :
            q.auditLog = DecisionsAbout(q.rawEvents) \cap 1..n
      BY <2>2 DEF AuditLogRead
    <3>3. n = Len(decisions)
      <4>1. q.since.decided = Len(decisions)
        BY DEF Now
      <4> QED
        BY <3>1, <3>2, <4>1
    <3>4. DecisionsAbout(q.rawEvents) \subseteq 1..n
      BY <3>1, <3>3 DEF DecisionsAbout
    <3> QED
      BY <2>3, <3>2, <3>4
  <2>5. q.currentState = ExplainedState(q)
    BY <1>1, <2>2, <2>3, <2>4, HistoryReplays DEF AuditReplaysOrders
  <2>6. /\ ReadHistory(q) \cup RejectedEvents(q) = q.auditLog
        /\ ReadHistory(q) \cap RejectedEvents(q) = {}
    <3>1. ASSUME NEW k \in q.auditLog
          PROVE  /\ decisions[k].decision \in Decisions
                 /\ Applied(decisions[k]) => decisions[k].toStatus # NULL
      <4>1. k \in DOMAIN decisions
        BY <2>4 DEF DecisionsAbout
      <4>2. decisions[k] \in Decision
        BY <2>2, <4>1, LogType DEF IInv
      <4> QED
        BY <2>2, <4>1, <4>2 DEF EffectsShown, Effective, Decision
    <3> QED
      BY <3>1 DEF ReadHistory, RejectedEvents, Applied, Decisions
  <2>7. {i \in RawEventsOf(o) : DecisionsOf(i) \cap q.auditLog = {}} = q.pendingJobs
    <3>1. ASSUME NEW i \in RawEventsOf(o)
          PROVE  DecisionsOf(i) \cap q.auditLog = {} <=> i \in Unprocessed
      <4>1. DecisionsOf(i) \subseteq q.auditLog
        BY <2>4 DEF DecisionsOf, DecisionsAbout
      <4>2. DecisionsOf(i) = {} <=> ~Decided(i)
        BY DEF DecisionsOf, Decided
      <4>3. i \in Unprocessed <=> ~Decided(i)
        BY <2>2, RowType DEF RawEventsOf, Unprocessed, IInv, DoneIffDecided, Row,
           ProcessingStatuses
      <4> QED
        BY <4>1, <4>2, <4>3
    <3> QED
      BY <2>3, <3>1
  <2> QED
    BY <2>1, <2>5, <2>6, <2>7
<1> QED
  BY <1>1, InitQuietInv, QuietInvStep, PTL DEF ReadersSpec
=============================================================================
