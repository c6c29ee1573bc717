------------------------------- MODULE Readers -------------------------------
(***************************************************************************)
(* The read side: GET /api/orders/:id and GET /api/events/:eventId.  Each  *)
(* request is answered from several queries, and between two of them the   *)
(* engine may store deliveries and commit decisions.                       *)
(*                                                                         *)
(* The inbox and the audit log only grow, so a query's result is kept as   *)
(* the ids it returned; what may change under a reader, the order row and  *)
(* the processing status of a delivery, is kept by value.                  *)
(*                                                                         *)
(* An operator marked "Mutant" is not part of the model: see OrderRules.   *)
(***************************************************************************)
EXTENDS EventEngineProperties

CONSTANTS OrderClients,  \* each asks for the details of one order at a time
          EventClients   \* each asks for the details of one event id at a time

VARIABLES
  orderRequests,  \* what each order client's request has read so far
  eventRequests   \* what each event client's request has read so far

requests == <<orderRequests, eventRequests>>
readVars == <<vars, requests>>

\* NULL is a query that has not returned.  since is not read by the code: it is
\* how much was stored and decided when the request began.
Since == [stored : Nat, decided : Nat]

OrderRequest == [orderId : OrderIds, since : Since,
                 currentState : Order \cup {NULL},
                 rawEvents : (SUBSET (Nat \ {0})) \cup {NULL},
                 auditLog : (SUBSET (Nat \ {0})) \cup {NULL},
                 pendingJobs : (SUBSET (Nat \ {0})) \cup {NULL}]

Delivery == [id : Nat \ {0}, status : ProcessingStatuses]

EventRequest == [eventId : EventIds, since : Since,
                 deliveries : (SUBSET Delivery) \cup {NULL},
                 decisions : (SUBSET (Nat \ {0})) \cup {NULL}]

ReadersTypeOK ==
  /\ TypeOK
  /\ orderRequests \in [OrderClients -> OrderRequest \cup {NULL}]
  /\ eventRequests \in [EventClients -> EventRequest \cup {NULL}]

NoOrderRequests == [c \in OrderClients |-> NULL]
NoEventRequests == [c \in EventClients |-> NULL]

ReadersInit ==
  /\ Init
  /\ orderRequests = NoOrderRequests
  /\ eventRequests = NoEventRequests

Now == [stored |-> Len(inbox), decided |-> Len(decisions)]

-----------------------------------------------------------------------------
\* GET /api/orders/:id: three chains of queries run concurrently, one for the
\* order row, one for the audit log, one for the pending jobs.

RawEventsOf(o) == {i \in DOMAIN inbox : inbox[i].raw.orderId = o}

DecisionsAbout(ids) == {k \in DOMAIN decisions : decisions[k].rawIncomingEventId \in ids}

AskOrder(c, o) ==
  /\ phase = "serving" /\ orderRequests[c] = NULL
  /\ orderRequests' = [orderRequests EXCEPT ![c] =
       [orderId |-> o, since |-> Now, currentState |-> NULL, rawEvents |-> NULL,
        auditLog |-> NULL, pendingJobs |-> NULL]]
  /\ UNCHANGED <<vars, eventRequests>>

FindCurrentState(c) ==
  /\ orderRequests[c] # NULL /\ orderRequests[c].currentState = NULL
  /\ orderRequests' = [orderRequests EXCEPT
       ![c].currentState = orders[orderRequests[c].orderId]]
  /\ UNCHANGED <<vars, eventRequests>>

\* Mutant: deliveries that wait for a retry are left to pendingJobs.
FindUnretriedRawEvents(c) ==
  /\ orderRequests[c] # NULL /\ orderRequests[c].rawEvents = NULL
  /\ orderRequests' = [orderRequests EXCEPT
       ![c].rawEvents = {i \in RawEventsOf(orderRequests[c].orderId) :
                           inbox[i].processingStatus # "RETRY"}]
  /\ UNCHANGED <<vars, eventRequests>>

\* The first query of readAuditLog.
FindRawEvents(c) ==
  /\ orderRequests[c] # NULL /\ orderRequests[c].rawEvents = NULL
  /\ orderRequests' = [orderRequests EXCEPT
       ![c].rawEvents = RawEventsOf(orderRequests[c].orderId)]
  /\ UNCHANGED <<vars, eventRequests>>

\* The second, left out when the first returned nothing.
FindDecisions(c) ==
  /\ orderRequests[c] # NULL /\ orderRequests[c].rawEvents # NULL
  /\ orderRequests[c].auditLog = NULL
  /\ orderRequests' = [orderRequests EXCEPT
       ![c].auditLog = DecisionsAbout(orderRequests[c].rawEvents)]
  /\ UNCHANGED <<vars, eventRequests>>

\* Mutant: deliveries that wait for a retry are left out.
ReadNewJobs(c) ==
  /\ orderRequests[c] # NULL /\ orderRequests[c].pendingJobs = NULL
  /\ orderRequests' = [orderRequests EXCEPT
       ![c].pendingJobs = {i \in RawEventsOf(orderRequests[c].orderId) :
                             inbox[i].processingStatus = "PENDING"}]
  /\ UNCHANGED <<vars, eventRequests>>

ReadPendingJobs(c) ==
  /\ orderRequests[c] # NULL /\ orderRequests[c].pendingJobs = NULL
  /\ orderRequests' = [orderRequests EXCEPT
       ![c].pendingJobs = RawEventsOf(orderRequests[c].orderId) \cap Unprocessed]
  /\ UNCHANGED <<vars, eventRequests>>

OrderAnswered(q) ==
  q # NULL /\ q.currentState # NULL /\ q.auditLog # NULL /\ q.pendingJobs # NULL

\* Mutant: an order without a row is reported missing.
OrderRowNotFound(q) == Missing(q.currentState)

OrderNotFound(q) ==
  Missing(q.currentState) /\ q.auditLog = {} /\ q.pendingJobs = {}

\* The parts of the response that are selected from the audit log.
ReadHistory(q) ==
  {k \in q.auditLog : Applied(decisions[k]) /\ decisions[k].toStatus # NULL}

\* Mutant: the filter knows rejections only.
RejectionsOnly(q) == {k \in q.auditLog : decisions[k].decision = "REJECTED"}

RejectedEvents(q) ==
  {k \in q.auditLog : decisions[k].decision \in {"REJECTED", "DUPLICATE", "FAILED"}}

\* The response is sent, or 404.
GetOrderDetails(c) ==
  /\ OrderAnswered(orderRequests[c])
  /\ orderRequests' = [orderRequests EXCEPT ![c] = NULL]
  /\ UNCHANGED <<vars, eventRequests>>

-----------------------------------------------------------------------------
\* GET /api/events/:eventId: the deliveries of the id, then their decisions.

DeliveriesOf(e) ==
  {[id |-> i, status |-> inbox[i].processingStatus] :
     i \in {j \in DOMAIN inbox : inbox[j].raw.eventId = e}}

AskEvent(c, e) ==
  /\ phase = "serving" /\ eventRequests[c] = NULL
  /\ eventRequests' = [eventRequests EXCEPT ![c] =
       [eventId |-> e, since |-> Now, deliveries |-> NULL, decisions |-> NULL]]
  /\ UNCHANGED <<vars, orderRequests>>

FindDeliveries(c) ==
  /\ eventRequests[c] # NULL /\ eventRequests[c].deliveries = NULL
  /\ eventRequests' = [eventRequests EXCEPT
       ![c].deliveries = DeliveriesOf(eventRequests[c].eventId)]
  /\ UNCHANGED <<vars, orderRequests>>

\* Mutant: the decisions are looked up by event id before the deliveries.
FindDecisionsFirst(c) ==
  /\ eventRequests[c] # NULL /\ eventRequests[c].decisions = NULL
  /\ eventRequests' = [eventRequests EXCEPT
       ![c].decisions = {k \in DOMAIN decisions :
                           RawOf(decisions[k]).eventId = eventRequests[c].eventId}]
  /\ UNCHANGED <<vars, orderRequests>>

EventNotFound(q) == q.deliveries = {}

FindDeliveryDecisions(c) ==
  /\ eventRequests[c] # NULL /\ eventRequests[c].deliveries # NULL
  /\ ~EventNotFound(eventRequests[c])
  /\ eventRequests[c].decisions = NULL
  /\ eventRequests' = [eventRequests EXCEPT
       ![c].decisions = DecisionsAbout({x.id : x \in eventRequests[c].deliveries})]
  /\ UNCHANGED <<vars, orderRequests>>

EventAnswered(q) ==
  q # NULL /\ q.deliveries # NULL /\ (EventNotFound(q) \/ q.decisions # NULL)

GetEventDetails(c) ==
  /\ EventAnswered(eventRequests[c])
  /\ eventRequests' = [eventRequests EXCEPT ![c] = NULL]
  /\ UNCHANGED <<vars, orderRequests>>

-----------------------------------------------------------------------------
\* The engine goes on; requests under way end with the process.
EngineStep ==
  /\ Next
  /\ IF phase' = "down"
     THEN orderRequests' = NoOrderRequests /\ eventRequests' = NoEventRequests
     ELSE UNCHANGED requests

OrderStep(c) ==
  \/ \E o \in OrderIds : AskOrder(c, o)
  \/ FindCurrentState(c)
  \/ FindRawEvents(c)
  \/ FindDecisions(c)
  \/ ReadPendingJobs(c)
  \/ GetOrderDetails(c)

EventStep(c) ==
  \/ \E e \in EventIds : AskEvent(c, e)
  \/ FindDeliveries(c)
  \/ FindDeliveryDecisions(c)
  \/ GetEventDetails(c)

ReadersNext ==
  \/ EngineStep
  \/ \E c \in OrderClients : OrderStep(c)
  \/ \E c \in EventClients : EventStep(c)

ReadersSpec == ReadersInit /\ [][ReadersNext]_readVars

-----------------------------------------------------------------------------
\* What a client may rely on.  q ranges over the requests that have been answered.

AnsweredOrders == {orderRequests[c] : c \in {d \in OrderClients : OrderAnswered(orderRequests[d])}}
AnsweredEvents == {eventRequests[c] : c \in {d \in EventClients : EventAnswered(eventRequests[d])}}

\* No delivery of the order that was stored before the request falls between the
\* queries of getOrderDetails: it is in pendingJobs or in auditLog, or it was
\* decided while the request ran.
NothingVanishes ==
  \A q \in AnsweredOrders : \A i \in RawEventsOf(q.orderId) :
    i <= q.since.stored =>
      \/ i \in q.pendingJobs
      \/ \E k \in DecisionsOf(i) : k \in q.auditLog \/ k > q.since.decided

\* getOrderDetails answers 404 only if the order had no row and no decision when
\* the request began.
NotFoundWasUndecided ==
  \A q \in AnsweredOrders :
    OrderNotFound(q) =>
      \A k \in DecisionsAbout(RawEventsOf(q.orderId)) : k > q.since.decided

\* Unless a delivery of the order is stored while the request runs, the audit log
\* it returns is all of the order's log up to some moment of the request: a
\* decision is never shown without the earlier ones that led to it.
LogHasNoGaps ==
  \A q \in AnsweredOrders :
    (\A i \in RawEventsOf(q.orderId) : i <= q.since.stored) =>
      \E n \in q.since.decided..Len(decisions) :
        q.auditLog = DecisionsAbout(RawEventsOf(q.orderId)) \cap 1..n

\* The row as the history of the response tells it.
ExplainedState(q) ==
  LET row[k \in 0..Len(decisions)] ==
        IF k = 0 THEN NoOrder
        ELSE IF k \in ReadHistory(q) THEN Patched(row[k - 1], decisions[k].changedFields)
        ELSE row[k - 1]
  IN  row[Len(decisions)]

\* When nothing was stored or decided while the request ran, the parts of its
\* response agree: replaying history yields the root-level state, every audit
\* entry is either history or rejected, and pendingJobs and auditLog split the
\* deliveries of the order between them.
QuietReadsAgree ==
  \A q \in AnsweredOrders :
    q.since = Now =>
      /\ q.currentState = ExplainedState(q)
      /\ ReadHistory(q) \cup RejectedEvents(q) = q.auditLog
      /\ ReadHistory(q) \cap RejectedEvents(q) = {}
      /\ {i \in RawEventsOf(q.orderId) : DecisionsOf(i) \cap q.auditLog = {}}
           = q.pendingJobs

\* The inspector never shows a delivery as DONE without the decision about it,
\* though it reads the two in different queries.
DoneIsExplained ==
  \A q \in AnsweredEvents : \A x \in q.deliveries :
    x.status = "DONE" => DecisionsOf(x.id) \cap q.decisions # {}
=============================================================================
