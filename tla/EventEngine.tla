----------------------------- MODULE EventEngine -----------------------------
(***************************************************************************)
(* The engine behind POST /api/events: deliveries are stored in an inbox,  *)
(* a scheduler polls the inbox and processes what is due one delivery at a *)
(* time, and each delivery is decided in one database transaction that     *)
(* writes the orders, their field versions, the claimed event ids, the     *)
(* audit log, the inbox row and the statistics together.                   *)
(*                                                                         *)
(* The database survives a crash; the scheduler's state does not.  A       *)
(* database transaction is one atomic step.  Several invocations of the    *)
(* poll may be under way at once (an interval that fires while an earlier  *)
(* poll awaits the database), each with the rows it read.                  *)
(*                                                                         *)
(* An operator marked "Mutant" is not part of the model: see OrderRules.   *)
(***************************************************************************)
EXTENDS OrderRules, Sequences, FiniteSets

CONSTANTS RawEvents,      \* the items clients may post
          Polls,          \* invocations of the poll that may overlap
          MaxDeliveries,  \* bound: rows ever stored in the inbox
          MaxBatch        \* bound: items in one request

ProcessingStatuses == {"PENDING", "RETRY", "DONE"}

MaxProcessingAttempts == 3   \* budget of technical failures
MaxRetryableAttempts == 3    \* budget of missing-order attempts

\* A posted item; NULL is a field that is absent or has the wrong type, and
\* "UNSUPPORTED" any type the engine has no handler for.
RawEvent == [eventId : EventIds \cup {NULL}, orderId : OrderIds \cup {NULL},
             type : SupportedEventTypes \cup {"UNSUPPORTED", NULL},
             timestamp : Int \cup {NULL}, payload : Payload \cup {NULL}]

ASSUME EngineAssumption ==
  /\ RawEvents \subseteq RawEvent
  /\ NULL \notin SupportedEventTypes \cup {"UNSUPPORTED"}
  /\ NULL \notin Payload
  /\ MaxDeliveries \in Nat /\ MaxBatch \in Nat

VARIABLES
  inbox,      \* raw_incoming_events, by id
  keys,       \* processed_event_keys: the delivery that claimed an event id
  orders,     \* orders
  versions,   \* order_field_versions
  decisions,  \* event_decisions, oldest first
  stats,      \* engine_stats
  phase,      \* of the process: down, starting (the poll on module
              \* initialization has not ended) or serving
  isPolling,  \* the scheduler's guard
  pc,         \* where each poll stands
  batch       \* the rows each poll has read and not processed yet

database == <<inbox, keys, orders, versions, decisions, stats>>
worker == <<phase, isPolling, pc, batch>>
vars == <<database, worker>>

-----------------------------------------------------------------------------
\* Types.

Row == [raw : RawEvents, processingStatus : ProcessingStatuses,
        due : BOOLEAN,   \* availableAt is not in the future
        attempts : Nat,
        lastErrorMessage : {NULL, "ORDER_NOT_READY", "ERROR"}]

Decision == [rawIncomingEventId : Nat \ {0},
             decision : Decisions, reasonCode : ReasonCodes,
             fromStatus : OrderStatuses \cup {NULL},
             toStatus : OrderStatuses \cup {NULL},
             changedFields : Changes, skippedFields : SUBSET VersionedFields]

Stats == [processed : Nat, valid : Nat, rejected : Nat, duplicate : Nat]

\* What a poll keeps of a row it has read.
Entry == [id : Nat \ {0}, attempts : Nat]

TypeOK ==
  /\ inbox \in Seq(Row)
  /\ keys \in [EventIds -> (Nat \ {0}) \cup {NULL}]
  /\ orders \in [OrderIds -> Order]
  /\ versions \in [OrderIds -> Versions]
  /\ decisions \in Seq(Decision)
  /\ stats \in Stats
  /\ phase \in {"down", "starting", "serving"}
  /\ isPolling \in BOOLEAN
  /\ pc \in [Polls -> {"idle", "fetched", "processing", "failing"}]
  /\ batch \in [Polls -> SUBSET Entry]

Init ==
  /\ inbox = <<>>
  /\ keys = [e \in EventIds |-> NULL]
  /\ orders = [o \in OrderIds |-> NoOrder]
  /\ versions = [o \in OrderIds |-> NoVersions]
  /\ decisions = <<>>
  /\ stats = [processed |-> 0, valid |-> 0, rejected |-> 0, duplicate |-> 0]
  /\ phase = "down"
  /\ isPolling = FALSE
  /\ pc = [p \in Polls |-> "idle"]
  /\ batch = [p \in Polls |-> {}]

-----------------------------------------------------------------------------
\* Ingestion: one request stores its items, whatever they are, in one
\* transaction.  The server listens only after the first poll has ended.

CreateRawIncomingEvent(raw) ==
  [raw |-> raw, processingStatus |-> "PENDING", due |-> TRUE, attempts |-> 0,
   lastErrorMessage |-> NULL]

EnqueueBatch ==
  /\ phase = "serving"
  /\ \E n \in 1..MaxBatch : \E items \in [1..n -> RawEvents] :
       /\ Len(inbox) + n <= MaxDeliveries
       /\ inbox' = inbox \o [k \in 1..n |-> CreateRawIncomingEvent(items[k])]
  /\ UNCHANGED <<keys, orders, versions, decisions, stats, worker>>

\* The retry delay of a rescheduled row has passed.
RetryDelayElapses(i) ==
  /\ i \in DOMAIN inbox
  /\ ~inbox[i].due
  /\ inbox' = [inbox EXCEPT ![i].due = TRUE]
  /\ UNCHANGED <<keys, orders, versions, decisions, stats, worker>>

-----------------------------------------------------------------------------
\* The process.

Boot ==
  /\ phase = "down"
  /\ phase' = "starting"
  /\ UNCHANGED <<database, isPolling, pc, batch>>

\* The process dies between two transactions, or inside one that is then
\* rolled back.
Crash ==
  /\ phase # "down"
  /\ phase' = "down"
  /\ isPolling' = FALSE
  /\ pc' = [p \in Polls |-> "idle"]
  /\ batch' = [p \in Polls |-> {}]
  /\ UNCHANGED database

-----------------------------------------------------------------------------
\* The scheduler.

Unprocessed == {i \in DOMAIN inbox : inbox[i].processingStatus \in {"PENDING", "RETRY"}}

\* Mutant: in the order they were stored.
PrecedesById(i, j) == i < j

\* Order in which a poll processes rows: by timestamp, rows without one
\* last, then by id.
Precedes(i, j) ==
  LET a == inbox[i].raw.timestamp
      b == inbox[j].raw.timestamp
  IN  \/ a # NULL /\ b = NULL
      \/ a # NULL /\ b # NULL /\ a < b
      \/ a = b /\ i < j

\* Entry x is the next one poll p processes.
IsNext(p, x) ==
  x \in batch[p] /\ \A y \in batch[p] : y.id = x.id \/ Precedes(x.id, y.id)

\* Mutant: nothing keeps two polls apart.
StartPollUnguarded(p) ==
  /\ phase # "down" /\ pc[p] = "idle"
  /\ isPolling' = TRUE
  /\ batch' = [batch EXCEPT
       ![p] = {[id |-> i, attempts |-> inbox[i].attempts] : i \in Unprocessed}]
  /\ pc' = [pc EXCEPT ![p] = "fetched"]
  /\ UNCHANGED <<database, phase>>

StartPoll(p) ==
  /\ phase # "down" /\ pc[p] = "idle"
  /\ ~isPolling
  /\ isPolling' = TRUE
  /\ batch' = [batch EXCEPT
       ![p] = {[id |-> i, attempts |-> inbox[i].attempts] : i \in Unprocessed}]
  /\ pc' = [pc EXCEPT ![p] = "fetched"]
  /\ UNCHANGED <<database, phase>>

\* Mutant: rows whose delay has not passed are kept.
FilterNothing(p) ==
  /\ pc[p] = "fetched"
  /\ pc' = [pc EXCEPT ![p] = "processing"]
  /\ UNCHANGED <<database, phase, isPolling, batch>>

FilterAvailableEvents(p) ==
  /\ pc[p] = "fetched"
  /\ batch' = [batch EXCEPT ![p] = {x \in @ : inbox[x.id].due}]
  /\ pc' = [pc EXCEPT ![p] = "processing"]
  /\ UNCHANGED <<database, phase, isPolling>>

EndPoll(p) ==
  /\ pc[p] = "processing" /\ batch[p] = {}
  /\ isPolling' = FALSE
  /\ pc' = [pc EXCEPT ![p] = "idle"]
  /\ phase' = "serving"
  /\ UNCHANGED <<database, batch>>

\* Mutant: the guard is not released when the poll rejects.
PollFailsHolding(p) ==
  /\ pc[p] \in {"fetched", "failing"}
  /\ pc' = [pc EXCEPT ![p] = "idle"]
  /\ batch' = [batch EXCEPT ![p] = {}]
  /\ phase' = IF phase = "starting" THEN "down" ELSE phase
  /\ UNCHANGED <<database, isPolling>>

\* A query of the poll itself or the transaction that records a failure
\* rejects: the poll gives up the rest of its rows.  On module
\* initialization the rejection also ends the process.
PollFails(p) ==
  /\ pc[p] \in {"fetched", "failing"}
  /\ isPolling' = FALSE
  /\ pc' = [pc EXCEPT ![p] = "idle"]
  /\ batch' = [batch EXCEPT ![p] = {}]
  /\ phase' = IF phase = "starting" THEN "down" ELSE phase
  /\ UNCHANGED database

-----------------------------------------------------------------------------
\* Writing decisions.

\* Mutant: a FAILED delivery is not counted as rejected.
IncrementStatsSkipsFailed(s, decision) ==
  [processed |-> s.processed + 1,
   valid |-> s.valid + IF decision \in {"ACCEPTED", "PARTIALLY_APPLIED"} THEN 1 ELSE 0,
   duplicate |-> s.duplicate + IF decision = "DUPLICATE" THEN 1 ELSE 0,
   rejected |-> s.rejected + IF decision = "REJECTED" THEN 1 ELSE 0]

\* Mutant: a duplicate also counts as rejected.
IncrementStatsRejectsDuplicates(s, decision) ==
  [processed |-> s.processed + 1,
   valid |-> s.valid + IF decision \in {"ACCEPTED", "PARTIALLY_APPLIED"} THEN 1 ELSE 0,
   duplicate |-> s.duplicate + IF decision = "DUPLICATE" THEN 1 ELSE 0,
   rejected |-> s.rejected + IF decision \in {"REJECTED", "FAILED", "DUPLICATE"}
                             THEN 1 ELSE 0]

IncrementStats(s, decision) ==
  [processed |-> s.processed + 1,
   valid |-> s.valid + IF decision \in {"ACCEPTED", "PARTIALLY_APPLIED"} THEN 1 ELSE 0,
   duplicate |-> s.duplicate + IF decision = "DUPLICATE" THEN 1 ELSE 0,
   rejected |-> s.rejected + IF decision \in {"REJECTED", "FAILED"} THEN 1 ELSE 0]

\* A decision without effect on an order.
BareDecision(id, decision, reason) ==
  [rawIncomingEventId |-> id, decision |-> decision, reasonCode |-> reason,
   fromStatus |-> NULL, toStatus |-> NULL,
   changedFields |-> NoChanges, skippedFields |-> {}]

OutcomeDecision(id, out) ==
  [rawIncomingEventId |-> id, decision |-> out.decision,
   reasonCode |-> out.reasonCode, fromStatus |-> out.fromStatus,
   toStatus |-> out.toStatus, changedFields |-> out.changedFields,
   skippedFields |-> out.skippedFields]

WriteDecision(d, attempts, lastErrorMessage) ==
  /\ decisions' = Append(decisions, d)
  /\ inbox' = [inbox EXCEPT ![d.rawIncomingEventId] =
       [@ EXCEPT !.processingStatus = "DONE", !.due = TRUE, !.attempts = attempts,
                 !.lastErrorMessage = lastErrorMessage]]
  /\ stats' = IncrementStats(stats, d.decision)

WriteFinalDecision(d, attempts) == WriteDecision(d, attempts, NULL)

\* Mutant: the row of a FAILED delivery is left as it was.
WriteFailedDecisionOnly(id) ==
  LET d == BareDecision(id, "FAILED", "PROCESSING_ERROR")
  IN  /\ decisions' = Append(decisions, d)
      /\ stats' = IncrementStats(stats, d.decision)
      /\ UNCHANGED inbox

WriteFailedDecision(id) ==
  WriteDecision(BareDecision(id, "FAILED", "PROCESSING_ERROR"),
                inbox[id].attempts, "ERROR")

MarkRetryableFailure(id, attempts, message) ==
  /\ inbox' = [inbox EXCEPT ![id] =
       [@ EXCEPT !.processingStatus = "RETRY", !.due = FALSE,
                 !.attempts = attempts + 1, !.lastErrorMessage = message]]
  /\ UNCHANGED <<decisions, stats>>

-----------------------------------------------------------------------------
\* The transaction that processes a delivery.

\* The reason a raw event is invalid, NULL if it is valid.
Validate(raw) ==
  IF NULL \in {raw.eventId, raw.orderId, raw.type} THEN "INVALID_SCHEMA"
  ELSE IF raw.type \notin SupportedEventTypes THEN "UNKNOWN_EVENT_TYPE"
  ELSE IF NULL \in {raw.timestamp, raw.payload} THEN "INVALID_SCHEMA"
  ELSE NULL

Valid(i) == Validate(inbox[i].raw) = NULL

Decided(i) == \E k \in DOMAIN decisions : decisions[k].rawIncomingEventId = i

\* Mutant: the rejection of its holder frees a key.
ClaimedByUnrejected(i) ==
  LET holder == keys[inbox[i].raw.eventId]
  IN  /\ holder \notin {NULL, i}
      /\ ~\E k \in DOMAIN decisions : /\ decisions[k].rawIncomingEventId = holder
                                      /\ decisions[k].decision = "REJECTED"

ClaimedByAnother(i) == keys[inbox[i].raw.eventId] \notin {NULL, i}

ClaimEventId(i) == keys' = [keys EXCEPT ![inbox[i].raw.eventId] = i]

\* What the delivery's event does to its order as it now stands.
OutcomeOf(i) ==
  LET e == inbox[i].raw
  IN  HandleEvent(orders[e.orderId], versions[e.orderId], e)

OrderNotReady(i) == OutcomeOf(i).reasonCode = "ORDER_NOT_READY"

RejectInvalid(x) ==
  /\ ~Valid(x.id)
  /\ WriteFinalDecision(BareDecision(x.id, "REJECTED", Validate(inbox[x.id].raw)),
                        inbox[x.id].attempts)
  /\ UNCHANGED <<keys, orders, versions>>

DecideDuplicate(x) ==
  /\ Valid(x.id) /\ ClaimedByAnother(x.id)
  /\ WriteFinalDecision(BareDecision(x.id, "DUPLICATE", "DUPLICATE_EVENT"),
                        inbox[x.id].attempts)
  /\ UNCHANGED <<keys, orders, versions>>

\* The handler reaches a final decision, which may be a rejection.
DecideEvent(x) ==
  LET e == inbox[x.id].raw
      out == OutcomeOf(x.id)
  IN  /\ Valid(x.id) /\ ~ClaimedByAnother(x.id) /\ ~OrderNotReady(x.id)
      /\ ClaimEventId(x.id)
      /\ orders' = [orders EXCEPT ![e.orderId] = out.order]
      /\ versions' = [versions EXCEPT ![e.orderId] = out.versions]
      /\ WriteFinalDecision(OutcomeDecision(x.id, out), inbox[x.id].attempts)

\* The order does not exist yet: the event is put off, its id stays claimed.
RetryNotReady(x) ==
  /\ Valid(x.id) /\ ~ClaimedByAnother(x.id) /\ OrderNotReady(x.id)
  /\ x.attempts + 1 < MaxRetryableAttempts
  /\ ClaimEventId(x.id)
  /\ MarkRetryableFailure(x.id, x.attempts, "ORDER_NOT_READY")
  /\ UNCHANGED <<orders, versions>>

RejectNotReady(x) ==
  /\ Valid(x.id) /\ ~ClaimedByAnother(x.id) /\ OrderNotReady(x.id)
  /\ x.attempts + 1 >= MaxRetryableAttempts
  /\ ClaimEventId(x.id)
  /\ WriteFinalDecision(OutcomeDecision(x.id, OutcomeOf(x.id)), x.attempts + 1)
  /\ UNCHANGED <<orders, versions>>

\* The transaction commits; a delivery that has a decision is left alone.
ProcessEvent(p) ==
  /\ pc[p] = "processing"
  /\ \E x \in batch[p] :
       /\ IsNext(p, x)
       /\ batch' = [batch EXCEPT ![p] = @ \ {x}]
       /\ IF Decided(x.id)
          THEN UNCHANGED database
          ELSE \/ RejectInvalid(x)
               \/ DecideDuplicate(x)
               \/ DecideEvent(x)
               \/ RetryNotReady(x)
               \/ RejectNotReady(x)
  /\ UNCHANGED <<phase, isPolling, pc>>

\* Something in the transaction throws and everything it wrote is rolled back.
TransactionThrows(p) ==
  /\ pc[p] = "processing" /\ batch[p] # {}
  /\ pc' = [pc EXCEPT ![p] = "failing"]
  /\ UNCHANGED <<database, phase, isPolling, batch>>

\* Mutant: one attempt too many.
HandleFailureOnceMore(p) ==
  /\ pc[p] = "failing"
  /\ \E x \in batch[p] :
       /\ IsNext(p, x)
       /\ batch' = [batch EXCEPT ![p] = @ \ {x}]
       /\ \/ /\ inbox[x.id].attempts + 1 > MaxProcessingAttempts
             /\ WriteFailedDecision(x.id)
          \/ /\ inbox[x.id].attempts + 1 <= MaxProcessingAttempts
             /\ MarkRetryableFailure(x.id, inbox[x.id].attempts, "ERROR")
  /\ pc' = [pc EXCEPT ![p] = "processing"]
  /\ UNCHANGED <<keys, orders, versions, phase, isPolling>>

\* The failure is recorded in a transaction of its own, on the row as it is
\* then stored.
HandleUnexpectedFailure(p) ==
  /\ pc[p] = "failing"
  /\ \E x \in batch[p] :
       /\ IsNext(p, x)
       /\ batch' = [batch EXCEPT ![p] = @ \ {x}]
       /\ \/ /\ inbox[x.id].attempts + 1 >= MaxProcessingAttempts
             /\ WriteFailedDecision(x.id)
          \/ /\ inbox[x.id].attempts + 1 < MaxProcessingAttempts
             /\ MarkRetryableFailure(x.id, inbox[x.id].attempts, "ERROR")
  /\ pc' = [pc EXCEPT ![p] = "processing"]
  /\ UNCHANGED <<keys, orders, versions, phase, isPolling>>

-----------------------------------------------------------------------------
Poll(p) ==
  \/ StartPoll(p)
  \/ FilterAvailableEvents(p)
  \/ ProcessEvent(p)
  \/ TransactionThrows(p)
  \/ HandleUnexpectedFailure(p)
  \/ PollFails(p)
  \/ EndPoll(p)

Next ==
  \/ EnqueueBatch
  \/ \E i \in DOMAIN inbox : RetryDelayElapses(i)
  \/ Boot
  \/ Crash
  \/ \E p \in Polls : Poll(p)

Spec == Init /\ [][Next]_vars

\* The container is restarted after every exit, delays pass, and the interval
\* keeps firing.  Crashes and failing transactions are transient: a step that is
\* possible again and again succeeds at last.
Fairness ==
  /\ WF_vars(Boot)
  /\ \A i \in 1..MaxDeliveries : WF_vars(RetryDelayElapses(i))
  /\ SF_vars(\E p \in Polls : StartPoll(p))
  /\ SF_vars(\E p \in Polls : FilterAvailableEvents(p))
  /\ SF_vars(\E p \in Polls : ProcessEvent(p) \/ TransactionThrows(p))
  /\ SF_vars(\E p \in Polls : HandleUnexpectedFailure(p))
  /\ WF_vars(\E p \in Polls : EndPoll(p))

FairSpec == Spec /\ Fairness
=============================================================================
