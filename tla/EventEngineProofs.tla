-------------------------- MODULE EventEngineProofs --------------------------
(***************************************************************************)
(* Theorems about the engine for every set of posted items, of polls and   *)
(* of orders.                                                              *)
(*                                                                         *)
(* The first part is about orders and polls: types, exclusion of polls,    *)
(* one decision per delivery, the agreement of status and money, and the   *)
(* implementation of OrderLedger.                                          *)
(*                                                                         *)
(* The second is about what becomes of a delivery: its attempts, its       *)
(* delay, the key of its event id, the statistics that count it, and what  *)
(* a client sees of that.  It says once what a step of the engine does to  *)
(* the database; every theorem after it goes through those few cases.      *)
(***************************************************************************)
EXTENDS EventEngineProperties, OrderRulesProofs, FiniteSetTheorems, SequenceTheorems, TLAPS

\* A poll that is not under way holds no rows.
IdleHoldsNothing == \A p \in Polls : pc[p] = "idle" => batch[p] = {}

\* The inductive invariant.
IInv ==
  /\ TypeOK
  /\ LedgerConsistent
  /\ PollSnapshotsFresh
  /\ IdleHoldsNothing
  /\ DoneIffDecided

-----------------------------------------------------------------------------
\* Types of the parts.

\* The values that stand for nothing are of their types.
LEMMA NoOrderType == NoOrder \in Order /\ NoVersions \in Versions /\ NoChanges \in Changes
  BY DEF NoOrder, Order, OrderStatuses, NoVersions, Versions, Version, NoChanges, Changes

\* A row and its id.
LEMMA RowOfInbox ==
  ASSUME TypeOK, NEW i \in DOMAIN inbox
  PROVE  inbox[i] \in Row /\ i \in Nat \ {0} /\ DOMAIN inbox = 1..Len(inbox)
  BY LenProperties, ElementOfSeq DEF TypeOK

\* The empty database satisfies the invariant.
LEMMA InitInv == Init => IInv
<1> SUFFICES ASSUME Init PROVE IInv
  OBVIOUS
<1> USE DEF Init
<1>1. TypeOK
  <2>1. inbox \in Seq(Row) /\ decisions \in Seq(Decision)
    OBVIOUS
  <2>2. /\ keys \in [EventIds -> (Nat \ {0}) \cup {NULL}]
        /\ stats \in Stats
        /\ phase \in {"down", "starting", "serving"} /\ isPolling \in BOOLEAN
        /\ pc \in [Polls -> {"idle", "fetched", "processing", "failing"}]
        /\ batch \in [Polls -> SUBSET Entry]
    BY DEF Stats
  <2>3. orders \in [OrderIds -> Order] /\ versions \in [OrderIds -> Versions]
    BY NoOrderType
  <2> QED
    BY <2>1, <2>2, <2>3 DEF TypeOK
<1>2. LedgerConsistent
  BY DEF LedgerConsistent, ConsistentRow
<1>3. PollSnapshotsFresh /\ IdleHoldsNothing
  BY DEF PollSnapshotsFresh, IdleHoldsNothing
<1>4. DoneIffDecided
  BY DEF DoneIffDecided, Decided
<1> QED
  BY <1>1, <1>2, <1>3, <1>4 DEF IInv

-----------------------------------------------------------------------------
\* What a transaction writes.

\* The row of delivery i becomes DONE and one decision about it is appended.
Settled(i) ==
  \E d \in Decision, r \in Row :
    /\ d.rawIncomingEventId = i
    /\ r.raw = inbox[i].raw /\ r.processingStatus = "DONE"
    /\ inbox' = [inbox EXCEPT ![i] = r]
    /\ decisions' = Append(decisions, d)
    /\ stats' \in Stats

\* The row of delivery i waits for another attempt.
Rescheduled(i) ==
  \E r \in Row :
    /\ r.raw = inbox[i].raw /\ r.processingStatus = "RETRY"
    /\ inbox' = [inbox EXCEPT ![i] = r]
    /\ UNCHANGED <<decisions, stats>>

\* The orders stay as they are, or one of them moves along the ledger.
OrdersMove ==
  /\ keys' \in [EventIds -> (Nat \ {0}) \cup {NULL}]
  /\ versions' \in [OrderIds -> Versions]
  /\ \/ UNCHANGED orders
     \/ \E o \in OrderIds : \E r \in Order :
          LedgerStep(orders[o], r) /\ orders' = [orders EXCEPT ![o] = r]

LEMMA StatsType ==
  ASSUME NEW s \in Stats, NEW decision
  PROVE  IncrementStats(s, decision) \in Stats
  BY DEF IncrementStats, Stats

\* The two writes to a row: one settles it, the other reschedules it.
LEMMA WriteDecisionSettles ==
  ASSUME TypeOK, NEW i \in DOMAIN inbox, NEW d \in Decision,
         d.rawIncomingEventId = i, NEW attempts \in Nat,
         NEW message \in {NULL, "ORDER_NOT_READY", "ERROR"},
         WriteDecision(d, attempts, message)
  PROVE  Settled(i)
<1> DEFINE r == [inbox[i] EXCEPT !.processingStatus = "DONE", !.due = TRUE,
                                 !.attempts = attempts, !.lastErrorMessage = message]
<1>1. inbox[i] \in Row
  BY RowOfInbox
<1>2. r \in Row /\ r.raw = inbox[i].raw /\ r.processingStatus = "DONE"
  BY <1>1 DEF Row, ProcessingStatuses
<1>3. inbox' = [inbox EXCEPT ![i] = r]
  BY DEF WriteDecision
<1>4. decisions' = Append(decisions, d) /\ stats' \in Stats
  BY StatsType DEF WriteDecision, TypeOK
<1> HIDE DEF r
<1> QED
  BY <1>2, <1>3, <1>4 DEF Settled

LEMMA RetryReschedules ==
  ASSUME TypeOK, NEW i \in DOMAIN inbox, NEW attempts \in Nat,
         NEW message \in {NULL, "ORDER_NOT_READY", "ERROR"},
         MarkRetryableFailure(i, attempts, message)
  PROVE  Rescheduled(i)
<1> DEFINE next == attempts + 1
           r == [inbox[i] EXCEPT !.processingStatus = "RETRY", !.due = FALSE,
                                 !.attempts = next, !.lastErrorMessage = message]
<1>1. inbox[i] \in Row /\ next \in Nat
  BY RowOfInbox
<1>2. inbox' = [inbox EXCEPT ![i] = r] /\ UNCHANGED <<decisions, stats>>
  BY DEF MarkRetryableFailure
<1> HIDE DEF next
<1>3. r \in Row /\ r.raw = inbox[i].raw /\ r.processingStatus = "RETRY"
  BY <1>1 DEF Row, ProcessingStatuses
<1> HIDE DEF r
<1> QED
  BY <1>2, <1>3 DEF Rescheduled

\* What is decided is well formed and about the row at hand.
LEMMA BareDecisionType ==
  ASSUME NEW i \in Nat \ {0}, NEW decision \in Decisions, NEW reason \in ReasonCodes
  PROVE  /\ BareDecision(i, decision, reason) \in Decision
         /\ BareDecision(i, decision, reason).rawIncomingEventId = i
  BY NoOrderType DEF BareDecision, Decision

LEMMA OutcomeDecisionType ==
  ASSUME NEW i \in Nat \ {0}, NEW out \in Outcome
  PROVE  /\ OutcomeDecision(i, out) \in Decision
         /\ OutcomeDecision(i, out).rawIncomingEventId = i
  BY DEF OutcomeDecision, Decision, Outcome

\* A raw event that validation lets through is a well-formed event.
LEMMA ValidIsEvent ==
  ASSUME TypeOK, NEW i \in DOMAIN inbox, Valid(i)
  PROVE  inbox[i].raw \in Event
<1> DEFINE raw == inbox[i].raw
<1>1. raw \in RawEvent
  BY RowOfInbox, EngineAssumption DEF Row
<1>2. /\ raw.eventId # NULL /\ raw.orderId # NULL /\ raw.type \in SupportedEventTypes
      /\ raw.timestamp # NULL /\ raw.payload # NULL
  <2>1. NULL # "INVALID_SCHEMA" /\ NULL # "UNKNOWN_EVENT_TYPE"
    BY NullAssumption DEF ReasonCodes
  <2> QED
    BY <2>1 DEF Valid, Validate
<1> HIDE DEF raw
<1>3. raw \in Event
  BY <1>1, <1>2 DEF RawEvent, Event
<1> QED
  BY <1>3 DEF raw

\* A valid event moves its order along the ledger or leaves it alone.
LEMMA OutcomeOfStep ==
  ASSUME TypeOK, LedgerConsistent, NEW i \in DOMAIN inbox, Valid(i)
  PROVE  /\ inbox[i].raw.orderId \in OrderIds /\ inbox[i].raw.eventId \in EventIds
         /\ OutcomeOf(i) \in Outcome
         /\ LedgerStep(orders[inbox[i].raw.orderId], OutcomeOf(i).order)
<1> DEFINE e == inbox[i].raw
<1>1. e \in Event
  BY ValidIsEvent
<1>2. e.orderId \in OrderIds /\ e.eventId \in EventIds
  BY <1>1 DEF Event
<1>3. /\ orders[e.orderId] \in Order /\ versions[e.orderId] \in Versions
      /\ ConsistentRow(orders[e.orderId])
  BY <1>2 DEF TypeOK, LedgerConsistent
<1>4. OutcomeOf(i) = HandleEvent(orders[e.orderId], versions[e.orderId], e)
  BY DEF OutcomeOf
<1> HIDE DEF e
<1>5. /\ OutcomeOf(i) \in Outcome
      /\ LedgerStep(orders[e.orderId], OutcomeOf(i).order)
  BY <1>1, <1>3, <1>4, HandleEventStep
<1> QED
  BY <1>2, <1>5 DEF e

ProcessingActions(x) ==
  \/ RejectInvalid(x) \/ DecideDuplicate(x) \/ DecideEvent(x)
  \/ RetryNotReady(x) \/ RejectNotReady(x)

LEMMA ClaimType ==
  ASSUME TypeOK, NEW i \in DOMAIN inbox, ClaimEventId(i)
  PROVE  keys' \in [EventIds -> (Nat \ {0}) \cup {NULL}]
  BY RowOfInbox DEF ClaimEventId, TypeOK

\* The transaction of processEvent settles or reschedules its row, and moves at most the
\* order of that row.
LEMMA ProcessingEffect ==
  ASSUME TypeOK, LedgerConsistent, NEW x \in Entry, x.id \in DOMAIN inbox,
         ProcessingActions(x)
  PROVE  (Settled(x.id) \/ Rescheduled(x.id)) /\ OrdersMove
<1> DEFINE i == x.id
<1>1. /\ inbox[i] \in Row /\ inbox[i].attempts \in Nat /\ i \in Nat \ {0}
      /\ x.attempts \in Nat /\ x.attempts + 1 \in Nat
  BY RowOfInbox DEF Row, Entry
<1>2. UNCHANGED <<keys, versions>> => /\ keys' \in [EventIds -> (Nat \ {0}) \cup {NULL}]
                                    /\ versions' \in [OrderIds -> Versions]
  BY DEF TypeOK
<1>3. CASE RejectInvalid(x)
  <2> DEFINE d == BareDecision(i, "REJECTED", Validate(inbox[i].raw))
  <2>1. Validate(inbox[i].raw) \in ReasonCodes
    BY <1>3 DEF RejectInvalid, Valid, Validate, ReasonCodes
  <2>2. d \in Decision /\ d.rawIncomingEventId = i
    BY <1>1, <2>1, BareDecisionType DEF Decisions
  <2>3. WriteDecision(d, inbox[i].attempts, NULL)
    BY <1>3 DEF RejectInvalid, WriteFinalDecision
  <2> HIDE DEF d
  <2>4. Settled(i)
    BY <1>1, <2>2, <2>3, WriteDecisionSettles
  <2> QED
    BY <1>2, <1>3, <2>4 DEF RejectInvalid, OrdersMove
<1>4. CASE DecideDuplicate(x)
  <2> DEFINE d == BareDecision(i, "DUPLICATE", "DUPLICATE_EVENT")
  <2>1. d \in Decision /\ d.rawIncomingEventId = i
    BY <1>1, BareDecisionType DEF Decisions, ReasonCodes
  <2>2. WriteDecision(d, inbox[i].attempts, NULL)
    BY <1>4 DEF DecideDuplicate, WriteFinalDecision
  <2> HIDE DEF d
  <2>3. Settled(i)
    BY <1>1, <2>1, <2>2, WriteDecisionSettles
  <2> QED
    BY <1>2, <1>4, <2>3 DEF DecideDuplicate, OrdersMove
<1>5. CASE DecideEvent(x)
  <2> DEFINE d == OutcomeDecision(i, OutcomeOf(i))
             o == inbox[i].raw.orderId
  <2>1. Valid(i)
    BY <1>5 DEF DecideEvent
  <2>2. /\ o \in OrderIds /\ OutcomeOf(i) \in Outcome
        /\ LedgerStep(orders[o], OutcomeOf(i).order)
    BY <2>1, OutcomeOfStep
  <2>3. d \in Decision /\ d.rawIncomingEventId = i
    BY <1>1, <2>2, OutcomeDecisionType
  <2>4. WriteDecision(d, inbox[i].attempts, NULL)
    BY <1>5 DEF DecideEvent, WriteFinalDecision
  <2>5. /\ orders' = [orders EXCEPT ![o] = OutcomeOf(i).order]
        /\ versions' = [versions EXCEPT ![o] = OutcomeOf(i).versions]
        /\ ClaimEventId(i)
    BY <1>5 DEF DecideEvent
  <2> HIDE DEF d, o
  <2>6. Settled(i)
    BY <1>1, <2>3, <2>4, WriteDecisionSettles
  <2>7. OutcomeOf(i).order \in Order /\ OutcomeOf(i).versions \in Versions
    BY <2>2 DEF Outcome
  <2>8. versions' \in [OrderIds -> Versions]
    BY <2>2, <2>5, <2>7 DEF TypeOK
  <2> QED
    BY <2>2, <2>5, <2>6, <2>7, <2>8, ClaimType DEF OrdersMove
<1>6. CASE RetryNotReady(x)
  <2>1. MarkRetryableFailure(i, x.attempts, "ORDER_NOT_READY")
    BY <1>6 DEF RetryNotReady
  <2>2. Rescheduled(i)
    BY <1>1, <2>1, RetryReschedules
  <2>3. ClaimEventId(i) /\ UNCHANGED <<orders, versions>>
    BY <1>6 DEF RetryNotReady
  <2> QED
    BY <2>2, <2>3, ClaimType DEF OrdersMove, TypeOK
<1>7. CASE RejectNotReady(x)
  <2> DEFINE d == OutcomeDecision(i, OutcomeOf(i))
  <2>1. Valid(i)
    BY <1>7 DEF RejectNotReady
  <2>2. OutcomeOf(i) \in Outcome
    BY <2>1, OutcomeOfStep
  <2>3. d \in Decision /\ d.rawIncomingEventId = i
    BY <1>1, <2>2, OutcomeDecisionType
  <2>4. WriteDecision(d, x.attempts + 1, NULL)
    BY <1>7 DEF RejectNotReady, WriteFinalDecision
  <2> HIDE DEF d
  <2>5. Settled(i)
    <3> DEFINE a == x.attempts + 1
    <3>1. a \in Nat /\ WriteDecision(d, a, NULL)
      BY <1>1, <2>4
    <3> HIDE DEF a
    <3> QED
      BY <2>3, <3>1, WriteDecisionSettles
  <2>6. ClaimEventId(i) /\ UNCHANGED <<orders, versions>>
    BY <1>7 DEF RejectNotReady
  <2> QED
    BY <2>5, <2>6, ClaimType DEF OrdersMove, TypeOK
<1> QED
  BY <1>3, <1>4, <1>5, <1>6, <1>7 DEF ProcessingActions

\* The transaction of handleUnexpectedFailure touches its row and no order.
LEMMA FailureEffect ==
  ASSUME TypeOK, NEW p \in Polls, NEW x \in Entry, x.id \in DOMAIN inbox,
         \/ WriteFailedDecision(x.id)
         \/ MarkRetryableFailure(x.id, inbox[x.id].attempts, "ERROR")
  PROVE  Settled(x.id) \/ Rescheduled(x.id)
<1> DEFINE i == x.id
           d == BareDecision(i, "FAILED", "PROCESSING_ERROR")
<1>1. inbox[i] \in Row /\ inbox[i].attempts \in Nat /\ i \in Nat \ {0}
  BY RowOfInbox DEF Row
<1>2. CASE WriteFailedDecision(i)
  <2>1. d \in Decision /\ d.rawIncomingEventId = i
    BY <1>1, BareDecisionType DEF Decisions, ReasonCodes
  <2>2. WriteDecision(d, inbox[i].attempts, "ERROR")
    BY <1>2 DEF WriteFailedDecision
  <2> HIDE DEF d
  <2> QED
    BY <1>1, <2>1, <2>2, WriteDecisionSettles
<1>3. CASE MarkRetryableFailure(i, inbox[i].attempts, "ERROR")
  BY <1>1, <1>3, RetryReschedules
<1> QED
  BY <1>2, <1>3

-----------------------------------------------------------------------------
\* The invariant through a transaction on a row that is not decided yet.

\* Only row i of the inbox differs, and the log still matches the inbox.
RowWritten(i) ==
  /\ inbox' \in Seq(Row) /\ decisions' \in Seq(Decision) /\ stats' \in Stats
  /\ DOMAIN inbox' = DOMAIN inbox
  /\ \A j \in DOMAIN inbox : j # i => inbox'[j] = inbox[j]
  /\ DoneIffDecided'

\* Both writes change one undecided row and leave one decision per decided row.
LEMMA SettledWritesRow ==
  ASSUME TypeOK, DoneIffDecided, NEW i \in Unprocessed, Settled(i)
  PROVE  RowWritten(i)
<1>1. PICK d \in Decision, r \in Row :
        /\ d.rawIncomingEventId = i /\ r.processingStatus = "DONE"
        /\ inbox' = [inbox EXCEPT ![i] = r]
        /\ decisions' = Append(decisions, d)
        /\ stats' \in Stats
  BY DEF Settled
<1>2. /\ inbox \in Seq(Row) /\ decisions \in Seq(Decision) /\ i \in DOMAIN inbox
      /\ DOMAIN inbox = 1..Len(inbox) /\ DOMAIN decisions = 1..Len(decisions)
      /\ Len(decisions) \in Nat
  BY LenProperties DEF TypeOK, Unprocessed
<1>3. /\ inbox' \in Seq(Row) /\ DOMAIN inbox' = DOMAIN inbox
      /\ inbox'[i] = r /\ \A j \in DOMAIN inbox : j # i => inbox'[j] = inbox[j]
  BY <1>1, <1>2, ExceptSeq
<1>4. /\ decisions' \in Seq(Decision)
      /\ DOMAIN decisions' = 1..(Len(decisions) + 1)
      /\ \A k \in DOMAIN decisions : decisions'[k] = decisions[k]
      /\ decisions'[Len(decisions) + 1] = d
  BY <1>1, <1>2, AppendProperties, LenProperties
<1>5. \A k \in DOMAIN decisions : decisions[k].rawIncomingEventId # i
  BY <1>2 DEF DoneIffDecided, Decided, Unprocessed
<1> DEFINE new == Len(decisions) + 1
<1>6. DOMAIN decisions' = DOMAIN decisions \cup {new} /\ new \notin DOMAIN decisions
  BY <1>2, <1>4
<1>7. decisions'[new].rawIncomingEventId = i
  BY <1>1, <1>4
<1> HIDE DEF new
<1>8. \A k \in DOMAIN decisions' : decisions'[k].rawIncomingEventId \in DOMAIN inbox'
  BY <1>2, <1>3, <1>4, <1>6, <1>7 DEF DoneIffDecided
<1>9. ASSUME NEW j \in DOMAIN inbox'
      PROVE  inbox'[j].processingStatus = "DONE" <=> Decided(j)'
  <2>1. CASE j = i
    BY <1>1, <1>3, <1>6, <1>7, <2>1 DEF Decided
  <2>2. CASE j # i
    <3>1. Decided(j)' <=> Decided(j)
      BY <1>4, <1>6, <1>7, <2>2 DEF Decided
    <3> QED
      BY <1>3, <2>2, <3>1 DEF DoneIffDecided
  <2> QED
    BY <2>1, <2>2
<1>10. \A j, k \in DOMAIN decisions' :
         decisions'[j].rawIncomingEventId = decisions'[k].rawIncomingEventId => j = k
  BY <1>4, <1>5, <1>6, <1>7 DEF DoneIffDecided
<1> QED
  BY <1>1, <1>3, <1>4, <1>8, <1>9, <1>10 DEF RowWritten, DoneIffDecided

LEMMA RescheduledWritesRow ==
  ASSUME TypeOK, DoneIffDecided, NEW i \in Unprocessed, Rescheduled(i)
  PROVE  RowWritten(i)
<1>1. PICK r \in Row :
        /\ r.processingStatus = "RETRY"
        /\ inbox' = [inbox EXCEPT ![i] = r]
        /\ UNCHANGED <<decisions, stats>>
  BY DEF Rescheduled
<1>2. /\ inbox \in Seq(Row) /\ i \in DOMAIN inbox /\ DOMAIN inbox = 1..Len(inbox)
  BY LenProperties DEF TypeOK, Unprocessed
<1>3. /\ inbox' \in Seq(Row) /\ DOMAIN inbox' = DOMAIN inbox
      /\ inbox'[i] = r /\ \A j \in DOMAIN inbox : j # i => inbox'[j] = inbox[j]
  BY <1>1, <1>2, ExceptSeq, LenProperties
<1>4. ~Decided(i) /\ \A j \in DOMAIN inbox : Decided(j)' <=> Decided(j)
  BY <1>1 DEF DoneIffDecided, Decided, Unprocessed
<1>5. DoneIffDecided'
  BY <1>1, <1>3, <1>4 DEF DoneIffDecided
<1> QED
  BY <1>1, <1>3, <1>5 DEF RowWritten, TypeOK

\* An order that moves along the ledger stays consistent.
LEMMA OrdersMoveKeeps ==
  ASSUME TypeOK, LedgerConsistent, OrdersMove
  PROVE  /\ LedgerConsistent' /\ orders' \in [OrderIds -> Order]
         /\ keys' \in [EventIds -> (Nat \ {0}) \cup {NULL}]
         /\ versions' \in [OrderIds -> Versions]
<1>1. /\ keys' \in [EventIds -> (Nat \ {0}) \cup {NULL}]
      /\ versions' \in [OrderIds -> Versions]
  BY DEF OrdersMove
<1>2. CASE UNCHANGED orders
  BY <1>1, <1>2 DEF LedgerConsistent, TypeOK
<1>3. CASE \E o \in OrderIds : \E r \in Order :
             LedgerStep(orders[o], r) /\ orders' = [orders EXCEPT ![o] = r]
  <2>1. PICK o \in OrderIds, r \in Order :
          LedgerStep(orders[o], r) /\ orders' = [orders EXCEPT ![o] = r]
    BY <1>3
  <2>2. orders[o] \in Order /\ ConsistentRow(orders[o])
    BY DEF TypeOK, LedgerConsistent
  <2>3. ConsistentRow(r)
    BY <2>1, <2>2, LedgerStepConsistent
  <2>4. orders' \in [OrderIds -> Order]
    BY <2>1 DEF TypeOK
  <2> QED
    BY <1>1, <2>1, <2>3, <2>4 DEF LedgerConsistent, TypeOK
<1> QED
  BY <1>2, <1>3 DEF OrdersMove

\* Poll p is done with entry x, whose row it has settled or rescheduled.
EntryDone(p, x) ==
  /\ pc[p] \in {"processing", "failing"} /\ x \in batch[p]
  /\ batch' = [batch EXCEPT ![p] = @ \ {x}]
  /\ pc' = [pc EXCEPT ![p] = "processing"]
  /\ UNCHANGED <<phase, isPolling>>

\* A poll holds undecided rows only, each as it is stored.
LEMMA EntryOfBatch ==
  ASSUME IInv, NEW p \in Polls, NEW x \in batch[p]
  PROVE  /\ x \in Entry /\ x.id \in Unprocessed /\ x.id \in DOMAIN inbox
         /\ ~Decided(x.id) /\ pc[p] # "idle"
<1>1. x \in Entry
  BY DEF IInv, TypeOK
<1>2. x.id \in Unprocessed
  BY DEF IInv, PollSnapshotsFresh
<1>3. x.id \in DOMAIN inbox /\ inbox[x.id].processingStatus # "DONE"
  BY <1>2 DEF Unprocessed
<1>4. ~Decided(x.id)
  BY <1>3 DEF IInv, DoneIffDecided
<1>5. pc[p] # "idle"
  BY DEF IInv, IdleHoldsNothing
<1> QED
  BY <1>1, <1>2, <1>3, <1>4, <1>5

\* A transaction that ends an entry of a poll keeps the invariant.
LEMMA TransactionKeepsInv ==
  ASSUME IInv, NEW p \in Polls, NEW x, EntryDone(p, x),
         Settled(x.id) \/ Rescheduled(x.id), OrdersMove
  PROVE  IInv'
<1>1. /\ x \in batch[p] /\ x \in Entry /\ x.id \in Unprocessed
      /\ x.id \in DOMAIN inbox /\ pc[p] # "idle"
  BY EntryOfBatch DEF EntryDone
<1>2. RowWritten(x.id)
  BY <1>1, SettledWritesRow, RescheduledWritesRow DEF IInv
<1>3. /\ batch \in [Polls -> SUBSET Entry]
      /\ pc \in [Polls -> {"idle", "fetched", "processing", "failing"}]
  BY DEF IInv, TypeOK
<1>4. /\ \A q \in Polls : batch'[q] = IF q = p THEN batch[p] \ {x} ELSE batch[q]
      /\ \A q \in Polls : pc'[q] = IF q = p THEN "processing" ELSE pc[q]
      /\ batch' \in [Polls -> SUBSET Entry]
      /\ pc' \in [Polls -> {"idle", "fetched", "processing", "failing"}]
      /\ pc[p] \in {"processing", "failing"} /\ UNCHANGED <<phase, isPolling>>
  BY <1>3 DEF EntryDone
<1>5. TypeOK'
  BY <1>2, <1>4, OrdersMoveKeeps DEF IInv, TypeOK, RowWritten
<1>6. LedgerConsistent' /\ DoneIffDecided'
  BY <1>2, OrdersMoveKeeps DEF IInv, RowWritten
<1>7. IdleHoldsNothing'
  BY <1>4 DEF IInv, IdleHoldsNothing
<1>8. PollSnapshotsFresh'
  <2>1. /\ isPolling' <=> \E q \in Polls : pc'[q] # "idle"
        /\ \A q, r \in Polls : pc'[q] # "idle" /\ pc'[r] # "idle" => q = r
    BY <1>1, <1>4 DEF IInv, PollSnapshotsFresh
  <2>2. ASSUME NEW q \in Polls, NEW y \in batch'[q]
        PROVE  /\ y.id \in Unprocessed'
               /\ y.attempts = inbox'[y.id].attempts
               /\ inbox'[y.id].due
    <3>1. y \in batch[q] /\ q = p /\ y # x
      BY <1>1, <1>4 DEF IInv, PollSnapshotsFresh, IdleHoldsNothing
    <3>2. /\ y \in Entry /\ y.id \in Unprocessed /\ y.attempts = inbox[y.id].attempts
          /\ x.attempts = inbox[x.id].attempts /\ inbox[y.id].due
      BY <1>1, <1>4, <3>1, EntryOfBatch DEF IInv, PollSnapshotsFresh
    <3>3. y.id # x.id
      BY <1>1, <3>1, <3>2 DEF Entry
    <3>4. y.id \in DOMAIN inbox' /\ inbox'[y.id] = inbox[y.id]
      BY <1>2, <3>2, <3>3 DEF RowWritten, Unprocessed
    <3> QED
      BY <3>2, <3>4 DEF Unprocessed
  <2> QED
    BY <2>1, <2>2 DEF PollSnapshotsFresh
<1> QED
  BY <1>5, <1>6, <1>7, <1>8 DEF IInv

\* Each action keeps the invariant.
LEMMA ProcessEventKeepsInv ==
  ASSUME IInv, NEW p \in Polls, ProcessEvent(p)
  PROVE  IInv'
<1>1. PICK x \in batch[p] :
        /\ batch' = [batch EXCEPT ![p] = @ \ {x}]
        /\ IF Decided(x.id) THEN UNCHANGED database ELSE ProcessingActions(x)
  BY DEF ProcessEvent, ProcessingActions
<1>2. /\ x \in Entry /\ x.id \in DOMAIN inbox /\ ~Decided(x.id)
  BY EntryOfBatch
<1>3. (Settled(x.id) \/ Rescheduled(x.id)) /\ OrdersMove
  BY <1>1, <1>2, ProcessingEffect DEF IInv
<1>4. EntryDone(p, x)
  BY <1>1 DEF ProcessEvent, EntryDone, IInv, TypeOK
<1> QED
  BY <1>3, <1>4, TransactionKeepsInv

LEMMA FailureKeepsInv ==
  ASSUME IInv, NEW p \in Polls, HandleUnexpectedFailure(p)
  PROVE  IInv'
<1>1. PICK x \in batch[p] :
        /\ batch' = [batch EXCEPT ![p] = @ \ {x}]
        /\ \/ WriteFailedDecision(x.id)
           \/ MarkRetryableFailure(x.id, inbox[x.id].attempts, "ERROR")
  BY DEF HandleUnexpectedFailure
<1>2. x \in Entry /\ x.id \in DOMAIN inbox
  BY EntryOfBatch
<1>3. Settled(x.id) \/ Rescheduled(x.id)
  BY <1>1, <1>2, FailureEffect DEF IInv
<1>4. OrdersMove
  BY DEF HandleUnexpectedFailure, OrdersMove, IInv, TypeOK
<1>5. EntryDone(p, x)
  BY <1>1 DEF HandleUnexpectedFailure, EntryDone
<1> QED
  BY <1>3, <1>4, <1>5, TransactionKeepsInv

\* The other actions of a poll leave the database alone.
LEMMA DatabaseKept ==
  ASSUME IInv, UNCHANGED database,
         phase' \in {"down", "starting", "serving"}, isPolling' \in BOOLEAN,
         pc' \in [Polls -> {"idle", "fetched", "processing", "failing"}],
         batch' \in [Polls -> SUBSET Entry],
         PollSnapshotsFresh', IdleHoldsNothing'
  PROVE  IInv'
<1>1. TypeOK' /\ LedgerConsistent'
  BY DEF IInv, TypeOK, LedgerConsistent, database
<1>2. DoneIffDecided'
  BY DEF IInv, DoneIffDecided, Decided, database
<1> QED
  BY <1>1, <1>2 DEF IInv

LEMMA StartPollKeepsInv ==
  ASSUME IInv, NEW p \in Polls, StartPoll(p)
  PROVE  IInv'
<1> DEFINE read == {[id |-> i, attempts |-> inbox[i].attempts] : i \in Unprocessed}
<1>1. \A i \in Unprocessed : i \in Nat \ {0} /\ inbox[i].attempts \in Nat
  BY RowOfInbox DEF IInv, Unprocessed, Row
<1>2. /\ read \in SUBSET Entry
      /\ \A x \in read : x.id \in Unprocessed /\ x.attempts = inbox[x.id].attempts
  BY <1>1 DEF Entry
<1>3. batch' = [batch EXCEPT ![p] = read] /\ pc' = [pc EXCEPT ![p] = "fetched"]
  BY DEF StartPoll
<1> HIDE DEF read
<1>4. /\ batch' \in [Polls -> SUBSET Entry]
      /\ pc' \in [Polls -> {"idle", "fetched", "processing", "failing"}]
      /\ \A q \in Polls : batch'[q] = IF q = p THEN read ELSE batch[q]
      /\ \A q \in Polls : pc'[q] = IF q = p THEN "fetched" ELSE pc[q]
  BY <1>2, <1>3 DEF IInv, TypeOK
<1>5. \A q \in Polls : pc[q] = "idle" /\ batch[q] = {}
  BY DEF StartPoll, IInv, PollSnapshotsFresh, IdleHoldsNothing
<1>6. isPolling' = TRUE /\ UNCHANGED <<database, phase>> /\ phase \in {"down", "starting", "serving"}
  BY DEF StartPoll, IInv, TypeOK
<1>7. Unprocessed' = Unprocessed /\ inbox' = inbox
  BY <1>6 DEF database, Unprocessed
<1>8. PollSnapshotsFresh' /\ IdleHoldsNothing'
  BY <1>2, <1>4, <1>5, <1>6, <1>7 DEF PollSnapshotsFresh, IdleHoldsNothing
<1> QED
  BY <1>4, <1>6, <1>8, DatabaseKept

LEMMA FilterKeepsInv ==
  ASSUME IInv, NEW p \in Polls, FilterAvailableEvents(p)
  PROVE  IInv'
<1>1. /\ batch \in [Polls -> SUBSET Entry]
      /\ pc \in [Polls -> {"idle", "fetched", "processing", "failing"}]
      /\ phase \in {"down", "starting", "serving"} /\ isPolling \in BOOLEAN
  BY DEF IInv, TypeOK
<1>2. /\ batch' \in [Polls -> SUBSET Entry]
      /\ pc' \in [Polls -> {"idle", "fetched", "processing", "failing"}]
      /\ \A q \in Polls : batch'[q] = IF q = p THEN {x \in batch[p] : inbox[x.id].due}
                                             ELSE batch[q]
      /\ \A q \in Polls : pc'[q] = IF q = p THEN "processing" ELSE pc[q]
      /\ pc[p] = "fetched" /\ UNCHANGED <<database, phase, isPolling>>
  BY <1>1 DEF FilterAvailableEvents
<1>3. Unprocessed' = Unprocessed /\ inbox' = inbox
  BY <1>2 DEF database, Unprocessed
<1>4. PollSnapshotsFresh' /\ IdleHoldsNothing'
  BY <1>2, <1>3 DEF IInv, PollSnapshotsFresh, IdleHoldsNothing
<1> QED
  BY <1>1, <1>2, <1>4, DatabaseKept

LEMMA ThrowKeepsInv ==
  ASSUME IInv, NEW p \in Polls, TransactionThrows(p)
  PROVE  IInv'
<1>1. /\ batch \in [Polls -> SUBSET Entry]
      /\ pc \in [Polls -> {"idle", "fetched", "processing", "failing"}]
      /\ phase \in {"down", "starting", "serving"} /\ isPolling \in BOOLEAN
  BY DEF IInv, TypeOK
<1>2. /\ pc' \in [Polls -> {"idle", "fetched", "processing", "failing"}]
      /\ \A q \in Polls : pc'[q] = IF q = p THEN "failing" ELSE pc[q]
      /\ pc[p] = "processing" /\ UNCHANGED <<database, phase, isPolling, batch>>
  BY <1>1 DEF TransactionThrows
<1>3. Unprocessed' = Unprocessed /\ inbox' = inbox
  BY <1>2 DEF database, Unprocessed
<1>4. PollSnapshotsFresh' /\ IdleHoldsNothing'
  BY <1>2, <1>3 DEF IInv, PollSnapshotsFresh, IdleHoldsNothing
<1> QED
  BY <1>1, <1>2, <1>4, DatabaseKept

\* A poll that ends, normally or not, leaves no poll under way.
LEMMA ReleaseKeepsInv ==
  ASSUME IInv, NEW p \in Polls, PollFails(p) \/ EndPoll(p)
  PROVE  IInv'
<1>1. /\ batch \in [Polls -> SUBSET Entry]
      /\ pc \in [Polls -> {"idle", "fetched", "processing", "failing"}]
      /\ phase \in {"down", "starting", "serving"}
  BY DEF IInv, TypeOK
<1>2. /\ batch' \in [Polls -> SUBSET Entry]
      /\ pc' \in [Polls -> {"idle", "fetched", "processing", "failing"}]
      /\ \A q \in Polls : batch'[q] = IF q = p THEN {} ELSE batch[q]
      /\ \A q \in Polls : pc'[q] = IF q = p THEN "idle" ELSE pc[q]
      /\ pc[p] # "idle" /\ isPolling' = FALSE /\ UNCHANGED database
      /\ phase' \in {"down", "starting", "serving"}
  BY <1>1 DEF PollFails, EndPoll
<1>3. \A q \in Polls : pc'[q] = "idle" /\ batch'[q] = {}
  BY <1>2 DEF IInv, PollSnapshotsFresh, IdleHoldsNothing
<1>4. PollSnapshotsFresh' /\ IdleHoldsNothing'
  BY <1>2, <1>3 DEF PollSnapshotsFresh, IdleHoldsNothing
<1> QED
  BY <1>2, <1>4, DatabaseKept

LEMMA ProcessKeepsInv ==
  ASSUME IInv, Boot \/ Crash \/ UNCHANGED vars
  PROVE  IInv'
<1>1. CASE Boot
  <2>1. phase' = "starting" /\ UNCHANGED <<database, isPolling, pc, batch>>
    BY <1>1 DEF Boot
  <2>2. PollSnapshotsFresh' /\ IdleHoldsNothing'
    BY <2>1 DEF IInv, PollSnapshotsFresh, IdleHoldsNothing, Unprocessed, database
  <2> QED
    BY <2>1, <2>2, DatabaseKept DEF IInv, TypeOK
<1>2. CASE Crash
  <2>1. /\ phase' = "down" /\ isPolling' = FALSE /\ UNCHANGED database
        /\ pc' = [p \in Polls |-> "idle"] /\ batch' = [p \in Polls |-> {}]
    BY <1>2 DEF Crash
  <2>2. PollSnapshotsFresh' /\ IdleHoldsNothing'
    BY <2>1 DEF PollSnapshotsFresh, IdleHoldsNothing
  <2> QED
    BY <2>1, <2>2, DatabaseKept
<1>3. CASE UNCHANGED vars
  <2>1. UNCHANGED <<database, phase, isPolling, pc, batch>>
    BY <1>3 DEF vars, worker
  <2>2. PollSnapshotsFresh' /\ IdleHoldsNothing'
    BY <2>1 DEF IInv, PollSnapshotsFresh, IdleHoldsNothing, Unprocessed, database
  <2> QED
    BY <2>1, <2>2, DatabaseKept DEF IInv, TypeOK
<1> QED
  BY <1>1, <1>2, <1>3

\* New rows at the end of the inbox, and a delay that passes, disturb neither
\* the log nor what a poll has read.
InboxGrows ==
  /\ inbox' \in Seq(Row)
  /\ DOMAIN inbox \subseteq DOMAIN inbox'
  /\ \A i \in DOMAIN inbox :
       /\ inbox'[i].processingStatus = inbox[i].processingStatus
       /\ inbox'[i].attempts = inbox[i].attempts
       /\ inbox[i].due => inbox'[i].due
  /\ \A i \in DOMAIN inbox' \ DOMAIN inbox : inbox'[i].processingStatus = "PENDING"
  /\ UNCHANGED <<keys, orders, versions, decisions, stats, worker>>

\* So does everything that adds rows or lets time pass.
LEMMA GrowthKeepsInv ==
  ASSUME IInv, InboxGrows
  PROVE  IInv'
<1>1. UNCHANGED <<keys, orders, versions, decisions, stats, phase, isPolling, pc, batch>>
  BY DEF InboxGrows, worker
<1>2. TypeOK' /\ LedgerConsistent' /\ IdleHoldsNothing'
  BY <1>1 DEF IInv, TypeOK, LedgerConsistent, IdleHoldsNothing, InboxGrows
<1>3. DoneIffDecided'
  <2>1. \A i : Decided(i)' <=> Decided(i)
    BY <1>1 DEF Decided
  <2>2. \A i \in DOMAIN inbox' \ DOMAIN inbox : ~Decided(i)
    BY DEF IInv, DoneIffDecided, Decided
  <2>3. \A i \in DOMAIN inbox' : inbox'[i].processingStatus = "DONE" <=> Decided(i)'
    BY <2>1, <2>2 DEF IInv, DoneIffDecided, InboxGrows
  <2> QED
    BY <1>1, <2>3 DEF IInv, DoneIffDecided, InboxGrows
<1>4. Unprocessed \subseteq Unprocessed'
  BY DEF Unprocessed, InboxGrows
<1>5. PollSnapshotsFresh'
  <2>1. ASSUME NEW p \in Polls, NEW x \in batch[p]
        PROVE  /\ x.id \in Unprocessed' /\ x.attempts = inbox'[x.id].attempts
               /\ pc[p] \in {"processing", "failing"} => inbox'[x.id].due
    <3>1. /\ x.id \in Unprocessed /\ x.attempts = inbox[x.id].attempts
          /\ pc[p] \in {"processing", "failing"} => inbox[x.id].due
      BY DEF IInv, PollSnapshotsFresh
    <3>2. x.id \in DOMAIN inbox
      BY <3>1 DEF Unprocessed
    <3> QED
      BY <1>4, <3>1, <3>2 DEF InboxGrows
  <2> QED
    BY <1>1, <2>1 DEF IInv, PollSnapshotsFresh
<1> QED
  BY <1>2, <1>3, <1>5 DEF IInv

LEMMA EnqueueKeepsInv ==
  ASSUME IInv, EnqueueBatch
  PROVE  IInv'
<1>a. PICK n \in 1..MaxBatch : \E items \in [1..n -> RawEvents] :
        inbox' = inbox \o [k \in 1..n |-> CreateRawIncomingEvent(items[k])]
  BY DEF EnqueueBatch
<1>1. PICK items \in [1..n -> RawEvents] :
        inbox' = inbox \o [k \in 1..n |-> CreateRawIncomingEvent(items[k])]
  BY <1>a
<1> DEFINE new == [k \in 1..n |-> CreateRawIncomingEvent(items[k])]
<1>2. \A k \in 1..n : /\ CreateRawIncomingEvent(items[k]) \in Row
                      /\ CreateRawIncomingEvent(items[k]).processingStatus = "PENDING"
  BY DEF CreateRawIncomingEvent, Row, ProcessingStatuses
<1>3. n \in Nat
  BY EngineAssumption
<1>4. new \in Seq(Row) /\ Len(new) = n /\ \A k \in 1..n : new[k].processingStatus = "PENDING"
  BY <1>2, <1>3, IsASeq
<1>5. inbox \in Seq(Row) /\ DOMAIN inbox = 1..Len(inbox) /\ Len(inbox) \in Nat
  BY LenProperties DEF IInv, TypeOK
<1>6. inbox' = inbox \o new
  BY <1>1
<1> HIDE DEF new
<1>7. /\ inbox' \in Seq(Row) /\ DOMAIN inbox' = 1..(Len(inbox) + n)
      /\ \A i \in 1..(Len(inbox) + n) :
           inbox'[i] = IF i <= Len(inbox) THEN inbox[i] ELSE new[i - Len(inbox)]
  <2>1. /\ inbox \o new \in Seq(Row)
        /\ Len(inbox \o new) = Len(inbox) + n
        /\ \A i \in 1..(Len(inbox) + n) :
             (inbox \o new)[i] = IF i <= Len(inbox) THEN inbox[i] ELSE new[i - Len(inbox)]
    BY <1>4, <1>5, ConcatProperties
  <2>2. DOMAIN (inbox \o new) = 1..(Len(inbox) + n)
    BY <2>1, LenProperties
  <2> QED
    BY <1>6, <2>1, <2>2
<1>8. /\ DOMAIN inbox \subseteq DOMAIN inbox'
      /\ \A i \in DOMAIN inbox : inbox'[i] = inbox[i]
  BY <1>3, <1>5, <1>7
<1>9. ASSUME NEW i \in DOMAIN inbox' \ DOMAIN inbox
      PROVE  inbox'[i].processingStatus = "PENDING"
  <2>1. i - Len(inbox) \in 1..n /\ inbox'[i] = new[i - Len(inbox)]
    BY <1>3, <1>5, <1>7
  <2> QED
    BY <1>4, <2>1
<1>10. InboxGrows
  BY <1>7, <1>8, <1>9 DEF EnqueueBatch, InboxGrows
<1> QED
  BY <1>10, GrowthKeepsInv

LEMMA DelayKeepsInv ==
  ASSUME IInv, NEW i \in DOMAIN inbox, RetryDelayElapses(i)
  PROVE  IInv'
<1> DEFINE r == [inbox[i] EXCEPT !.due = TRUE]
<1>1. inbox[i] \in Row /\ inbox \in Seq(Row) /\ DOMAIN inbox = 1..Len(inbox)
  BY RowOfInbox DEF IInv, TypeOK
<1>2. /\ r \in Row /\ r.processingStatus = inbox[i].processingStatus
      /\ r.attempts = inbox[i].attempts /\ r.due
  BY <1>1 DEF Row
<1>3. inbox' = [inbox EXCEPT ![i] = r]
  BY DEF RetryDelayElapses
<1> HIDE DEF r
<1>4. /\ inbox' \in Seq(Row) /\ DOMAIN inbox' = DOMAIN inbox
      /\ \A j \in DOMAIN inbox : inbox'[j] = IF j = i THEN r ELSE inbox[j]
  BY <1>1, <1>2, <1>3, ExceptSeq, LenProperties
<1>5. InboxGrows
  BY <1>2, <1>4 DEF RetryDelayElapses, InboxGrows
<1> QED
  BY <1>5, GrowthKeepsInv

\* The invariant is inductive: no step of any action destroys it.
THEOREM NextKeepsInv == IInv /\ [Next]_vars => IInv'
<1> SUFFICES ASSUME IInv, [Next]_vars PROVE IInv'
  OBVIOUS
<1>1. ASSUME NEW p \in Polls, Poll(p) PROVE IInv'
  BY <1>1, StartPollKeepsInv, FilterKeepsInv, ProcessEventKeepsInv, ThrowKeepsInv,
     FailureKeepsInv, ReleaseKeepsInv DEF Poll
<1>2. CASE EnqueueBatch
  BY <1>2, EnqueueKeepsInv
<1>3. CASE \E i \in DOMAIN inbox : RetryDelayElapses(i)
  BY <1>3, DelayKeepsInv
<1>4. CASE Boot \/ Crash \/ UNCHANGED vars
  BY <1>4, ProcessKeepsInv
<1> QED
  BY <1>1, <1>2, <1>3, <1>4 DEF Next

\* The invariant holds in every reachable state, for any number of polls, any contents
\* and any failures.
THEOREM Invariant == Spec => []IInv
  BY InitInv, NextKeepsInv, PTL DEF Spec

-----------------------------------------------------------------------------
\* Every reachable state of the engine is well typed: in particular amounts and
\* attempts stay natural numbers, and statuses stay among the known ones.
THEOREM TypeCorrect == Spec => []TypeOK
<1>1. IInv => TypeOK
  BY DEF IInv
<1> QED
  BY <1>1, Invariant, PTL

\* An order's status and money agree after any sequence of deliveries, retries,
\* failures and crashes.
THEOREM LedgerCorrect == Spec => []LedgerConsistent
<1>1. IInv => LedgerConsistent
  BY DEF IInv
<1> QED
  BY <1>1, Invariant, PTL

\* However many invocations of the poll there are, at most one works on the
\* inbox, and on rows nobody has touched since it read them.
THEOREM PollsExclusive == Spec => []PollSnapshotsFresh
<1>1. IInv => PollSnapshotsFresh
  BY DEF IInv
<1> QED
  BY <1>1, Invariant, PTL

\* A delivery is DONE exactly when there is one decision about it.
THEOREM DecidedOnce == Spec => []DoneIffDecided
<1>1. IInv => DoneIffDecided
  BY DEF IInv
<1> QED
  BY <1>1, Invariant, PTL

-----------------------------------------------------------------------------
\* The implementation of OrderLedger.

LEMMA InitOpensLedger == Init => Ledger!Init
  BY DEF Init, Ledger!Init, Ledger!NoEntry, Book, NoOrder

\* A step along the ledger is one of the ledger's own steps, or none.
LEMMA LedgerStepImplements ==
  ASSUME TypeOK, NEW o \in OrderIds, NEW r \in Order,
         LedgerStep(orders[o], r), orders' = [orders EXCEPT ![o] = r]
  PROVE  [Ledger!Next]_Book
<1> DEFINE entry == [status |-> r.status, paid |-> r.paidAmountMinor,
                     refunded |-> r.refundedAmountMinor]
<1>1. orders[o] \in Order /\ orders \in [OrderIds -> Order]
  BY DEF TypeOK
<1>2. /\ Book[o] = [status |-> orders[o].status, paid |-> orders[o].paidAmountMinor,
                    refunded |-> orders[o].refundedAmountMinor]
      /\ Book' = [Book EXCEPT ![o] = entry]
      /\ Book'[o] = entry
  BY <1>1 DEF Book
<1> DEFINE row == orders[o]
<1>a. row \in Order
  BY <1>1
<1> HIDE DEF row
<1>b. Book[o] = [status |-> row.status, paid |-> row.paidAmountMinor,
                 refunded |-> row.refundedAmountMinor]
  BY <1>2 DEF row
<1>3. CASE Untouched(row, r)
  <2>1. entry = Book[o]
    BY <1>b, <1>3 DEF Untouched
  <2> HIDE DEF entry
  <2> QED
    BY <1>2, <2>1 DEF Book
<1>4. CASE Opened(row, r)
  <2>1. entry = [Book[o] EXCEPT !.status = "CREATED"] /\ Book[o].status = "DOES_NOT_EXIST"
    BY <1>b, <1>4 DEF Opened, Missing
  <2> HIDE DEF entry
  <2>2. Ledger!Open(o)
    BY <1>2, <2>1 DEF Ledger!Open
  <2> QED
    BY <2>2 DEF Ledger!Next
<1>5. CASE Cancelled(row, r)
  <2>1. entry = [Book[o] EXCEPT !.status = "CANCELLED"] /\ Book[o].status = "CREATED"
    BY <1>b, <1>5 DEF Cancelled
  <2> HIDE DEF entry
  <2>2. Ledger!Cancel(o)
    BY <1>2, <2>1 DEF Ledger!Cancel
  <2> QED
    BY <2>2 DEF Ledger!Next
<1>6. CASE Captured(row, r)
  <2>a. /\ entry.paid = r.paidAmountMinor /\ r.paidAmountMinor \in Nat \ {0}
        /\ Book[o].status = "CREATED"
    BY <1>b, <1>6 DEF Captured, Order
  <2>b. entry = [status |-> "PAID", paid |-> r.paidAmountMinor,
                refunded |-> Book[o].refunded]
    <3>1. r.status = "PAID" /\ r.refundedAmountMinor = row.refundedAmountMinor
      BY <1>6 DEF Captured
    <3> QED
      BY <1>b, <3>1
  <2>1. /\ entry = [status |-> "PAID", paid |-> entry.paid,
                    refunded |-> Book[o].refunded]
        /\ Book[o].status = "CREATED" /\ entry.paid \in Nat \ {0}
    BY <2>a, <2>b
  <2> HIDE DEF entry
  <2>2. /\ entry.paid = Book'[o].paid
        /\ Book' = [Book EXCEPT ![o] = [status |-> "PAID", paid |-> Book'[o].paid,
                                             refunded |-> @.refunded]]
    BY <1>2, <2>1
  <2>3. Ledger!Capture(o)
    BY <2>1, <2>2 DEF Ledger!Capture
  <2> QED
    BY <2>3 DEF Ledger!Next
<1>7. CASE Refunded(row, r)
  <2>1. entry = [status |-> IF entry.refunded = Book[o].paid THEN "REFUNDED"
                                                             ELSE "PARTIALLY_REFUNDED",
                 paid |-> Book[o].paid, refunded |-> entry.refunded]
    <3> DEFINE status == IF r.refundedAmountMinor = row.paidAmountMinor
                         THEN "REFUNDED" ELSE "PARTIALLY_REFUNDED"
    <3>1. /\ entry.refunded = r.refundedAmountMinor
          /\ Book[o].paid = row.paidAmountMinor
      BY <1>b
    <3>2. /\ r.status = status
          /\ r.paidAmountMinor = row.paidAmountMinor
      BY <1>7 DEF Refunded
    <3> HIDE DEF status
    <3>3. entry = [status |-> status, paid |-> Book[o].paid,
                   refunded |-> r.refundedAmountMinor]
      BY <1>b, <3>2
    <3> QED
      BY <3>1, <3>3 DEF status
  <2>2. /\ Book[o].status \in {"PAID", "PARTIALLY_REFUNDED"}
        /\ entry.refunded \in (Book[o].refunded + 1)..Book[o].paid
    <3>1. /\ entry.refunded = r.refundedAmountMinor
          /\ Book[o].paid = row.paidAmountMinor
          /\ Book[o].refunded = row.refundedAmountMinor
          /\ Book[o].status = row.status
      BY <1>b
    <3>2. /\ r.refundedAmountMinor \in Nat
          /\ row.refundedAmountMinor \in Nat /\ row.paidAmountMinor \in Nat
      BY <1>a DEF Order
    <3>3. /\ row.status \in {"PAID", "PARTIALLY_REFUNDED"}
          /\ row.refundedAmountMinor < r.refundedAmountMinor
          /\ r.refundedAmountMinor <= row.paidAmountMinor
      BY <1>7 DEF Refunded
    <3> HIDE DEF entry
    <3> QED
      BY <3>1, <3>2, <3>3
  <2> HIDE DEF entry
  <2> DEFINE total == Book'[o].refunded
             status == IF total = Book[o].paid THEN "REFUNDED" ELSE "PARTIALLY_REFUNDED"
  <2>3. /\ entry.refunded = total
        /\ Book' = [Book EXCEPT ![o] = [status |-> status, paid |-> @.paid,
                                             refunded |-> total]]
    BY <1>2, <2>1
  <2>4. Ledger!Refund(o)
    BY <2>2, <2>3 DEF Ledger!Refund
  <2> QED
    BY <2>4 DEF Ledger!Next
<1> QED
  BY <1>3, <1>4, <1>5, <1>6, <1>7 DEF LedgerStep, row

\* Every step of the engine is a step of the ledger or a stutter.
LEMMA NextImplements == IInv /\ [Next]_vars => [Ledger!Next]_Book
<1> SUFFICES ASSUME IInv, [Next]_vars PROVE [Ledger!Next]_Book
  OBVIOUS
<1>1. CASE UNCHANGED orders
  BY <1>1 DEF Book
<1>2. CASE OrdersMove
  <2>1. CASE \E o \in OrderIds : \E r \in Order :
               LedgerStep(orders[o], r) /\ orders' = [orders EXCEPT ![o] = r]
    BY <2>1, LedgerStepImplements DEF IInv
  <2> QED
    BY <1>1, <1>2, <2>1 DEF OrdersMove
<1>3. ASSUME NEW p \in Polls, ProcessEvent(p) PROVE OrdersMove
  <2>1. PICK x \in batch[p] : IF Decided(x.id) THEN UNCHANGED database
                                               ELSE ProcessingActions(x)
    BY <1>3 DEF ProcessEvent, ProcessingActions
  <2> QED
    BY <2>1, EntryOfBatch, ProcessingEffect DEF IInv
<1>4. ASSUME NEW p \in Polls, Poll(p), ~ProcessEvent(p) PROVE UNCHANGED orders
  BY <1>4 DEF Poll, StartPoll, FilterAvailableEvents, TransactionThrows,
     HandleUnexpectedFailure, PollFails, EndPoll, database
<1>5. EnqueueBatch \/ (\E i \in DOMAIN inbox : RetryDelayElapses(i)) \/ Boot \/ Crash
        \/ UNCHANGED vars => UNCHANGED orders
  BY DEF EnqueueBatch, RetryDelayElapses, Boot, Crash, vars, database
<1> QED
  BY <1>1, <1>2, <1>3, <1>4, <1>5 DEF Next

\* Through every interleaving, failure and restart an order moves only along
\* the ledger: opened once, cancelled unpaid or paid once, refunded step by step
\* up to the payment.
THEOREM ImplementsLedger == Spec => ImplementsOrderLedger
  BY InitOpensLedger, Invariant, NextImplements, PTL
     DEF Spec, ImplementsOrderLedger, Ledger!Spec

-----------------------------------------------------------------------------
\* What a step does to the database.

\* A poll may work on delivery i.
Workable(i) == i \in Unprocessed /\ inbox[i].due /\ ~Decided(i)

\* Delivery i is processed by a poll that has read it, or a failure of its
\* processing is recorded.
Processed(i) ==
  \E x \in Entry : x.id = i /\ x.attempts = inbox[i].attempts /\ ProcessingActions(x)

FailureRecorded(i) ==
  /\ \/ /\ inbox[i].attempts + 1 >= MaxProcessingAttempts
        /\ WriteFailedDecision(i)
     \/ /\ inbox[i].attempts + 1 < MaxProcessingAttempts
        /\ MarkRetryableFailure(i, inbox[i].attempts, "ERROR")
  /\ UNCHANGED <<keys, orders, versions>>

\* What a poll still holds may be worked on, and its copy of the row is fresh.
LEMMA EntryIsWorkable ==
  ASSUME IInv, NEW p \in Polls, pc[p] \in {"processing", "failing"}, NEW x \in batch[p]
  PROVE  /\ x \in Entry /\ x.id \in DOMAIN inbox
         /\ Workable(x.id) /\ x.attempts = inbox[x.id].attempts
<1>1. /\ x \in Entry /\ x.id \in DOMAIN inbox /\ x.id \in Unprocessed /\ ~Decided(x.id)
  BY EntryOfBatch
<1>2. x.attempts = inbox[x.id].attempts /\ inbox[x.id].due
  BY DEF IInv, PollSnapshotsFresh
<1> QED
  BY <1>1, <1>2 DEF Workable

\* What a step of the engine does to the database.
LEMMA StepCases ==
  ASSUME IInv, [Next]_vars
  PROVE  \/ UNCHANGED database
         \/ EnqueueBatch
         \/ \E i \in DOMAIN inbox : RetryDelayElapses(i)
         \/ \E i \in DOMAIN inbox : Workable(i) /\ (Processed(i) \/ FailureRecorded(i))
<1>1. ASSUME NEW p \in Polls, ProcessEvent(p)
      PROVE  \E i \in DOMAIN inbox : Workable(i) /\ Processed(i)
  <2>1. PICK x \in batch[p] : IF Decided(x.id) THEN UNCHANGED database
                                               ELSE ProcessingActions(x)
    BY <1>1 DEF ProcessEvent, ProcessingActions
  <2>2. /\ x \in Entry /\ x.id \in DOMAIN inbox
        /\ Workable(x.id) /\ x.attempts = inbox[x.id].attempts
    BY <1>1, EntryIsWorkable DEF ProcessEvent
  <2>3. Processed(x.id)
    BY <2>1, <2>2 DEF Processed, Workable
  <2> QED
    BY <2>2, <2>3
<1>2. ASSUME NEW p \in Polls, HandleUnexpectedFailure(p)
      PROVE  \E i \in DOMAIN inbox : Workable(i) /\ FailureRecorded(i)
  <2>1. PICK x \in batch[p] :
          \/ /\ inbox[x.id].attempts + 1 >= MaxProcessingAttempts
             /\ WriteFailedDecision(x.id)
          \/ /\ inbox[x.id].attempts + 1 < MaxProcessingAttempts
             /\ MarkRetryableFailure(x.id, inbox[x.id].attempts, "ERROR")
    BY <1>2 DEF HandleUnexpectedFailure
  <2>2. x.id \in DOMAIN inbox /\ Workable(x.id)
    BY <1>2, EntryIsWorkable DEF HandleUnexpectedFailure
  <2>3. FailureRecorded(x.id)
    BY <1>2, <2>1 DEF HandleUnexpectedFailure, FailureRecorded
  <2> QED
    BY <2>2, <2>3
<1>3. ASSUME NEW p \in Polls, Poll(p), ~ProcessEvent(p), ~HandleUnexpectedFailure(p)
      PROVE  UNCHANGED database
  BY <1>3 DEF Poll, StartPoll, FilterAvailableEvents, TransactionThrows, PollFails, EndPoll
<1>4. Boot \/ Crash \/ UNCHANGED vars => UNCHANGED database
  BY DEF Boot, Crash, vars
<1> QED
  BY <1>1, <1>2, <1>3, <1>4 DEF Next

\* Row i becomes r, and the rest of the inbox stays as it is.
RowBecomes(i, r) ==
  /\ r \in Row /\ r.raw = inbox[i].raw
  /\ DOMAIN inbox' = DOMAIN inbox
  /\ \A j \in DOMAIN inbox : inbox'[j] = IF j = i THEN r ELSE inbox[j]

\* The log grows by decision d, which the statistics count.
Logged(d) ==
  /\ decisions' = Append(decisions, d)
  /\ Len(decisions) \in Nat /\ DOMAIN decisions = 1..Len(decisions)
  /\ DOMAIN decisions' = 1..(Len(decisions) + 1)
  /\ decisions'[Len(decisions) + 1] = d
  /\ \A k \in DOMAIN decisions : decisions'[k] = decisions[k]
  /\ stats' = IncrementStats(stats, d.decision)

\* Only rows are added, as they were posted, and within the bounds.
RowsAdded ==
  /\ DOMAIN inbox \subseteq DOMAIN inbox'
  /\ \E n \in 1..MaxBatch : /\ Len(inbox) + n <= MaxDeliveries
                            /\ DOMAIN inbox' = 1..(Len(inbox) + n)
  /\ \A i \in DOMAIN inbox : inbox'[i] = inbox[i]
  /\ \A i \in DOMAIN inbox' \ DOMAIN inbox :
       \E raw \in RawEvents : inbox'[i] = CreateRawIncomingEvent(raw)
  /\ UNCHANGED <<keys, orders, versions, decisions, stats>>

\* The delay of row i passes.
DelayPassed(i) ==
  /\ ~inbox[i].due
  /\ RowBecomes(i, [inbox[i] EXCEPT !.due = TRUE])
  /\ UNCHANGED <<keys, orders, versions, decisions, stats>>

\* The event id of valid delivery i is claimed for it, as no other delivery
\* holds it.
Claims(i) == Valid(i) /\ ~ClaimedByAnother(i) /\ ClaimEventId(i)

\* Row i becomes r to wait for its next attempt.
PutOff(i, r) ==
  /\ RowBecomes(i, r)
  /\ r.processingStatus = "RETRY" /\ r.lastErrorMessage # NULL
  /\ r.attempts = inbox[i].attempts + 1 /\ r.attempts < 3
  /\ UNCHANGED keys \/ Claims(i)
  /\ UNCHANGED <<orders, versions, decisions, stats>>

\* Why decision d is made about delivery i, whose row becomes r: its processing
\* failed too often, it is invalid, it is a duplicate, or the order was asked.
GivenUp(i, d, r) ==
  /\ d.decision = "FAILED" /\ d.reasonCode = "PROCESSING_ERROR"
  /\ inbox[i].attempts + 1 >= 3
  /\ r.attempts = inbox[i].attempts /\ r.lastErrorMessage = "ERROR"

FoundInvalid(i, d, r) ==
  /\ d.decision = "REJECTED" /\ d.reasonCode \in {"INVALID_SCHEMA", "UNKNOWN_EVENT_TYPE"}
  /\ ~Valid(i)
  /\ r.lastErrorMessage = NULL

FoundDuplicate(i, d, r) ==
  /\ d.decision = "DUPLICATE" /\ d.reasonCode = "DUPLICATE_EVENT"
  /\ Valid(i) /\ ClaimedByAnother(i)
  /\ r.lastErrorMessage = NULL

OrderAsked(i, d, r) ==
  LET o == inbox[i].raw.orderId
      out == OutcomeOf(i)
  IN  /\ Claims(i) /\ Evaluated(d)
      /\ d = OutcomeDecision(i, out)
      /\ orders' = [orders EXCEPT ![o] = out.order]
      /\ versions' = [versions EXCEPT ![o] = out.versions]
      /\ r.lastErrorMessage = NULL
      /\ d.reasonCode = "ORDER_NOT_READY" =>
           r.attempts = inbox[i].attempts + 1 /\ r.attempts >= 3

\* Delivery i is decided by d and its row becomes r.
DecidedBy(i, d, r) ==
  /\ d.rawIncomingEventId = i
  /\ Logged(d) /\ RowBecomes(i, r)
  /\ r.processingStatus = "DONE" /\ r.due
  /\ \/ /\ GivenUp(i, d, r) \/ FoundInvalid(i, d, r) \/ FoundDuplicate(i, d, r)
        /\ d.changedFields = NoChanges
        /\ UNCHANGED <<keys, orders, versions>>
     \/ OrderAsked(i, d, r)

\* enqueueBatch adds PENDING rows and touches no other.
LEMMA EnqueueAddsRows ==
  ASSUME TypeOK, EnqueueBatch
  PROVE  RowsAdded
<1>1. PICK n \in 1..MaxBatch : \E items \in [1..n -> RawEvents] :
        /\ Len(inbox) + n <= MaxDeliveries
        /\ inbox' = inbox \o [k \in 1..n |-> CreateRawIncomingEvent(items[k])]
  BY DEF EnqueueBatch
<1>2. PICK items \in [1..n -> RawEvents] :
        /\ Len(inbox) + n <= MaxDeliveries
        /\ inbox' = inbox \o [k \in 1..n |-> CreateRawIncomingEvent(items[k])]
  BY <1>1
<1> DEFINE new == [k \in 1..n |-> CreateRawIncomingEvent(items[k])]
<1>3. n \in Nat
  BY EngineAssumption
<1>4. \A k \in 1..n : CreateRawIncomingEvent(items[k]) \in Row
  BY DEF CreateRawIncomingEvent, Row, ProcessingStatuses
<1>5. /\ new \in Seq(Row) /\ Len(new) = n
      /\ \A k \in 1..n : \E raw \in RawEvents : new[k] = CreateRawIncomingEvent(raw)
  BY <1>3, <1>4, IsASeq
<1>6. inbox \in Seq(Row) /\ DOMAIN inbox = 1..Len(inbox) /\ Len(inbox) \in Nat
  BY LenProperties DEF TypeOK
<1>7. inbox' = inbox \o new
  BY <1>2
<1> HIDE DEF new
<1>8. /\ DOMAIN inbox' = 1..(Len(inbox) + n)
      /\ \A i \in 1..(Len(inbox) + n) :
           inbox'[i] = IF i <= Len(inbox) THEN inbox[i] ELSE new[i - Len(inbox)]
  <2>1. /\ inbox \o new \in Seq(Row)
        /\ Len(inbox \o new) = Len(inbox) + n
        /\ \A i \in 1..(Len(inbox) + n) :
             (inbox \o new)[i] = IF i <= Len(inbox) THEN inbox[i] ELSE new[i - Len(inbox)]
    BY <1>5, <1>6, ConcatProperties
  <2>2. DOMAIN (inbox \o new) = 1..(Len(inbox) + n)
    BY <2>1, LenProperties
  <2> QED
    BY <1>7, <2>1, <2>2
<1>9. ASSUME NEW i \in DOMAIN inbox' \ DOMAIN inbox
      PROVE  \E raw \in RawEvents : inbox'[i] = CreateRawIncomingEvent(raw)
  <2>1. i - Len(inbox) \in 1..n /\ inbox'[i] = new[i - Len(inbox)]
    BY <1>3, <1>6, <1>8
  <2> QED
    BY <1>5, <2>1
<1>10. /\ DOMAIN inbox \subseteq DOMAIN inbox'
       /\ \A i \in DOMAIN inbox : inbox'[i] = inbox[i]
  BY <1>3, <1>6, <1>8
<1> QED
  BY <1>2, <1>8, <1>9, <1>10 DEF EnqueueBatch, RowsAdded

\* One row of the inbox is written.
LEMMA RowWrite ==
  ASSUME TypeOK, NEW i \in DOMAIN inbox, NEW r \in Row, r.raw = inbox[i].raw,
         inbox' = [inbox EXCEPT ![i] = r]
  PROVE  RowBecomes(i, r)
<1>1. inbox \in Seq(Row) /\ DOMAIN inbox = 1..Len(inbox)
  BY LenProperties DEF TypeOK
<1>2. /\ inbox' \in Seq(Row) /\ DOMAIN inbox' = DOMAIN inbox
      /\ \A j \in DOMAIN inbox : inbox'[j] = IF j = i THEN r ELSE inbox[j]
  BY <1>1, ExceptSeq, LenProperties
<1> QED
  BY <1>2 DEF RowBecomes

LEMMA DelayPasses ==
  ASSUME TypeOK, NEW i \in DOMAIN inbox, RetryDelayElapses(i)
  PROVE  DelayPassed(i)
<1> DEFINE r == [inbox[i] EXCEPT !.due = TRUE]
<1>1. r \in Row /\ r.raw = inbox[i].raw
  BY RowOfInbox DEF Row
<1>2. inbox' = [inbox EXCEPT ![i] = r]
  BY DEF RetryDelayElapses
<1>3. RowBecomes(i, r)
  BY <1>1, <1>2, RowWrite
<1> QED
  BY <1>3 DEF RetryDelayElapses, DelayPassed

\* writeDecision adds one decision to the log and ends its row.
LEMMA WriteDecisionWrites ==
  ASSUME TypeOK, NEW i \in DOMAIN inbox, NEW d \in Decision,
         d.rawIncomingEventId = i, NEW attempts \in Nat,
         NEW message \in {NULL, "ORDER_NOT_READY", "ERROR"},
         WriteDecision(d, attempts, message)
  PROVE  /\ Logged(d)
         /\ \E r \in Row : /\ RowBecomes(i, r)
                           /\ r.processingStatus = "DONE" /\ r.due
                           /\ r.attempts = attempts /\ r.lastErrorMessage = message
<1> DEFINE r == [inbox[i] EXCEPT !.processingStatus = "DONE", !.due = TRUE,
                                 !.attempts = attempts, !.lastErrorMessage = message]
<1>1. inbox[i] \in Row
  BY RowOfInbox
<1>2. /\ r \in Row /\ r.raw = inbox[i].raw /\ r.processingStatus = "DONE" /\ r.due
      /\ r.attempts = attempts /\ r.lastErrorMessage = message
  BY <1>1 DEF Row, ProcessingStatuses
<1>3. inbox' = [inbox EXCEPT ![i] = r]
  BY DEF WriteDecision
<1>4. Logged(d)
  <2>1. /\ decisions' = Append(decisions, d) /\ stats' = IncrementStats(stats, d.decision)
        /\ decisions \in Seq(Decision)
    BY DEF WriteDecision, TypeOK
  <2>2. Len(decisions) \in Nat /\ DOMAIN decisions = 1..Len(decisions)
    BY <2>1, LenProperties
  <2>3. /\ decisions' \in Seq(Decision) /\ Len(decisions') = Len(decisions) + 1
        /\ \A k \in 1..Len(decisions) : decisions'[k] = decisions[k]
        /\ decisions'[Len(decisions) + 1] = d
    BY <2>1, AppendProperties
  <2>4. DOMAIN decisions' = 1..(Len(decisions) + 1)
    BY <2>3, LenProperties
  <2> QED
    BY <2>1, <2>2, <2>3, <2>4 DEF Logged
<1> HIDE DEF r
<1> QED
  BY <1>2, <1>3, <1>4, RowWrite

\* markRetryableFailure puts a row off as long as it has attempts left.
LEMMA RetryWrites ==
  ASSUME TypeOK, NEW i \in DOMAIN inbox, NEW message \in {"ORDER_NOT_READY", "ERROR"},
         inbox[i].attempts + 1 < 3,
         MarkRetryableFailure(i, inbox[i].attempts, message),
         UNCHANGED keys \/ Claims(i), UNCHANGED <<orders, versions>>
  PROVE  \E r \in Row : PutOff(i, r)
<1> DEFINE next == inbox[i].attempts + 1
           r == [inbox[i] EXCEPT !.processingStatus = "RETRY", !.due = FALSE,
                                 !.attempts = next, !.lastErrorMessage = message]
<1>1. inbox[i] \in Row /\ next \in Nat
  BY RowOfInbox DEF Row
<1>2. inbox' = [inbox EXCEPT ![i] = r] /\ UNCHANGED <<decisions, stats>>
  BY DEF MarkRetryableFailure
<1> HIDE DEF next
<1>3. /\ r \in Row /\ r.raw = inbox[i].raw /\ r.processingStatus = "RETRY"
      /\ r.attempts = next /\ r.lastErrorMessage = message
  BY <1>1 DEF Row, ProcessingStatuses
<1> HIDE DEF r
<1>4. RowBecomes(i, r)
  BY <1>2, <1>3, RowWrite
<1>5. message # NULL
  BY NullAssumption
<1> QED
  BY <1>2, <1>3, <1>4, <1>5 DEF PutOff, next

\* What handling the event of a valid delivery records.
LEMMA OutcomeOfRecords ==
  ASSUME TypeOK, LedgerConsistent, NEW i \in DOMAIN inbox, Valid(i)
  PROVE  LET e == inbox[i].raw
             o == orders[e.orderId]
             v == versions[e.orderId]
         IN  /\ e \in Event /\ o \in Order /\ v \in Versions /\ ConsistentRow(o)
             /\ Refused(o, v, OutcomeOf(i)) \/ TakesEffect(o, v, e, OutcomeOf(i))
<1> DEFINE e == inbox[i].raw
<1>1. e \in Event
  BY ValidIsEvent
<1>2. e.orderId \in OrderIds
  BY <1>1 DEF Event
<1>3. /\ orders[e.orderId] \in Order /\ versions[e.orderId] \in Versions
      /\ ConsistentRow(orders[e.orderId])
  BY <1>2 DEF TypeOK, LedgerConsistent
<1>4. OutcomeOf(i) = HandleEvent(orders[e.orderId], versions[e.orderId], e)
  BY DEF OutcomeOf
<1> HIDE DEF e
<1>5. \/ Refused(orders[e.orderId], versions[e.orderId], OutcomeOf(i))
      \/ TakesEffect(orders[e.orderId], versions[e.orderId], e, OutcomeOf(i))
  BY <1>1, <1>3, <1>4, HandleEventRecords
<1> QED
  BY <1>1, <1>3, <1>5 DEF e

\* What a handler decides counts as evaluated.
LEMMA OutcomeIsEvaluated ==
  ASSUME TypeOK, LedgerConsistent, NEW i \in DOMAIN inbox, Valid(i)
  PROVE  /\ OutcomeDecision(i, OutcomeOf(i)) \in Decision
         /\ OutcomeDecision(i, OutcomeOf(i)).rawIncomingEventId = i
         /\ Evaluated(OutcomeDecision(i, OutcomeOf(i)))
<1> DEFINE out == OutcomeOf(i)
<1>1. i \in Nat \ {0}
  BY RowOfInbox
<1>2. out \in Outcome
  BY OutcomeOfStep
<1>3. \/ out.decision \in {"ACCEPTED", "PARTIALLY_APPLIED"}
      \/ /\ out.decision = "REJECTED"
         /\ out.reasonCode \notin {"INVALID_SCHEMA", "UNKNOWN_EVENT_TYPE"}
  BY OutcomeOfRecords DEF Refused, TakesEffect
<1> HIDE DEF out
<1>4. Evaluated(OutcomeDecision(i, out))
  BY <1>3 DEF Evaluated, Applied, OutcomeDecision
<1> QED
  BY <1>1, <1>2, <1>4, OutcomeDecisionType DEF out

\* The transaction of processEvent puts its row off, as the order does not exist yet,
\* or decides it.
LEMMA ProcessedCases ==
  ASSUME TypeOK, LedgerConsistent, NEW i \in DOMAIN inbox, Processed(i)
  PROVE  \/ \E r \in Row : PutOff(i, r) /\ Claims(i) /\ OrderNotReady(i)
         \/ \E d \in Decision, r \in Row : DecidedBy(i, d, r) /\ d.decision # "FAILED"
<1>1. PICK x \in Entry : x.id = i /\ x.attempts = inbox[i].attempts /\ ProcessingActions(x)
  BY DEF Processed
<1>2. /\ inbox[i] \in Row /\ inbox[i].attempts \in Nat /\ i \in Nat \ {0}
      /\ inbox[i].attempts + 1 \in Nat
  BY RowOfInbox DEF Row
<1>3. CASE RejectInvalid(x)
  <2> DEFINE reason == Validate(inbox[i].raw)
             d == BareDecision(i, "REJECTED", reason)
  <2>1. reason \in {"INVALID_SCHEMA", "UNKNOWN_EVENT_TYPE"}
    BY <1>1, <1>3 DEF RejectInvalid, Valid, Validate
  <2>2. /\ WriteDecision(d, inbox[i].attempts, NULL) /\ ~Valid(i)
        /\ UNCHANGED <<keys, orders, versions>>
    BY <1>1, <1>3 DEF RejectInvalid, WriteFinalDecision
  <2> HIDE DEF reason
  <2>3. d \in Decision /\ d.rawIncomingEventId = i
    BY <1>2, <2>1, BareDecisionType DEF Decisions, ReasonCodes
  <2>4. d.decision = "REJECTED" /\ d.reasonCode = reason /\ d.changedFields = NoChanges
    BY DEF BareDecision
  <2> HIDE DEF d
  <2>5. PICK r \in Row : /\ Logged(d) /\ RowBecomes(i, r)
                         /\ r.processingStatus = "DONE" /\ r.due
                         /\ r.lastErrorMessage = NULL
    BY <1>2, <2>2, <2>3, WriteDecisionWrites
  <2>6. DecidedBy(i, d, r)
    BY <2>1, <2>2, <2>3, <2>4, <2>5 DEF DecidedBy, FoundInvalid
  <2> QED
    BY <2>3, <2>4, <2>6
<1>4. CASE DecideDuplicate(x)
  <2> DEFINE d == BareDecision(i, "DUPLICATE", "DUPLICATE_EVENT")
  <2>1. /\ WriteDecision(d, inbox[i].attempts, NULL)
        /\ Valid(i) /\ ClaimedByAnother(i) /\ UNCHANGED <<keys, orders, versions>>
    BY <1>1, <1>4 DEF DecideDuplicate, WriteFinalDecision
  <2>2. d \in Decision /\ d.rawIncomingEventId = i
    BY <1>2, BareDecisionType DEF Decisions, ReasonCodes
  <2>3. /\ d.decision = "DUPLICATE" /\ d.reasonCode = "DUPLICATE_EVENT"
        /\ d.changedFields = NoChanges
    BY DEF BareDecision
  <2> HIDE DEF d
  <2>4. PICK r \in Row : /\ Logged(d) /\ RowBecomes(i, r)
                         /\ r.processingStatus = "DONE" /\ r.due
                         /\ r.lastErrorMessage = NULL
    BY <1>2, <2>1, <2>2, WriteDecisionWrites
  <2>5. DecidedBy(i, d, r)
    BY <2>1, <2>2, <2>3, <2>4 DEF DecidedBy, FoundDuplicate
  <2> QED
    BY <2>2, <2>3, <2>5
<1>5. CASE DecideEvent(x)
  <2> DEFINE out == OutcomeOf(i)
             d == OutcomeDecision(i, out)
             o == inbox[i].raw.orderId
  <2>1. /\ WriteDecision(d, inbox[i].attempts, NULL)
        /\ Claims(i) /\ out.reasonCode # "ORDER_NOT_READY"
        /\ orders' = [orders EXCEPT ![o] = out.order]
        /\ versions' = [versions EXCEPT ![o] = out.versions]
    BY <1>1, <1>5 DEF DecideEvent, WriteFinalDecision, OrderNotReady, Claims
  <2>2. d \in Decision /\ d.rawIncomingEventId = i /\ Evaluated(d)
    BY <2>1, OutcomeIsEvaluated DEF Claims
  <2>3. d.reasonCode = out.reasonCode
    BY DEF OutcomeDecision
  <2> HIDE DEF d
  <2>4. PICK r \in Row : /\ Logged(d) /\ RowBecomes(i, r)
                         /\ r.processingStatus = "DONE" /\ r.due
                         /\ r.lastErrorMessage = NULL
    BY <1>2, <2>1, <2>2, WriteDecisionWrites
  <2>5. OrderAsked(i, d, r)
    BY <2>1, <2>2, <2>3, <2>4 DEF OrderAsked, d
  <2>6. DecidedBy(i, d, r)
    BY <2>2, <2>4, <2>5 DEF DecidedBy
  <2> QED
    BY <2>2, <2>6 DEF Evaluated, Applied
<1>6. CASE RetryNotReady(x)
  <2>1. /\ inbox[i].attempts + 1 < 3 /\ Claims(i) /\ OrderNotReady(i)
        /\ MarkRetryableFailure(i, inbox[i].attempts, "ORDER_NOT_READY")
        /\ UNCHANGED <<orders, versions>>
    BY <1>1, <1>6 DEF RetryNotReady, MaxRetryableAttempts, Claims
  <2> QED
    BY <2>1, RetryWrites
<1>7. CASE RejectNotReady(x)
  <2> DEFINE out == OutcomeOf(i)
             d == OutcomeDecision(i, out)
             o == inbox[i].raw.orderId
             next == inbox[i].attempts + 1
  <2>1. /\ WriteDecision(d, next, NULL) /\ next >= 3
        /\ Claims(i) /\ out.reasonCode = "ORDER_NOT_READY"
        /\ UNCHANGED <<orders, versions>>
    BY <1>1, <1>7 DEF RejectNotReady, WriteFinalDecision, OrderNotReady, Claims,
       MaxRetryableAttempts
  <2>2. d \in Decision /\ d.rawIncomingEventId = i /\ Evaluated(d)
    BY <2>1, OutcomeIsEvaluated DEF Claims
  <2>3. d.reasonCode = out.reasonCode
    BY DEF OutcomeDecision
  <2>4. out.order = orders[o] /\ out.versions = versions[o]
    <3>1. Refused(orders[o], versions[o], out)
      BY <2>1, OutcomeOfRecords DEF Claims, TakesEffect
    <3> QED
      BY <3>1 DEF Refused
  <2> HIDE DEF d, out, o, next
  <2>5. PICK r \in Row : /\ Logged(d) /\ RowBecomes(i, r)
                         /\ r.processingStatus = "DONE" /\ r.due
                         /\ r.lastErrorMessage = NULL /\ r.attempts = next
    BY <1>2, <2>1, <2>2, WriteDecisionWrites DEF next
  <2>6. /\ orders' = [orders EXCEPT ![o] = out.order]
        /\ versions' = [versions EXCEPT ![o] = out.versions]
    BY <2>1, <2>4 DEF TypeOK
  <2>7. OrderAsked(i, d, r)
    BY <2>1, <2>2, <2>5, <2>6 DEF OrderAsked, d, out, o, next
  <2>8. DecidedBy(i, d, r)
    BY <2>2, <2>5, <2>7 DEF DecidedBy
  <2> QED
    BY <2>2, <2>8 DEF Evaluated, Applied
<1> QED
  BY <1>1, <1>3, <1>4, <1>5, <1>6, <1>7 DEF ProcessingActions

\* So does the one of handleUnexpectedFailure.
LEMMA FailureCases ==
  ASSUME TypeOK, NEW i \in DOMAIN inbox, FailureRecorded(i)
  PROVE  \/ \E r \in Row : PutOff(i, r)
         \/ \E d \in Decision, r \in Row : DecidedBy(i, d, r)
<1> DEFINE d == BareDecision(i, "FAILED", "PROCESSING_ERROR")
<1>1. inbox[i] \in Row /\ inbox[i].attempts \in Nat /\ i \in Nat \ {0}
  BY RowOfInbox DEF Row
<1>2. UNCHANGED <<keys, orders, versions>>
  BY DEF FailureRecorded
<1>3. CASE inbox[i].attempts + 1 >= 3 /\ WriteFailedDecision(i)
  <2>1. WriteDecision(d, inbox[i].attempts, "ERROR")
    BY <1>3 DEF WriteFailedDecision
  <2>2. d \in Decision /\ d.rawIncomingEventId = i
    BY <1>1, BareDecisionType DEF Decisions, ReasonCodes
  <2>3. /\ d.decision = "FAILED" /\ d.reasonCode = "PROCESSING_ERROR"
        /\ d.changedFields = NoChanges
    BY DEF BareDecision
  <2> HIDE DEF d
  <2>4. PICK r \in Row : /\ Logged(d) /\ RowBecomes(i, r)
                         /\ r.processingStatus = "DONE" /\ r.due
                         /\ r.attempts = inbox[i].attempts
                         /\ r.lastErrorMessage = "ERROR"
    BY <1>1, <2>1, <2>2, WriteDecisionWrites
  <2>5. DecidedBy(i, d, r)
    BY <1>2, <1>3, <2>2, <2>3, <2>4 DEF DecidedBy, GivenUp
  <2> QED
    BY <2>2, <2>5
<1>4. CASE inbox[i].attempts + 1 < 3 /\ MarkRetryableFailure(i, inbox[i].attempts, "ERROR")
  BY <1>2, <1>4, RetryWrites
<1> QED
  BY <1>3, <1>4 DEF FailureRecorded, MaxProcessingAttempts

\* What a step of the engine does to the database: nothing, rows are added, a
\* delay passes, or one delivery that a poll may work on is put off or decided.
LEMMA DatabaseSteps ==
  ASSUME IInv, [Next]_vars
  PROVE  \/ UNCHANGED database
         \/ RowsAdded
         \/ \E i \in DOMAIN inbox : DelayPassed(i)
         \/ \E i \in DOMAIN inbox : Workable(i) /\ \E r \in Row : PutOff(i, r)
         \/ \E i \in DOMAIN inbox : /\ Workable(i)
                                    /\ \E d \in Decision, r \in Row : DecidedBy(i, d, r)
<1>1. TypeOK /\ LedgerConsistent
  BY DEF IInv
<1> QED
  BY <1>1, StepCases, EnqueueAddsRows, DelayPasses, ProcessedCases, FailureCases

-----------------------------------------------------------------------------
\* The parts of the invariant.

\* Only a delivery that was put off has a delay to wait for.
OnlyRetriesWait ==
  \A i \in DOMAIN inbox : ~inbox[i].due => inbox[i].processingStatus = "RETRY"

\* A claimed key is held by a delivery of that event id.
KeysHeld ==
  \A e \in EventIds : keys[e] # NULL =>
    keys[e] \in DOMAIN inbox /\ inbox[keys[e]].raw.eventId = e

\* A delivery that was evaluated or found to be a duplicate has an event id.
JudgedHaveIds ==
  \A k \in DOMAIN decisions :
    Evaluated(decisions[k]) \/ decisions[k].decision = "DUPLICATE" =>
      RawOf(decisions[k]).eventId \in EventIds

\* What the engine keeps about deliveries, their keys and their decisions.
DeliveryInv ==
  /\ IInv
  /\ OnlyRetriesWait /\ RetryBudget
  /\ KeysHeld /\ JudgedHaveIds /\ OneDeliveryPerEventId
  /\ StatsMatchAudit

LEMMA InitDeliveryInv == Init => DeliveryInv
<1> SUFFICES ASSUME Init PROVE DeliveryInv
  OBVIOUS
<1>1. IInv
  BY InitInv
<1> USE DEF Init
<1>2. OnlyRetriesWait /\ RetryBudget /\ KeysHeld /\ JudgedHaveIds /\ OneDeliveryPerEventId
  BY DEF OnlyRetriesWait, RetryBudget, KeysHeld, JudgedHaveIds, OneDeliveryPerEventId
<1>3. \A ds : Count(ds) = 0
  BY FS_EmptySet DEF Count
<1>4. StatsMatchAudit
  BY <1>3 DEF StatsMatchAudit
<1> QED
  BY <1>1, <1>2, <1>4 DEF DeliveryInv

\* The shape of the log and of the rows that a decision or a retry leaves.
LEMMA UndecidedHasNoDecision ==
  ASSUME IInv, NEW i \in DOMAIN inbox, Workable(i)
  PROVE  /\ inbox[i].processingStatus \in {"PENDING", "RETRY"}
         /\ \A k \in DOMAIN decisions : decisions[k].rawIncomingEventId # i
  BY DEF Workable, Unprocessed, Decided

LEMMA RowType ==
  ASSUME IInv, NEW i \in DOMAIN inbox
  PROVE  inbox[i] \in Row /\ inbox[i].attempts \in Nat /\ i \in Nat \ {0}
  BY RowOfInbox DEF IInv, Row

-----------------------------------------------------------------------------
\* Attempts.

\* A row that is not decided has been attempted twice at most.
LEMMA BudgetOfWorkable ==
  ASSUME IInv, RetryBudget, NEW i \in DOMAIN inbox, Workable(i)
  PROVE  inbox[i].attempts \in 0..2
  BY UndecidedHasNoDecision DEF RetryBudget

\* The rows and the log, seen as the budget sees them, are kept.
LEMMA BudgetKept ==
  ASSUME IInv, RetryBudget, OnlyRetriesWait,
         \/ UNCHANGED database
         \/ RowsAdded
         \/ \E i \in DOMAIN inbox : DelayPassed(i)
  PROVE  RetryBudget' /\ OnlyRetriesWait'
<1>1. UNCHANGED decisions
  BY DEF database, RowsAdded, DelayPassed
<1>2. CASE UNCHANGED database
  BY <1>2 DEF database, RetryBudget, OnlyRetriesWait, DecisionsOf
<1>3. CASE RowsAdded
  <2>1. ASSUME NEW i \in DOMAIN inbox' \ DOMAIN inbox
        PROVE  /\ inbox'[i].processingStatus = "PENDING" /\ inbox'[i].attempts = 0
               /\ inbox'[i].due
               /\ \A k \in DOMAIN decisions : decisions[k].rawIncomingEventId # i
    BY <1>3 DEF RowsAdded, CreateRawIncomingEvent, IInv, DoneIffDecided
  <2>2. \A i \in DOMAIN inbox : inbox'[i] = inbox[i]
    BY <1>3 DEF RowsAdded
  <2> QED
    BY <1>1, <2>1, <2>2 DEF RetryBudget, OnlyRetriesWait, DecisionsOf
<1>4. CASE \E i \in DOMAIN inbox : DelayPassed(i)
  <2>1. PICK i \in DOMAIN inbox : DelayPassed(i)
    BY <1>4
  <2> DEFINE r == [inbox[i] EXCEPT !.due = TRUE]
  <2>2. /\ r.processingStatus = inbox[i].processingStatus /\ r.due
        /\ r.attempts = inbox[i].attempts /\ r.lastErrorMessage = inbox[i].lastErrorMessage
    BY RowType DEF Row
  <2>3. /\ DOMAIN inbox' = DOMAIN inbox
        /\ \A j \in DOMAIN inbox : inbox'[j] = IF j = i THEN r ELSE inbox[j]
    BY <2>1 DEF DelayPassed, RowBecomes
  <2> HIDE DEF r
  <2> QED
    BY <1>1, <2>2, <2>3 DEF RetryBudget, OnlyRetriesWait, DecisionsOf
<1> QED
  BY <1>2, <1>3, <1>4

LEMMA BudgetPutOff ==
  ASSUME IInv, RetryBudget, OnlyRetriesWait, NEW i \in DOMAIN inbox, Workable(i),
         NEW r \in Row, PutOff(i, r)
  PROVE  RetryBudget' /\ OnlyRetriesWait'
<1>1. /\ r.processingStatus = "RETRY" /\ r.lastErrorMessage # NULL
      /\ r.attempts = inbox[i].attempts + 1 /\ r.attempts < 3 /\ UNCHANGED decisions
      /\ DOMAIN inbox' = DOMAIN inbox
      /\ \A j \in DOMAIN inbox : inbox'[j] = IF j = i THEN r ELSE inbox[j]
  BY DEF PutOff, RowBecomes
<1>2. r.attempts \in 1..2
  BY <1>1, RowType
<1>3. \A k \in DOMAIN decisions : decisions[k].rawIncomingEventId # i
  BY UndecidedHasNoDecision
<1> QED
  BY <1>1, <1>2, <1>3 DEF RetryBudget, OnlyRetriesWait, DecisionsOf

LEMMA BudgetDecided ==
  ASSUME IInv, RetryBudget, OnlyRetriesWait, NEW i \in DOMAIN inbox, Workable(i),
         NEW d \in Decision, NEW r \in Row, DecidedBy(i, d, r)
  PROVE  RetryBudget' /\ OnlyRetriesWait'
<1> DEFINE n == Len(decisions) + 1
<1>1. /\ r.processingStatus = "DONE" /\ r.due /\ d.rawIncomingEventId = i
      /\ DOMAIN inbox' = DOMAIN inbox
      /\ \A j \in DOMAIN inbox : inbox'[j] = IF j = i THEN r ELSE inbox[j]
  BY DEF DecidedBy, RowBecomes
<1>2. /\ DOMAIN decisions' = DOMAIN decisions \cup {n} /\ n \notin DOMAIN decisions
      /\ decisions'[n] = d
      /\ \A k \in DOMAIN decisions : decisions'[k] = decisions[k]
  BY DEF DecidedBy, Logged
<1>3. \A k \in DOMAIN decisions : decisions[k].rawIncomingEventId # i
  BY UndecidedHasNoDecision
<1>4. /\ d.decision = "FAILED" => r.attempts = 2 /\ r.lastErrorMessage = "ERROR"
      /\ d.decision # "FAILED" => r.lastErrorMessage = NULL
      /\ d.reasonCode = "ORDER_NOT_READY" => r.attempts = 3
  <2>1. inbox[i].attempts \in 0..2
    BY BudgetOfWorkable
  <2>2. CASE GivenUp(i, d, r)
    BY <2>1, <2>2 DEF GivenUp
  <2>3. CASE FoundInvalid(i, d, r) \/ FoundDuplicate(i, d, r)
    BY <2>3 DEF FoundInvalid, FoundDuplicate
  <2>4. CASE OrderAsked(i, d, r)
    <3>1. d.decision # "FAILED" /\ r.lastErrorMessage = NULL
      BY <2>4 DEF OrderAsked, Evaluated, Applied
    <3>2. d.reasonCode = "ORDER_NOT_READY" =>
            r.attempts = inbox[i].attempts + 1 /\ r.attempts >= 3
      BY <2>4 DEF OrderAsked
    <3> QED
      BY <2>1, <3>1, <3>2
  <2> QED
    BY <2>2, <2>3, <2>4 DEF DecidedBy
<1> HIDE DEF n
<1>5. OnlyRetriesWait'
  BY <1>1 DEF OnlyRetriesWait
<1>6. ASSUME NEW j \in DOMAIN inbox'
      PROVE  /\ inbox'[j].processingStatus = "PENDING" => inbox'[j].attempts = 0
             /\ inbox'[j].processingStatus = "RETRY" =>
                  inbox'[j].attempts \in 1..2 /\ inbox'[j].lastErrorMessage # NULL
             /\ \A k \in DecisionsOf(j)' :
                  /\ decisions'[k].decision = "FAILED" =>
                       inbox'[j].attempts = 2 /\ inbox'[j].lastErrorMessage = "ERROR"
                  /\ decisions'[k].decision # "FAILED" => inbox'[j].lastErrorMessage = NULL
                  /\ decisions'[k].reasonCode = "ORDER_NOT_READY" => inbox'[j].attempts = 3
  <2>1. CASE j = i
    <3>1. inbox'[j] = r /\ \A k \in DecisionsOf(j)' : decisions'[k] = d
      BY <1>1, <1>2, <1>3, <2>1 DEF DecisionsOf
    <3> QED
      BY <1>1, <1>4, <3>1
  <2>2. CASE j # i
    <3>1. /\ inbox'[j] = inbox[j] /\ j \in DOMAIN inbox
          /\ \A k \in DecisionsOf(j)' : k \in DecisionsOf(j) /\ decisions'[k] = decisions[k]
      BY <1>1, <1>2, <2>2 DEF DecisionsOf
    <3> QED
      BY <3>1 DEF RetryBudget
  <2> QED
    BY <2>1, <2>2
<1>7. RetryBudget'
  BY <1>6 DEF RetryBudget
<1> QED
  BY <1>5, <1>7

LEMMA BudgetStep ==
  ASSUME IInv, RetryBudget, OnlyRetriesWait, [Next]_vars
  PROVE  RetryBudget' /\ OnlyRetriesWait'
  BY DatabaseSteps, BudgetKept, BudgetPutOff, BudgetDecided

-----------------------------------------------------------------------------
\* What no step revises.

LEMMA NullIsNoId == NULL \notin Nat
  BY NullAssumption

\* The delivery that an event id is claimed for holds it, and no key that is
\* held changes hands.
LEMMA ClaimTakes ==
  ASSUME TypeOK, NEW i \in DOMAIN inbox, Claims(i)
  PROVE  /\ inbox[i].raw.eventId \in EventIds
         /\ keys'[inbox[i].raw.eventId] = i
         /\ \A e \in EventIds : e # inbox[i].raw.eventId => keys'[e] = keys[e]
         /\ \A e \in EventIds : keys[e] # NULL => keys'[e] = keys[e]
<1>1. inbox[i].raw.eventId \in EventIds
  BY ValidIsEvent DEF Claims, Event
<1>2. keys \in [EventIds -> (Nat \ {0}) \cup {NULL}]
  BY DEF TypeOK
<1> QED
  BY <1>1, <1>2 DEF Claims, ClaimEventId, ClaimedByAnother

\* A step of the engine keeps the decisions, the items, the DONE rows and the
\* claimed keys.
HistoryKept ==
  /\ DOMAIN decisions \subseteq DOMAIN decisions'
  /\ \A k \in DOMAIN decisions : decisions'[k] = decisions[k]
  /\ \A i \in DOMAIN inbox :
       /\ i \in DOMAIN inbox' /\ inbox'[i].raw = inbox[i].raw
       /\ inbox[i].processingStatus = "DONE" => inbox'[i] = inbox[i]
  /\ \A e \in EventIds : keys[e] # NULL => keys'[e] = keys[e]

\* No step takes back a stored item, a decision or a claimed key.
LEMMA StepKeepsHistory ==
  ASSUME IInv, OnlyRetriesWait, [Next]_vars
  PROVE  HistoryKept
<1> USE DEF HistoryKept
<1>1. CASE UNCHANGED database
  BY <1>1 DEF database
<1>2. CASE RowsAdded
  BY <1>2 DEF RowsAdded
<1>3. ASSUME NEW i \in DOMAIN inbox, DelayPassed(i)
      PROVE  HistoryKept
  <2>1. inbox[i].processingStatus # "DONE"
    BY <1>3 DEF DelayPassed, OnlyRetriesWait
  <2> QED
    BY <1>3, <2>1 DEF DelayPassed, RowBecomes
<1>4. ASSUME NEW i \in DOMAIN inbox, Workable(i), NEW r \in Row, PutOff(i, r)
      PROVE  HistoryKept
  <2>1. inbox[i].processingStatus # "DONE"
    BY <1>4, UndecidedHasNoDecision
  <2>2. \A e \in EventIds : keys[e] # NULL => keys'[e] = keys[e]
    BY <1>4, ClaimTakes DEF PutOff, IInv
  <2> QED
    BY <1>4, <2>1, <2>2 DEF PutOff, RowBecomes
<1>5. ASSUME NEW i \in DOMAIN inbox, Workable(i),
             NEW d \in Decision, NEW r \in Row, DecidedBy(i, d, r)
      PROVE  HistoryKept
  <2>1. inbox[i].processingStatus # "DONE"
    BY <1>5, UndecidedHasNoDecision
  <2>2. \A e \in EventIds : keys[e] # NULL => keys'[e] = keys[e]
    BY <1>5, ClaimTakes DEF DecidedBy, OrderAsked, IInv
  <2>3. /\ DOMAIN decisions \subseteq DOMAIN decisions'
        /\ \A k \in DOMAIN decisions : decisions'[k] = decisions[k]
    BY <1>5 DEF DecidedBy, Logged
  <2> QED
    BY <1>5, <2>1, <2>2, <2>3 DEF DecidedBy, RowBecomes
<1> QED
  BY <1>1, <1>2, <1>3, <1>4, <1>5, DatabaseSteps

-----------------------------------------------------------------------------
\* Keys.

\* The log stays as it is, or delivery i gets a decision at its end.
LEMMA LogSteps ==
  ASSUME IInv, [Next]_vars
  PROVE  \/ UNCHANGED <<decisions, stats>>
         \/ \E i \in DOMAIN inbox : /\ Workable(i)
                                    /\ \E d \in Decision, r \in Row : DecidedBy(i, d, r)
  BY DatabaseSteps DEF database, RowsAdded, DelayPassed, PutOff

\* Keys change only by the claim of a delivery.
LEMMA KeySteps ==
  ASSUME IInv, [Next]_vars
  PROVE  UNCHANGED keys \/ \E i \in DOMAIN inbox : Claims(i)
  BY DatabaseSteps DEF database, RowsAdded, DelayPassed, PutOff, DecidedBy, OrderAsked

LEMMA KeysHeldStep ==
  ASSUME IInv, OnlyRetriesWait, KeysHeld, [Next]_vars
  PROVE  KeysHeld'
<1>1. HistoryKept
  BY StepKeepsHistory
<1>2. ASSUME NEW e \in EventIds, keys'[e] # NULL
      PROVE  keys'[e] \in DOMAIN inbox' /\ inbox'[keys'[e]].raw.eventId = e
  <2>1. keys'[e] \in DOMAIN inbox /\ inbox[keys'[e]].raw.eventId = e
    <3>1. CASE keys'[e] = keys[e]
      BY <1>2, <3>1 DEF KeysHeld
    <3>2. CASE keys'[e] # keys[e]
      <4>1. PICK i \in DOMAIN inbox : Claims(i)
        BY <3>2, KeySteps
      <4> QED
        BY <3>2, <4>1, ClaimTakes DEF IInv
    <3> QED
      BY <3>1, <3>2
  <2> QED
    BY <1>1, <2>1 DEF HistoryKept
<1> QED
  BY <1>2 DEF KeysHeld

\* What a decision that joins the log says about the key of its event id.
LEMMA NewDecisionKey ==
  ASSUME IInv, NEW i \in DOMAIN inbox, NEW d \in Decision, NEW r \in Row,
         DecidedBy(i, d, r)
  PROVE  LET e == inbox[i].raw.eventId
         IN  /\ Evaluated(d) => e \in EventIds /\ keys'[e] = i
             /\ d.decision = "DUPLICATE" => e \in EventIds /\ keys'[e] \notin {NULL, i}
<1>1. TypeOK
  BY DEF IInv
<1>2. CASE GivenUp(i, d, r) \/ FoundInvalid(i, d, r)
  BY <1>2 DEF GivenUp, FoundInvalid, Evaluated, Applied
<1>3. CASE FoundDuplicate(i, d, r) /\ UNCHANGED keys
  <2>1. inbox[i].raw.eventId \in EventIds
    BY <1>1, <1>3, ValidIsEvent DEF FoundDuplicate, Event
  <2> QED
    BY <1>3, <2>1 DEF FoundDuplicate, ClaimedByAnother, Evaluated, Applied
<1>4. CASE OrderAsked(i, d, r)
  BY <1>1, <1>4, ClaimTakes DEF OrderAsked, Evaluated, Applied
<1> QED
  BY <1>2, <1>3, <1>4 DEF DecidedBy

\* Decision d agrees with the event id e of its delivery and the holder of its key.
AgreesWithKey(d, e, holder) ==
  /\ Evaluated(d) => e \in EventIds /\ holder = d.rawIncomingEventId
  /\ d.decision = "DUPLICATE" =>
       e \in EventIds /\ holder \notin {NULL, d.rawIncomingEventId}

\* The part of the invariant that is about one decision.
LEMMA JudgedAgree ==
  ASSUME JudgedHaveIds, OneDeliveryPerEventId, NEW k \in DOMAIN decisions
  PROVE  AgreesWithKey(decisions[k], RawOf(decisions[k]).eventId,
                       keys[RawOf(decisions[k]).eventId])
  BY DEF JudgedHaveIds, OneDeliveryPerEventId, AgreesWithKey

\* Of one event id no second delivery comes to be evaluated.
LEMMA KeysJudgedStep ==
  ASSUME IInv, OnlyRetriesWait, JudgedHaveIds, OneDeliveryPerEventId, [Next]_vars
  PROVE  JudgedHaveIds' /\ OneDeliveryPerEventId'
<1>1. HistoryKept
  BY StepKeepsHistory
<1>2. ASSUME NEW k \in DOMAIN decisions
      PROVE  LET e == inbox'[decisions'[k].rawIncomingEventId].raw.eventId
             IN  AgreesWithKey(decisions'[k], e, keys'[e])
  <2>1. PICK d : d = decisions[k]
    OBVIOUS
  <2>2. PICK e : e = RawOf(d).eventId
    OBVIOUS
  <2>3. d.rawIncomingEventId \in DOMAIN inbox /\ d.rawIncomingEventId \in Nat
    BY <2>1, RowType DEF IInv, DoneIffDecided
  <2>4. decisions'[k] = d /\ inbox'[d.rawIncomingEventId].raw.eventId = e
    BY <1>1, <2>1, <2>2, <2>3 DEF HistoryKept, RawOf
  <2>5. AgreesWithKey(d, e, keys[e])
    BY <2>1, <2>2, JudgedAgree
  <2>6. Evaluated(d) \/ d.decision = "DUPLICATE" => keys'[e] = keys[e]
    BY <1>1, <2>3, <2>5, NullIsNoId DEF HistoryKept, AgreesWithKey
  <2>7. AgreesWithKey(d, e, keys'[e])
    BY <2>5, <2>6 DEF AgreesWithKey
  <2> QED
    BY <2>4, <2>7
<1>3. ASSUME NEW i \in DOMAIN inbox, NEW d \in Decision, NEW r \in Row,
             DecidedBy(i, d, r)
      PROVE  LET n == Len(decisions) + 1
                 e == inbox'[decisions'[n].rawIncomingEventId].raw.eventId
             IN  /\ DOMAIN decisions' = DOMAIN decisions \cup {n}
                 /\ AgreesWithKey(decisions'[n], e, keys'[e])
  <2> DEFINE n == Len(decisions) + 1
             e == inbox[i].raw.eventId
  <2>1. DOMAIN decisions' = DOMAIN decisions \cup {n} /\ decisions'[n] = d
    BY <1>3 DEF DecidedBy, Logged
  <2>2. d.rawIncomingEventId = i /\ inbox'[i].raw = inbox[i].raw
    BY <1>1, <1>3 DEF DecidedBy, HistoryKept
  <2>3. AgreesWithKey(d, e, keys'[e])
    BY <1>3, <2>2, NewDecisionKey DEF AgreesWithKey
  <2> HIDE DEF n
  <2> QED
    BY <2>1, <2>2, <2>3 DEF n
<1>4. \A k \in DOMAIN decisions' :
        LET e == inbox'[decisions'[k].rawIncomingEventId].raw.eventId
        IN  AgreesWithKey(decisions'[k], e, keys'[e])
  <2>1. CASE UNCHANGED decisions
    BY <1>2, <2>1
  <2>2. ASSUME NEW i \in DOMAIN inbox, NEW d \in Decision, NEW r \in Row,
               DecidedBy(i, d, r)
        PROVE  <1>4!:
    BY <1>2, <1>3, <2>2
  <2> QED
    BY <2>1, <2>2, LogSteps
<1> QED
  BY <1>4 DEF AgreesWithKey, JudgedHaveIds, OneDeliveryPerEventId, RawOf, Evaluated, Applied

-----------------------------------------------------------------------------
\* Statistics.

\* The number of decisions of a kind grows with the log.
LEMMA CountGrows ==
  ASSUME TypeOK, NEW d, NEW ds, Logged(d)
  PROVE  Count(ds) \in Nat /\ Count(ds)' = Count(ds) + IF d.decision \in ds THEN 1 ELSE 0
<1> DEFINE n == Len(decisions) + 1
           K == {k \in DOMAIN decisions : decisions[k].decision \in ds}
           L == {k \in DOMAIN decisions' : decisions'[k].decision \in ds}
<1>1. /\ DOMAIN decisions = 1..Len(decisions) /\ Len(decisions) \in Nat
      /\ DOMAIN decisions' = DOMAIN decisions \cup {n} /\ n \notin DOMAIN decisions
      /\ decisions'[n] = d
      /\ \A k \in DOMAIN decisions : decisions'[k] = decisions[k]
  BY DEF Logged
<1>2. IsFiniteSet(DOMAIN decisions) /\ K \in SUBSET DOMAIN decisions
  BY <1>1, FS_Interval
<1>3. IsFiniteSet(K)
  BY <1>2, FS_Subset
<1>4. L = IF d.decision \in ds THEN K \cup {n} ELSE K
  BY <1>1
<1>5. n \notin K
  BY <1>1
<1>6. Count(ds) = Cardinality(K) /\ Count(ds)' = Cardinality(L)
  BY DEF Count
<1> HIDE DEF n, K, L
<1>7. Cardinality(K) \in Nat
  BY <1>3, FS_CardinalityType
<1>8. Cardinality(K \cup {n}) = Cardinality(K) + 1
  BY <1>3, <1>5, FS_AddElement
<1> QED
  BY <1>4, <1>6, <1>7, <1>8

\* incrementStats counts what writeDecision logs.
LEMMA StatsStep ==
  ASSUME IInv, StatsMatchAudit, [Next]_vars
  PROVE  StatsMatchAudit'
<1>1. TypeOK
  BY DEF IInv
<1>2. CASE UNCHANGED <<decisions, stats>>
  BY <1>2 DEF StatsMatchAudit, Count
<1>3. ASSUME NEW d \in Decision, Logged(d)
      PROVE  StatsMatchAudit'
  <2> DEFINE valid == {"ACCEPTED", "PARTIALLY_APPLIED"}
             rejected == {"REJECTED", "FAILED"}
             duplicate == {"DUPLICATE"}
             C(ds) == Count(ds)
  <2>1. Len(decisions') = Len(decisions) + 1
    BY <1>1, <1>3, AppendProperties DEF Logged, TypeOK
  <2>2. /\ Count(valid)' = Count(valid) + IF d.decision \in valid THEN 1 ELSE 0
        /\ Count(rejected)' = Count(rejected) + IF d.decision \in rejected THEN 1 ELSE 0
        /\ Count(duplicate)' = Count(duplicate) + IF d.decision \in duplicate THEN 1 ELSE 0
    BY <1>1, <1>3, CountGrows
  <2>3. stats = [processed |-> Len(decisions), valid |-> Count(valid),
                 rejected |-> Count(rejected), duplicate |-> Count(duplicate)]
    BY DEF StatsMatchAudit
  <2>4. stats' = [processed |-> stats.processed + 1,
                  valid |-> stats.valid + IF d.decision \in valid THEN 1 ELSE 0,
                  duplicate |-> stats.duplicate + IF d.decision \in duplicate THEN 1 ELSE 0,
                  rejected |-> stats.rejected + IF d.decision \in rejected THEN 1 ELSE 0]
    BY <1>3 DEF Logged, IncrementStats
  <2>5. stats' = [processed |-> Len(decisions'), valid |-> Count(valid)',
                  rejected |-> Count(rejected)', duplicate |-> Count(duplicate)']
    <3>1. /\ stats.processed = Len(decisions) /\ stats.valid = Count(valid)
          /\ stats.rejected = Count(rejected) /\ stats.duplicate = Count(duplicate)
      BY <2>3
    <3> HIDE DEF valid, rejected, duplicate
    <3> QED
      BY <2>1, <2>2, <2>4, <3>1
  <2> QED
    BY <2>5 DEF StatsMatchAudit
<1> QED
  BY <1>2, <1>3, LogSteps DEF DecidedBy

-----------------------------------------------------------------------------
\* The invariant is inductive.
THEOREM DeliveryStep == DeliveryInv /\ [Next]_vars => DeliveryInv'
<1> SUFFICES ASSUME DeliveryInv, [Next]_vars PROVE DeliveryInv'
  OBVIOUS
<1>1. IInv'
  BY NextKeepsInv DEF DeliveryInv
<1>2. OnlyRetriesWait' /\ RetryBudget'
  BY BudgetStep DEF DeliveryInv
<1>3. KeysHeld' /\ JudgedHaveIds' /\ OneDeliveryPerEventId'
  BY KeysHeldStep, KeysJudgedStep DEF DeliveryInv
<1>4. StatsMatchAudit'
  BY StatsStep DEF DeliveryInv
<1> QED
  BY <1>1, <1>2, <1>3, <1>4 DEF DeliveryInv

\* The invariant of deliveries, keys, attempts and statistics holds in every reachable
\* state, through every rollback, crash and retry.
THEOREM DeliveryInvariant == Spec => []DeliveryInv
  BY InitDeliveryInv, DeliveryStep, PTL DEF Spec

\* Missing-order attempts and technical failures of a delivery share one budget
\* of three, in whatever order they come.
THEOREM BudgetShared == Spec => []RetryBudget
<1>1. DeliveryInv => RetryBudget
  BY DEF DeliveryInv
<1> QED
  BY <1>1, DeliveryInvariant, PTL

\* However often an event id is delivered, and whatever fails in between, only the
\* delivery that holds its key meets the order.
THEOREM KeyedOnce == Spec => []OneDeliveryPerEventId
<1>1. DeliveryInv => OneDeliveryPerEventId
  BY DEF DeliveryInv
<1> QED
  BY <1>1, DeliveryInvariant, PTL

\* The statistics are the counts of the audit log in every state.
THEOREM StatsCorrect == Spec => []StatsMatchAudit
<1>1. DeliveryInv => StatsMatchAudit
  BY DEF DeliveryInv
<1> QED
  BY <1>1, DeliveryInvariant, PTL

-----------------------------------------------------------------------------
\* Action properties.

\* Either row i stays, or its delay passes, or a poll was free to work on it.
LEMMA RowSteps ==
  ASSUME IInv, [Next]_vars, NEW i \in DOMAIN inbox, ~inbox[i].due
  PROVE  inbox'[i] \in {inbox[i], [inbox[i] EXCEPT !.due = TRUE]}
<1>1. CASE UNCHANGED database \/ RowsAdded
  BY <1>1 DEF database, RowsAdded
<1>2. CASE \E j \in DOMAIN inbox : DelayPassed(j)
  BY <1>2 DEF DelayPassed, RowBecomes
<1>3. ASSUME NEW j \in DOMAIN inbox, Workable(j), NEW r, RowBecomes(j, r)
      PROVE  inbox'[i] = inbox[i]
  BY <1>3 DEF RowBecomes, Workable
<1> QED
  BY <1>1, <1>2, <1>3, DatabaseSteps DEF PutOff, DecidedBy

\* A rescheduled delivery is left alone until its delay has passed, also by the
\* poll that was under way when it was rescheduled.
THEOREM DelayRespected == Spec => RetryWaits
<1>1. IInv /\ [Next]_vars =>
        [\A i \in DOMAIN inbox :
           inbox[i].processingStatus = "RETRY" /\ ~inbox[i].due
             => inbox'[i] \in {inbox[i], [inbox[i] EXCEPT !.due = TRUE]}]_vars
  BY RowSteps
<1> QED
  BY <1>1, Invariant, PTL DEF Spec, RetryWaits

\* A kept log is a prefix of the log it has grown to.
LEMMA KeptLogIsPrefix ==
  ASSUME TypeOK, TypeOK', HistoryKept
  PROVE  IsPrefix(decisions, decisions')
<1> DEFINE n == Len(decisions)
           old == SubSeq(decisions, 1, n)
           new == SubSeq(decisions', 1, n)
<1>1. /\ decisions \in Seq(Decision) /\ DOMAIN decisions = 1..n /\ n \in Nat
      /\ decisions' \in Seq(Decision) /\ DOMAIN decisions' = 1..Len(decisions')
      /\ Len(decisions') \in Nat
  BY LenProperties DEF TypeOK
<1>2. /\ n <= Len(decisions')
      /\ \A k \in 1..n : decisions[k] \in Decision /\ decisions'[k] = decisions[k]
  <2>1. 1..n \subseteq 1..Len(decisions')
    BY <1>1 DEF HistoryKept
  <2>2. n <= Len(decisions')
    <3>1. CASE n = 0
      BY <1>1, <3>1
    <3>2. CASE n # 0
      <4>1. n \in 1..n
        BY <1>1, <3>2
      <4> QED
        BY <1>1, <2>1, <4>1
    <3> QED
      BY <3>1, <3>2
  <2> QED
    BY <1>1, <2>2, ElementOfSeq DEF HistoryKept
<1> HIDE DEF n
<1>3. /\ old \in Seq(Decision) /\ new \in Seq(Decision)
      /\ Len(old) = Len(new)
      /\ \A k \in 1..Len(old) : old[k] = new[k]
  <2>1. /\ old \in Seq(Decision) /\ Len(old) = IF 1 <= n THEN n - 1 + 1 ELSE 0
        /\ \A k \in 1..(n - 1 + 1) : old[k] = decisions[1 + k - 1]
    BY <1>1, <1>2, SubSeqProperties
  <2>2. /\ new \in Seq(Decision) /\ Len(new) = IF 1 <= n THEN n - 1 + 1 ELSE 0
        /\ \A k \in 1..(n - 1 + 1) : new[k] = decisions'[1 + k - 1]
    BY <1>1, <1>2, SubSeqProperties
  <2>3. Len(old) = n /\ Len(new) = n
    BY <1>1, <2>1, <2>2
  <2>4. ASSUME NEW k \in 1..n
        PROVE  old[k] = new[k]
    <3>1. k \in 1..(n - 1 + 1) /\ 1 + k - 1 = k
      BY <1>1
    <3>2. old[k] = decisions[k] /\ new[k] = decisions'[k]
      BY <2>1, <2>2, <3>1
    <3> QED
      BY <1>2, <3>2
  <2> QED
    BY <2>1, <2>2, <2>3, <2>4
<1> HIDE DEF old, new
<1>4. old = new
  BY <1>3, SeqEqual
<1> QED
  BY <1>2, <1>4 DEF IsPrefix, n, old, new

\* What the audit log, a DONE delivery and a claimed key say is final.
THEOREM HistoryFinal == Spec => AuditIsFinal
<1>1. DeliveryInv /\ DeliveryInv' /\ [Next]_vars =>
        [/\ IsPrefix(decisions, decisions')
         /\ \A i \in DOMAIN inbox :
              /\ i \in DOMAIN inbox' /\ inbox'[i].raw = inbox[i].raw
              /\ inbox[i].processingStatus = "DONE" => inbox'[i] = inbox[i]
         /\ \A e \in EventIds : keys[e] # NULL => keys'[e] = keys[e]]_vars
  <2> SUFFICES ASSUME DeliveryInv, DeliveryInv', [Next]_vars
               PROVE  IsPrefix(decisions, decisions') /\ HistoryKept
    BY DEF HistoryKept
  <2>1. HistoryKept
    BY StepKeepsHistory DEF DeliveryInv
  <2>2. TypeOK /\ TypeOK'
    BY DEF DeliveryInv, IInv
  <2> QED
    BY <2>1, <2>2, KeptLogIsPrefix
<1> QED
  BY <1>1, DeliveryInvariant, PTL DEF Spec, AuditIsFinal

-----------------------------------------------------------------------------
(***************************************************************************)
(* The engine implements Inbox.  The verdict of a delivery is that of the  *)
(* only decision about it; a step of the engine stores the deliveries of   *)
(* one request, gives one of them its verdict, or is not seen by clients.  *)
(***************************************************************************)

\* What a client sees.

Seen(i) == [eventId |-> inbox[i].raw.eventId, verdict |-> VerdictOn(i)]

SeenDelivery == [eventId : EventIds \cup {NULL}, verdict : Clients!Verdicts \cup {NULL}]

\* The verdict a client reads out of a decision.
LEMMA VerdictOfDecision ==
  ASSUME NEW d \in Decision
  PROVE  /\ VerdictOf(d) \in Clients!Verdicts
         /\ VerdictOf(d) \in {"APPLIED", "REFUSED"} <=> Evaluated(d)
         /\ VerdictOf(d) = "APPLIED" <=> Applied(d)
         /\ VerdictOf(d) \in {"REFUSED", "INVALID", "FAILED"} <=>
              d.decision \in {"REJECTED", "FAILED"}
         /\ VerdictOf(d) = "DUPLICATE" <=> d.decision = "DUPLICATE"
<1>1. d.decision \in Decisions
  BY DEF Decision
<1> QED
  BY <1>1 DEF VerdictOf, Clients!Verdicts, Clients!Evaluations, Evaluated, Applied, Decisions

\* The log decides on delivery i by d.
LogDecides(i, d) ==
  \E k \in DOMAIN decisions : decisions[k] = d /\ d.rawIncomingEventId = i

\* A delivery has the verdict of its one decision, and none before.
VerdictsAgree ==
  \A i \in DOMAIN inbox :
    /\ ~Decided(i) => VerdictOn(i) = NULL
    /\ \A d \in Decision : LogDecides(i, d) => VerdictOn(i) = VerdictOf(d)

\* The verdict of a delivery is that of the only decision about it.
LEMMA VerdictsOfLog == IInv => VerdictsAgree
<1> SUFFICES ASSUME IInv PROVE VerdictsAgree
  OBVIOUS
<1>1. ASSUME NEW i \in DOMAIN inbox, NEW d \in Decision, LogDecides(i, d)
      PROVE  VerdictOn(i) = VerdictOf(d)
  <2>1. PICK k \in DOMAIN decisions : decisions[k] = d /\ d.rawIncomingEventId = i
    BY <1>1 DEF LogDecides
  <2>2. DecisionsOf(i) = {k}
    BY <2>1 DEF DecisionsOf, IInv, DoneIffDecided
  <2>3. Decided(i) /\ (CHOOSE j \in DecisionsOf(i) : TRUE) = k
    BY <2>1, <2>2 DEF Decided
  <2> QED
    BY <2>1, <2>3 DEF VerdictOn
<1> QED
  BY <1>1 DEF VerdictsAgree, VerdictOn

\* A decided delivery is decided by one of the decisions.
LEMMA DecidedByLog ==
  ASSUME IInv, NEW i, Decided(i)
  PROVE  \E d \in Decision : LogDecides(i, d)
<1>1. PICK k \in DOMAIN decisions : decisions[k].rawIncomingEventId = i
  BY DEF Decided
<1>2. decisions[k] \in Decision
  BY ElementOfSeq, LenProperties DEF IInv, TypeOK
<1> QED
  BY <1>1, <1>2 DEF LogDecides

\* Clients see the deliveries of the inbox, one by one.
DeliveriesSeen ==
  /\ Deliveries \in Seq(SeenDelivery) /\ Len(Deliveries) = Len(inbox)
  /\ DOMAIN Deliveries = DOMAIN inbox
  /\ \A i \in DOMAIN inbox : Deliveries[i] = Seen(i) /\ Seen(i) \in SeenDelivery

LEMMA SeenTypes == IInv => DeliveriesSeen
<1> SUFFICES ASSUME IInv PROVE DeliveriesSeen
  OBVIOUS
<1>1. DOMAIN inbox = 1..Len(inbox) /\ Len(inbox) \in Nat
  BY LenProperties DEF IInv, TypeOK
<1>2. ASSUME NEW i \in 1..Len(inbox)
      PROVE  Seen(i) \in SeenDelivery
  <2>1. inbox[i].raw.eventId \in EventIds \cup {NULL}
    BY <1>1, RowType, EngineAssumption DEF Row, RawEvent
  <2>2. VerdictOn(i) \in Clients!Verdicts \cup {NULL}
    <3>1. CASE Decided(i)
      <4>1. PICK d \in Decision : LogDecides(i, d)
        BY <3>1, DecidedByLog
      <4> QED
        BY <1>1, <4>1, VerdictsOfLog, VerdictOfDecision DEF VerdictsAgree
    <3>2. CASE ~Decided(i)
      BY <3>2 DEF VerdictOn
    <3> QED
      BY <3>1, <3>2
  <2> QED
    BY <2>1, <2>2 DEF Seen, SeenDelivery
<1>3. Deliveries = [i \in 1..Len(inbox) |-> Seen(i)]
  BY <1>1 DEF Deliveries, Seen
<1>4. [i \in 1..Len(inbox) |-> Seen(i)] \in Seq(SeenDelivery)
  BY <1>1, <1>2, IsASeq
<1>5. Len(Deliveries) = Len(inbox)
  BY <1>1, <1>3, <1>4, LenProperties
<1> QED
  BY <1>1, <1>2, <1>3, <1>4, <1>5 DEF DeliveriesSeen

LEMMA InitOpensInbox == Init => Clients!Init
<1> SUFFICES ASSUME Init PROVE Clients!Init
  OBVIOUS
<1>1. IInv
  BY InitInv
<1>2. Deliveries \in Seq(SeenDelivery) /\ Len(Deliveries) = 0
  BY <1>1, SeenTypes DEF Init, DeliveriesSeen
<1>3. Deliveries = <<>>
  BY <1>2, EmptySeq
<1>4. Counts = [valid |-> 0, rejected |-> 0, duplicate |-> 0]
  BY DEF Init, Counts
<1> QED
  BY <1>3, <1>4 DEF Clients!Init

-----------------------------------------------------------------------------
\* Steps that store deliveries.

\* Rows that are added are a request of Inbox.
LEMMA StoringPosts ==
  ASSUME IInv, IInv', RowsAdded
  PROVE  \E n \in 1..MaxBatch :
           /\ DOMAIN inbox' = 1..(Len(inbox) + n)
           /\ \E ids \in [1..n -> EventIds \cup {NULL}] : Clients!Post(ids)
<1>a. PICK L : L = Len(inbox)
  OBVIOUS
<1> DEFINE Id(k) == inbox'[L + k].raw.eventId
           New(k) == [eventId |-> Id(k), verdict |-> NULL]
<1>1. PICK n \in 1..MaxBatch :
        L + n <= MaxDeliveries /\ DOMAIN inbox' = 1..(L + n)
  BY <1>a DEF RowsAdded
<1>2. n \in Nat /\ L \in Nat /\ DOMAIN inbox = 1..L
  BY <1>a, EngineAssumption, LenProperties DEF IInv, TypeOK
<1> DEFINE ids == [k \in 1..n |-> Id(k)]
           new == [k \in 1..n |-> New(k)]
<1>3. /\ Deliveries \in Seq(SeenDelivery) /\ Len(Deliveries) = L
      /\ \A i \in 1..L : Deliveries[i] = Seen(i)
  BY <1>a, <1>2, SeenTypes DEF DeliveriesSeen
<1>4. /\ Deliveries' \in Seq(SeenDelivery) /\ Len(Deliveries') = L + n
      /\ DOMAIN Deliveries' = 1..(L + n)
      /\ \A i \in 1..(L + n) : Deliveries'[i] = Seen(i)' /\ Seen(i)' \in SeenDelivery
  <2>1. IInv' => DeliveriesSeen'
    BY SeenTypes, PTL
  <2>2. inbox' \in Seq(Row)
    BY DEF IInv, TypeOK
  <2>3. Len(inbox') = L + n
    BY <1>1, <1>2, <2>2, LenProperties
  <2> QED
    BY <1>1, <2>1, <2>3 DEF DeliveriesSeen
<1>5. \A i \in 1..L : Seen(i)' = Seen(i)
  BY <1>2 DEF RowsAdded, Seen, VerdictOn, Decided, DecisionsOf
<1>6. \A k \in 1..n : Seen(L + k)' = New(k) /\ New(k) \in SeenDelivery
  <2> SUFFICES ASSUME NEW k \in 1..n
               PROVE  Seen(L + k)' = New(k) /\ New(k) \in SeenDelivery
    OBVIOUS
  <2>1. L + k \in 1..(L + n) /\ L + k \notin 1..L
    BY <1>2
  <2>2. ~Decided(L + k)'
    BY <1>2, <2>1 DEF RowsAdded, Decided, IInv, DoneIffDecided
  <2>3. VerdictOn(L + k)' = NULL
    BY <2>2 DEF VerdictOn
  <2>4. Seen(L + k)' = New(k)
    BY <2>3 DEF Seen
  <2> QED
    BY <1>4, <2>1, <2>4
<1> HIDE DEF Id, New
<1>7. new \in Seq(SeenDelivery) /\ Len(new) = n /\ \A k \in 1..n : new[k] = New(k)
  BY <1>2, <1>6, IsASeq
<1>8. /\ ids \in [1..n -> EventIds \cup {NULL}] /\ Len(ids) = n
  <2>1. \A k \in 1..n : Id(k) \in EventIds \cup {NULL}
    BY <1>6 DEF New, SeenDelivery
  <2> QED
    BY <1>2, <2>1, IsASeq
<1>9. Deliveries' = Deliveries \o new
  <2>1. /\ Deliveries \o new \in Seq(SeenDelivery)
        /\ Len(Deliveries \o new) = L + n
        /\ \A i \in 1..(L + n) :
             (Deliveries \o new)[i] = IF i <= L THEN Deliveries[i] ELSE new[i - L]
    BY <1>3, <1>7, ConcatProperties
  <2>2. ASSUME NEW i \in 1..(L + n)
        PROVE  Deliveries'[i] = (Deliveries \o new)[i]
    <3>1. CASE i <= L
      <4>1. i \in 1..L
        BY <1>2, <3>1
      <4> QED
        BY <1>3, <1>4, <1>5, <2>1, <3>1, <4>1
    <3>2. CASE ~(i <= L)
      <4>1. i - L \in 1..n /\ L + (i - L) = i
        BY <1>2, <3>2
      <4>2. Seen(i)' = New(i - L)
        BY <1>6, <4>1
      <4> QED
        BY <1>4, <1>7, <2>1, <3>2, <4>1, <4>2
    <3> QED
      BY <3>1, <3>2
  <2> QED
    BY <1>4, <2>1, <2>2, SeqEqual
<1>10. new = [k \in 1..Len(ids) |-> [eventId |-> ids[k], verdict |-> NULL]]
  BY <1>8 DEF New
<1>11. UNCHANGED Counts
  BY DEF RowsAdded, Counts
<1>12. Clients!Post(ids)
  BY <1>1, <1>3, <1>8, <1>9, <1>10, <1>11 DEF Clients!Post
<1> HIDE DEF ids, new
<1> QED
  BY <1>a, <1>1, <1>8, <1>12

-----------------------------------------------------------------------------
\* Steps that a client does not see.

\* What touches neither the items nor the log nor the statistics is not seen.
LEMMA UnseenSteps ==
  ASSUME UNCHANGED <<decisions, stats>>, DOMAIN inbox' = DOMAIN inbox,
         \A i \in DOMAIN inbox : inbox'[i].raw = inbox[i].raw
  PROVE  UNCHANGED <<Deliveries, Counts>>
<1>1. \A i : VerdictOn(i)' = VerdictOn(i)
  BY DEF VerdictOn, Decided, DecisionsOf
<1> QED
  BY <1>1 DEF Deliveries, Counts

-----------------------------------------------------------------------------
\* Steps that decide a delivery.

\* After the step every delivery has the verdict it had, but for i.
LEMMA VerdictFalls ==
  ASSUME IInv, IInv', NEW i \in DOMAIN inbox, Workable(i),
         NEW d \in Decision, NEW r \in Row, DecidedBy(i, d, r)
  PROVE  /\ VerdictOn(i) = NULL
         /\ Deliveries' = [Deliveries EXCEPT ![i].verdict = VerdictOf(d)]
<1> DEFINE n == Len(decisions) + 1
<1>1. /\ d.rawIncomingEventId = i
      /\ DOMAIN inbox' = DOMAIN inbox
      /\ \A j \in DOMAIN inbox : inbox'[j].raw = inbox[j].raw
  BY DEF DecidedBy, RowBecomes
<1>2. /\ DOMAIN decisions' = DOMAIN decisions \cup {n}
      /\ decisions'[n] = d
      /\ \A k \in DOMAIN decisions : decisions'[k] = decisions[k]
  BY DEF DecidedBy, Logged
<1> HIDE DEF n
<1>3. VerdictsAgree /\ VerdictsAgree'
  <2>1. IInv' => VerdictsAgree'
    BY VerdictsOfLog, PTL
  <2> QED
    BY <2>1, VerdictsOfLog
<1>4. VerdictOn(i) = NULL
  BY <1>3 DEF Workable, VerdictsAgree
<1>5. VerdictOn(i)' = VerdictOf(d)
  <2>1. LogDecides(i, d)'
    BY <1>1, <1>2 DEF LogDecides
  <2> QED
    BY <1>1, <1>3, <2>1 DEF VerdictsAgree
<1>6. ASSUME NEW j \in DOMAIN inbox, j # i
      PROVE  VerdictOn(j)' = VerdictOn(j)
  <2>1. CASE Decided(j)
    <3>1. PICK c \in Decision : LogDecides(j, c)
      BY <2>1, DecidedByLog
    <3>2. LogDecides(j, c)'
      BY <1>2, <3>1 DEF LogDecides
    <3> QED
      BY <1>1, <1>3, <3>1, <3>2 DEF VerdictsAgree
  <2>2. CASE ~Decided(j)
    <3>1. ~Decided(j)'
      BY <1>1, <1>2, <1>6, <2>2 DEF Decided
    <3> QED
      BY <1>1, <1>3, <2>2, <3>1 DEF VerdictsAgree
  <2> QED
    BY <2>1, <2>2
<1>7. Deliveries = [j \in DOMAIN inbox |-> Seen(j)]
  BY DEF Deliveries, Seen
<1>8. Deliveries' = [j \in DOMAIN inbox |-> Seen(j)']
  BY <1>1 DEF Deliveries, Seen
<1>9. /\ Seen(i)' = [Seen(i) EXCEPT !.verdict = VerdictOf(d)]
      /\ \A j \in DOMAIN inbox : j # i => Seen(j)' = Seen(j)
  BY <1>1, <1>5, <1>6 DEF Seen
<1> QED
  BY <1>4, <1>7, <1>8, <1>9

\* A decision is one that Inbox allows.
LEMMA DecidingDecides ==
  ASSUME DeliveryInv, DeliveryInv', NEW i \in DOMAIN inbox, Workable(i),
         NEW d \in Decision, NEW r \in Row, DecidedBy(i, d, r), HistoryKept
  PROVE  Clients!Next
<1> DEFINE v == VerdictOf(d)
           e == inbox[i].raw.eventId
<1>1. IInv /\ IInv' /\ VerdictsAgree
  BY VerdictsOfLog DEF DeliveryInv
<1>2. /\ VerdictOn(i) = NULL
      /\ Deliveries' = [Deliveries EXCEPT ![i].verdict = v]
  BY <1>1, VerdictFalls
<1>3. /\ DOMAIN Deliveries = DOMAIN inbox
      /\ \A j \in DOMAIN inbox : Deliveries[j] = [eventId |-> inbox[j].raw.eventId,
                                                  verdict |-> VerdictOn(j)]
  BY <1>1, SeenTypes DEF Seen, DeliveriesSeen
<1>4. /\ v \in Clients!Verdicts
      /\ v \in {"APPLIED", "REFUSED"} <=> Evaluated(d)
      /\ v = "APPLIED" <=> Applied(d)
      /\ v \in {"REFUSED", "INVALID", "FAILED"} <=> d.decision \in {"REJECTED", "FAILED"}
      /\ v = "DUPLICATE" <=> d.decision = "DUPLICATE"
  BY VerdictOfDecision
<1> HIDE DEF v
<1>5. /\ Evaluated(d) => e \in EventIds /\ keys'[e] = i
      /\ d.decision = "DUPLICATE" => e \in EventIds /\ keys'[e] \notin {NULL, i}
  BY <1>1, NewDecisionKey
<1>6. Deliveries[i].verdict = NULL
  BY <1>2, <1>3
<1>7. Deliveries[i].eventId = NULL => v \in {"INVALID", "FAILED"}
  BY <1>3, <1>4, <1>5, NullAssumption DEF Clients!Verdicts, Clients!Evaluations
<1>8. ASSUME Evaluated(d), NEW j \in Clients!Others(i)
      PROVE  Deliveries[j].verdict \notin {"APPLIED", "REFUSED"}
  <2>1. j \in DOMAIN inbox /\ j # i /\ inbox[j].raw.eventId = e
    BY <1>3, <1>8 DEF Clients!Others
  <2>2. SUFFICES ASSUME VerdictOn(j) \in {"APPLIED", "REFUSED"} PROVE FALSE
    BY <1>3, <2>1
  <2>3. Decided(j)
    BY <1>1, <2>1, <2>2, VerdictAssumption DEF VerdictsAgree, Clients!Verdicts,
       Clients!Evaluations
  <2>4. PICK c \in Decision : LogDecides(j, c)
    BY <1>1, <2>3, DecidedByLog
  <2>5. Evaluated(c)
    BY <1>1, <2>1, <2>2, <2>4, VerdictOfDecision DEF VerdictsAgree
  <2>7. keys[e] = j
    BY <2>1, <2>4, <2>5 DEF DeliveryInv, OneDeliveryPerEventId, RawOf, LogDecides
  <2>8. j # NULL
    BY <1>1, <2>1, RowType, NullIsNoId
  <2>9. keys'[e] = j
    BY <1>5, <1>8, <2>7, <2>8 DEF HistoryKept
  <2> QED
    BY <1>5, <1>8, <2>1, <2>9
<1>9. d.decision = "DUPLICATE" => Clients!Others(i) # {}
  <2> SUFFICES ASSUME d.decision = "DUPLICATE" PROVE Clients!Others(i) # {}
    OBVIOUS
  <2>1. keys'[e] \in DOMAIN inbox' /\ inbox'[keys'[e]].raw.eventId = e
    BY <1>5 DEF DeliveryInv, KeysHeld
  <2>2. DOMAIN inbox' = DOMAIN inbox /\ \A j \in DOMAIN inbox : inbox'[j].raw = inbox[j].raw
    BY DEF DecidedBy, RowBecomes
  <2>3. keys'[e] \in Clients!Others(i)
    BY <1>3, <1>5, <2>1, <2>2 DEF Clients!Others
  <2> QED
    BY <2>3
<1>10. Counts' = Clients!Count(v)
  <2>1. stats' = IncrementStats(stats, d.decision)
    BY DEF DecidedBy, Logged
  <2>2. /\ d.decision = "DUPLICATE" <=> v = "DUPLICATE"
        /\ d.decision \in {"ACCEPTED", "PARTIALLY_APPLIED"} <=> v = "APPLIED"
        /\ d.decision \in {"REJECTED", "FAILED"} <=> v \in {"REFUSED", "INVALID", "FAILED"}
    BY <1>4 DEF Applied
  <2> QED
    BY <2>1, <2>2 DEF IncrementStats, Counts, Clients!Count
<1>11. Clients!Decide(i, v)
  BY <1>2, <1>4, <1>6, <1>7, <1>8, <1>9, <1>10 DEF Clients!Decide, Clients!Evaluations
<1> QED
  BY <1>3, <1>4, <1>11 DEF Clients!Next

\* Every step of the engine is a step of Inbox or is not seen.
LEMMA NextSeen ==
  ASSUME DeliveryInv, DeliveryInv', [Next]_vars
  PROVE  [Clients!Next]_<<Deliveries, Counts>>
<1>1. IInv /\ IInv'
  BY DEF DeliveryInv
<1>2. HistoryKept
  BY <1>1, StepKeepsHistory DEF DeliveryInv
<1>3. CASE UNCHANGED database
  BY <1>3, UnseenSteps DEF database
<1>4. CASE RowsAdded
  BY <1>1, <1>4, StoringPosts DEF Clients!Next
<1>5. CASE \E i \in DOMAIN inbox : DelayPassed(i) \/ \E r \in Row : PutOff(i, r)
  <2>1. /\ UNCHANGED <<decisions, stats>> /\ DOMAIN inbox' = DOMAIN inbox
        /\ \A i \in DOMAIN inbox : inbox'[i].raw = inbox[i].raw
    BY <1>5 DEF DelayPassed, PutOff, RowBecomes
  <2> QED
    BY <2>1, UnseenSteps
<1>6. CASE \E i \in DOMAIN inbox : /\ Workable(i)
                                   /\ \E d \in Decision, r \in Row : DecidedBy(i, d, r)
  BY <1>2, <1>6, DecidingDecides
<1> QED
  BY <1>1, <1>3, <1>4, <1>5, <1>6, DatabaseSteps

\* Whatever crashes, fails, is retried or delivered again: what clients see is that
\* requests are stored whole, that each delivery gets one verdict, counted as it
\* falls, and that one delivery of an event id at most meets the order.
THEOREM InboxImplemented == Spec => ImplementsInbox
<1>1. DeliveryInv /\ DeliveryInv' /\ [Next]_vars => [Clients!Next]_<<Deliveries, Counts>>
  BY NextSeen
<1> QED
  BY <1>1, InitOpensInbox, DeliveryInvariant, PTL
     DEF Spec, ImplementsInbox, Clients!Spec
=============================================================================
