# Formal model of the event processing engine

TLA+ modules, TLC configurations and TLAPS proofs about the engine behind
`POST /api/events`: clients deliver order events at least once and in any
order; the engine stores every delivery, decides each one exactly once, keeps
one row per order, and can explain every change; clients read what became of
them while it works, and the bundled page sends batches and waits for it.

Paths below are relative to the repository root.

## The system

| component | state | operations |
| --- | --- | --- |
| Ingestion (`src/events/events.controller.ts`, `event-enqueuer.service.ts`, `raw-events.factory.ts`) | table `raw_incoming_events` | store the items of one request as PENDING rows |
| Scheduler (`event-processing-scheduler.service.ts`) | the flag `isPolling`; the entities a poll has loaded | a poll on module initialization, a poll per interval: query, filter by availability, process one by one |
| Delivery processing (`event-processing.service.ts`, `event-decision-writer.service.ts`) | `processed_event_keys`, `event_decisions`, `stats`, the inbox row | one transaction per delivery: existing decision? valid? claim the event id; look up the order; dispatch. After a throw: a second transaction that reschedules the row or decides FAILED |
| Validation (`event-validation.service.ts`) | none | a reason code, or a valid event |
| Order rules (`handlers/*`, `order-*-application.service.ts`, `order-field-version.service.ts`, `event-money.service.ts`) | `orders`, `order_field_versions` | a strategy per order status; create, update, capture, cancel, refund, and the rejections |
| Persistence (`src/database`) | one SQLite file | `transaction` |
| Process (`src/main.ts`, `deploy/docker-compose.prod.yml`) | running or not | boot, exit, restart |
| Order details (`orders.service.ts`) | none | row, audit log and pending jobs of an order in concurrent queries; 404 |
| Event inspector (`event-inspector.service.ts`) | none | the deliveries of an id, then their decisions; 404 |
| Statistics, health (`stats.service.ts`, `app.controller.ts`) | none | one query; none |
| Frontend (`frontend/app.js`) | the batch last sent, the status of the last run | read the statistics, post a batch, wait until they have grown, inspect |

How they interact: requests and polls run in one Node.js process and interleave
at every `await`; they share nothing but the database, and polls share
`isPolling`. Ingestion only appends to the inbox. A poll reads the unprocessed
rows once and then runs one transaction (two after a failure) per row. Readers
run one or more queries per request, between which anything may commit. The
page knows the engine only through its requests.

What is hard: two polls may overlap; a poll computes with rows it read earlier;
a transaction may throw after any of its writes, and so may the transaction
that records the failure; the process may die anywhere; deliveries are
repeated, late, tied and malformed; two kinds of retry share one counter; an
answer is put together from queries that saw different states; a request of the
page fails after the server acted; amounts are floating-point numbers.
`PROJECT.json` lists each hazard at its line with the property that catches it.

What makes each part correct:

- inbox and processing: a delivery is decided once, with its row, key and
  statistics changed in step (`DoneIffDecided`, `StatsMatchAudit`,
  `AuditIsFinal`); of one event id one delivery is evaluated
  (`OneDeliveryPerEventId`); retries are bounded and wait (`RetryBudget`,
  `RetryWaits`); everything is decided in the end (`EveryDeliveryDecided`); and
  all a client can see of this follows `Inbox` (`ImplementsInbox`);
- scheduler: exclusion and fresh snapshots (`PollSnapshotsFresh`);
- order rules: status and money agree and follow the ledger
  (`LedgerConsistent`, `MoneyAddsUp`, `ImplementsOrderLedger`), the newest
  event wins per field (`FreshestWins`) and no merge loses a field
  (`UpdatesConverge`), the audit log explains the rows (`AuditReplaysOrders`),
  the order of items in a batch does not matter (`BatchOrderDoesNotMatter`);
- money: refunds of a payment below the limit of exact numbers add up
  (`SafePaymentsExact`);
- order details: nothing falls between the queries of one answer
  (`NothingVanishes`), 404 means that nothing had been decided when the
  request began (`NotFoundWasUndecided`), the log has
  no gaps (`LogHasNoGaps`), undisturbed answers are consistent
  (`QuietReadsAgree`);
- event inspector: a delivery shown as DONE is explained (`DoneIsExplained`);
- page: what Processed and Queued mean (`ProcessedMeansDecided`,
  `QueuedMeansOpen`), also with the engine as its server (`ImplementsDashboard`),
  and that it comes to rest (`SendEnds`).

## The modules

| module | content |
| --- | --- |
| `OrderRules` | the rules as functions: order row, field versions and event in; row, versions and decision out |
| `EventEngine` | the state machine: tables, scheduler, process; EXTENDS `OrderRules` |
| `OrderLedger` | the abstract specification: what may ever happen to an order's status and money |
| `Inbox` | the abstract specification: what a client of `POST /api/events` may rely on, whatever fails behind it |
| `EventEngineProperties` | invariants, action properties, liveness, the refinements of `OrderLedger` and `Inbox` |
| `Readers` | clients of the two detail endpoints composed with the engine; EXTENDS `EventEngineProperties` |
| `Scenarios` | one batch of events of an order, its items in any order, against the engine; EXTENDS `EventEngineProperties` |
| `Dashboard` | the page that sends and waits, composed with a server that behaves as `Inbox`; EXTENDS `Inbox` |
| `DashboardOnEngine` | the page in front of the engine itself; EXTENDS `EventEngineProperties`, with the page of `Dashboard` |
| `MoneyArithmetic` | capture and refunds of one order in rounding, overflowing arithmetic |
| `MCEventEngine`, `MCReaders`, `MCScenarios`, `MCDashboard`, `MCDashboardOnEngine`, `MCMoneyArithmetic` | small instances: the items clients post, and constraints |
| `OrderRulesProofs`, `EventEngineProofs`, `OrderHistoryProofs`, `ScenarioProofs`, `ReadersProofs`, `DashboardProofs`, `DashboardOnEngineProofs`, `MoneyProofs` | theorems and their proofs, see below |

### How state and actions correspond to the code

`inbox`, `keys`, `orders`, `versions`, `decisions` and `stats` are the six
tables. A row of the inbox is the posted item plus status, attempts, the last
error and `due`, which stands for `availableAt <= now`; time itself is left
out: `RetryDelayElapses` may make a waiting row due at any moment. `phase` is
the process: in `starting` the poll of `onModuleInit` has not ended, and since
`main.ts` listens only afterwards nothing can be posted. `pc` and `batch` are
the position and the remaining rows of each invocation of
`pollPendingOrRetryEvents`; `Polls` is how many may be under way at once.

| action | code |
| --- | --- |
| `EnqueueBatch` | `enqueueBatch`: all rows of a request in one save |
| `StartPoll` | check and set of `isPolling` (no `await` between them), then the result of the query |
| `FilterAvailableEvents` | the filter, after its `await` |
| `ProcessEvent` | `processEvent`, its transaction committing; the early returns and handlers are `RejectInvalid`, `DecideDuplicate`, `DecideEvent`, `RetryNotReady`, `RejectNotReady` |
| `TransactionThrows` | anything in the transaction throws; it is rolled back |
| `HandleUnexpectedFailure` | the second transaction, on the row as stored |
| `EndPoll`, `PollFails` | normal end; rejection of a query or of the failure handler, through `finally`. During initialization the rejection ends the process |
| `Crash`, `Boot` | the process ends at any point; it is started again |

In `Readers` a request is a record of what its queries have returned so far. The
inbox and the log only grow, so a result is kept as ids; what a commit may change
under a reader (the order row, a delivery's status) is kept by value.

| action | code |
| --- | --- |
| `AskOrder` | `getOrderDetails` starts its three chains of queries (`Promise.all`) |
| `FindCurrentState`, `FindRawEvents` then `FindDecisions`, `ReadPendingJobs` | the four queries; the chains run in any order |
| `GetOrderDetails` | the response or 404; `OrderNotFound`, `ReadHistory` and `RejectedEvents` are what it computes from the results |
| `AskEvent`, `FindDeliveries`, `FindDeliveryDecisions`, `GetEventDetails` | `getEventDetails` |
| `EngineStep` | any step of `EventEngine`; requests under way end with the process |

In `Dashboard`, `step` is the `await` that `sendBatch` is at.

| action | code |
| --- | --- |
| `SendBatch`, `LoadStatsBefore` | the button, which stays disabled; the first read of the statistics |
| `PostEvents`, `PostResponseLost`, `SendFails` | the POST: stored and answered, stored and the answer lost, or refused; any read may fail too |
| `WaitForFinalizedCount`, `PauseEnds` | each read of the statistics in the loop and the decision that follows; the timer |
| `InspectFirstQueued` | both inspections, whose failures the page only displays |
| `ServerStep` | the server decides a delivery, or stores another client's request |

In `Scenarios`, `SendScenario` posts one of `Batches`, items in any order, to an
engine with an empty inbox. The page's batches are `scenarioFactories`; the
constant may be any set of batches that are `Orderly`: about one order, events
told apart by id and by time unless they repeat each other, a creation before
everything else. `InTime(n, events)` is what the first `n` of some events, in
time, make of an order. In `MoneyArithmetic`,
`CapturePayment` and `IssueRefund` are the accepted paths of the two services
for a whole number of currency units.

How the parts compose: `Readers` and `Scenarios` run with the engine itself.
`Dashboard` needs of the server only what `Inbox` states; that the engine keeps
it is checked by the run `faults` and proved (`InboxImplemented`).
`DashboardOnEngine` puts the two together: the page's requests are steps of the
engine, answered while it serves (`PostEvents`, `PostResponseLost`,
`StatsAnswered`), everything else the page does alone (`PageAlone`), and the
result implements `Dashboard` (`ImplementsDashboard`). So what is shown of the page
in front of `Inbox` holds in front of the engine.

Rows of one poll are processed in the order of the query: timestamp, rows
without one last, then id (`Precedes`).

### Abstractions

- A transaction is one atomic, durable step. `DatabaseService.transaction`
  delegates to TypeORM; `src/database/__tests__/database.service.spec.ts:107`
  tests the rollback. The driver is modelled from this use, not from its code.
- `FilterAvailableEvents` looks at `due` of the row as it is then stored while
  the code looks at the `availableAt` it loaded. They agree because nobody
  writes a row between a poll's query and its filter, which
  `PollSnapshotsFresh` states and `PollsExclusive` proves; a delay that passes
  in between is seen by both, as the code compares with the clock at the filter.
- The branch of `processEvent` that finds an existing decision is kept. In the
  model it is never taken: `PollSnapshotsFresh` and `DoneIffDecided` together
  imply it (lemma `EntryOfBatch`). It is what stands between the system and
  double processing once the guard is gone, see the mutant of `AuditIsFinal`.
- An absent order is the row `NoOrder` with status `DOES_NOT_EXIST`, the value
  the code dispatches on; `StatusOrNull` turns it back into null for decisions.
- Amounts are integers in thousandths of a currency unit, so that rounding to
  minor units matters (a tie goes up, as with `Math.round`). What rounding and
  overflow do to large amounts is `MoneyArithmetic`'s subject; the binary
  fraction of an amount such as 1.005 and -0 are left out.
- `MoneyArithmetic` takes the widths of the number type as constants: 53
  significant bits, 2^1024 and 100 minor units in the code; 3 bits, 64 and 2 in
  the runs. Amounts are whole, rounding is to the nearest number, ties to even.
- The page's timers have no length. It counts its attempts (20 in the code, 2 in
  the run); `countedBefore` and, in `Readers`, `since` are not in the code: they
  remember what had happened when the page or a request began.
- Strings, JSON text, messages, timestamps of the system and processing times
  are left out; a missing or ill-typed field of an item is `NULL`.
  `lastErrorMessage` keeps which of the two kinds of failure wrote it.
- The interval's timers start after initialization; in the model any of `Polls`
  may be the poll of `onModuleInit`, and one runs at a time.

Operators marked *Mutant* are not part of the model. Each is a definition with
a plausible bug (a dropped guard, an off-by-one, a missing release); with it in
place of the original TLC finds the property named in `PROJECT.json` violated.

## What TLC checks

Bounds: `MaxDeliveries` rows in the inbox, `MaxBatch` items per request, `Polls`
invocations of the poll, one client that reads, `MaxAttempts` of the page,
`MaxRefunds`. States are the distinct states of the whole run.

| run | instance | properties | states |
| --- | --- | --- | --- |
| `orders` | any 4 of 6 lifecycle events of one order (a creation, two captures, two refunds, a cancellation), or any 4 of a creation and 4 updates with late and tied timestamps; each at most once, no failures | `LedgerConsistent`, `MoneyAddsUp`, `FreshestWins`, `UpdatesConverge`, `AuditReplaysOrders`, `ImplementsOrderLedger` | 1.4 million |
| `faults` | 3 deliveries, 2 polls; crashes, failing transactions, failure handlers and queries at any point, any number of them | `TypeOK`, `DoneIffDecided`, `OneDeliveryPerEventId`, `StatsMatchAudit`, `RetryBudget`, `PollSnapshotsFresh`, `RetryWaits`, `AuditIsFinal`, `ImplementsInbox` | 1.1 million |
| `progress` | 2 deliveries, all failures, fairness | `EveryDeliveryDecided` | 14 000 |
| `scenarios` | the page's 8 batches of 2 to 7 items, every order of the items, crashes at any point | `BatchOrderDoesNotMatter` | 440 000 |
| `readers` | 3 deliveries of a creation, a partial update and a late payment; one reader with one request at a time | `NothingVanishes`, `NotFoundWasUndecided`, `LogHasNoGaps`, `QuietReadsAgree`, `DoneIsExplained` | 2.5 million |
| `dashboard` | 3 deliveries in requests of 1 or 2, of the page and of others, failing requests, 2 attempts | `DashboardTypeOK`, `ProcessedMeansDecided`, `QueuedMeansOpen`, `SendEnds` | 190 000 |
| `page_on_engine` | the page and other clients in front of the engine; 2 deliveries with repeated ids of different contents, 2 orders, a malformed item, in requests of 1 or 2; crashes and failing transactions at any point, 1 attempt | `ImplementsDashboard` | 1 million |
| `money` | every payment and every sequence of up to 4 refunds over all finite amounts of the small type | `SafePaymentsExact` | 1000 |
| `failed_budget` | as `faults`, 2 deliveries | `FailedAfterTechnicalRetries` is violated | |
| `duplicate_order` | as `faults`, 2 deliveries | `DuplicateNamesEarlierDelivery` is violated | |
| `failed_first` | as `faults`, 2 deliveries | `LaterDeliveriesAreDuplicates` is violated | |
| `partial_merge` | as `scenarios` | `PartialMergeIsShown` is violated | |

Why these bounds are enough to be interesting: four deliveries of one order
reach creation, payment, a partial and the completing refund, and, after the
smaller capture, a refund refused only because of an earlier one; an event that
comes before its creation is retried until its budget is used up or the order
appears; two deliveries of one id and one more reach every combination of
holder and duplicate; two polls reach every overlap of two. A reader's request
spans up to four queries; three deliveries let the row appear, change and be
repeated between any two of them. Requests of readers do not affect each other,
so one reader is enough. The page meets a batch of its own that it forgot, one
of another client, and its own current one; in front of the engine two
deliveries leave it any two of the three, and the proof has all of them. The
runs about contents and readers (`orders`, `readers`) exclude crashes and
failing transactions by the constraint `Quiet`: a failed transaction leaves no
trace but an attempt, which `faults` explores with few contents and the proofs
with all of them. No symmetry is used: the scenarios name their ids.
`money` ends when its refunds are used up, so it does not check for deadlock.

How tight the readers' and the page's properties are: each premise is needed.
Without "or it was decided while the request ran" `NothingVanishes` fails (the
log is read, the delivery is decided, the pending jobs are read); without its
premise `LogHasNoGaps` fails (the rows are listed, a delivery with a smaller
timestamp is stored and decided before one that was listed); without its
premise `ProcessedMeansDecided` fails, as the page counts anybody's deliveries.
`BatchOrderDoesNotMatter` needs that no transaction throws: a delivery put off
by a failure meets its order after newer ones.

### Fairness

`Fairness` states what deployment and scheduling give, and one assumption:

- the container restarts after every exit (`restart: unless-stopped` in
  `deploy/docker-compose.prod.yml`): weak fairness of `Boot`;
- delays pass: weak fairness of `RetryDelayElapses`;
- the interval keeps firing, and a poll that can go on goes on: `StartPoll`,
  `FilterAvailableEvents`, `ProcessEvent` or `TransactionThrows`,
  `HandleUnexpectedFailure`, `EndPoll`;
- failures are transient: strong fairness of the steps that a crash or a
  failing query may disable, so they cannot be preempted for ever. It is not
  assumed that processing succeeds: a transaction may throw every time, and the
  delivery then ends as FAILED.

Without the last assumption a database that fails for ever decides nothing,
in the model as in the code.

`DashboardFairSpec` assumes of the browser that a fetch ends some time, with a
response or an error, and that a timer fires: weak fairness of `SendStep`. The
server may stand still for ever.

### Where the documentation says otherwise

- `docs/api-contract.md:81` calls a delivery FAILED when "unexpected processing
  errors exhausted the technical retry limit". Attempts that waited for an order
  use the same counter, so one unexpected error after two of them is enough.
- `README.md:156` calls a delivery DUPLICATE when its event id "was already
  claimed by an earlier delivery". Polls process by event timestamp: of two
  unprocessed deliveries of one id the one with the smaller timestamp claims it,
  and the earlier stored one may become the duplicate of the later.
- `docs/multi-threading.md:37` says that the first structurally valid event claims
  its key before business rules run and that later deliveries end as DUPLICATE.
  An unexpected error rolls the claim back: after a FAILED delivery a later one
  of its id may be ACCEPTED. Only a claim kept from an attempt that waited for
  the order survives the failure.
- `frontend/index.html:216` describes the partial merge scenario as "Older amount
  skipped, newer currency applied". A batch is stored at once and processed by
  timestamp, so its events are applied in time and nothing is skipped.

`docs/state-machine.md:63` says that refunds cannot exceed the remaining payment.
That holds below the limit of exact numbers (`SafePaymentsExact`; 2^53 minor units
in the code). Beyond it sums and differences are rounded, no check keeps amounts
below, and without its premise the property is violated: in the small type a
refund of 2 and one of 24 are accepted for a payment of 24.

## What is proved

For every set of items, ids, currencies, polls and clients and for all bounds,
TLAPS checks:

| module | theorem | statement |
| --- | --- | --- |
| `OrderRulesProofs` | `HandleEventStep` | any event handled on a consistent order yields a well-formed outcome that moves the order along the ledger or leaves status and money alone |
| | `HandleEventRecords` | it refuses the event and leaves row and versions alone, or is exactly the change the decision records |
| | `HandleEventMerges` | amount and currency change exactly when an event that names them is newer than the one that set them |
| | `HandleEventMoney` | money moves by what a capture or refund that takes effect says, and by nothing else |
| `EventEngineProofs` | `NextKeepsInv` | the invariant `IInv` is inductive |
| | `TypeCorrect`, `LedgerCorrect`, `PollsExclusive`, `DecidedOnce` | `Spec => []TypeOK`, `LedgerConsistent`, `PollSnapshotsFresh`, `DoneIffDecided` |
| | `ImplementsLedger` | `Spec => ImplementsOrderLedger` |
| | `DeliveryStep` | the invariant `DeliveryInv` is inductive |
| | `BudgetShared`, `KeyedOnce`, `StatsCorrect` | `Spec => []RetryBudget`, `OneDeliveryPerEventId`, `StatsMatchAudit` |
| | `DelayRespected`, `HistoryFinal` | the action properties `RetryWaits`, `AuditIsFinal` |
| | `InboxImplemented` | `Spec => ImplementsInbox` |
| `OrderHistoryProofs` | `MergeStep` | the invariant `MergeInv` is inductive |
| | `NewestEventWins`, `UpdatesMerge` | `Spec => []FreshestWins`, `UpdatesConverge` |
| | `AuditStep`, `MoneyStep` | the invariants `AuditInv` and `MoneyInv` are inductive |
| | `AuditExplains`, `MoneySums` | `Spec => []AuditReplaysOrders`, `MoneyAddsUp` |
| `ScenarioProofs` | `BatchStep` | the invariant `BatchInv` is inductive |
| | `BatchOrderIrrelevant` | `ScenarioSpec => []BatchOrderDoesNotMatter`, for every set of orderly batches |
| `ReadersProofs` | `ReadersStep` | the invariant `ReadersInv` is inductive |
| | `ReadersTyped`, `NoDeliveryLost`, `NotFoundIsHonest`, `LogIsPrefix`, `DoneExplained` | `ReadersSpec => []ReadersTypeOK`, `NothingVanishes`, `NotFoundWasUndecided`, `LogHasNoGaps`, `DoneIsExplained` |
| | `QuietAnswersAgree` | `ReadersSpec => []QuietReadsAgree` |
| `DashboardProofs` | `DashboardStep` | the invariant `DashInv` is inductive |
| | `DashboardTyped`, `ProcessedHonest`, `QueuedHonest` | `DashboardSpec => []DashboardTypeOK`, `ProcessedMeansDecided`, `QueuedMeansOpen` |
| `DashboardOnEngineProofs` | `EngineServesPage` | `LiveSpec => ImplementsDashboard` |
| `MoneyProofs` | `RoundingStep` | the invariant `RoundingInv` is inductive |
| | `MoneyTyped`, `SafeMoneyExact` | `Spec => []MoneyTypeOK`, `SafePaymentsExact`, for every precision, limit and scale |

Assumptions: `NullAssumption` (NULL differs from every value it stands in for),
`VerdictAssumption` and `DashboardAssumption` (it is no verdict either; the
page's bounds are natural numbers), `EngineAssumption` (the items are of the
declared shape, the bounds are natural numbers), `MoneyAssumption` (the widths
of the number type are positive: 53, 2^1024 and 100 in the code),
`BatchesAssumption` (the batches are orderly and fit into a request). TLC
evaluates them in the runs; the run `scenarios` so checks that the eight batches
of the page are orderly.

The arguments, with the invariant each one needs:

- `IInv` is `TypeOK`, `LedgerConsistent`, `PollSnapshotsFresh`,
  `DoneIffDecided` and `IdleHoldsNothing`. None of the middle three is
  inductive alone: that a delivery is decided once needs to know that the row a
  poll processes is still undecided, which is part of the freshness of its
  snapshot; freshness of the other entries after one is processed needs that no
  second poll holds a copy, hence exclusion, and that idle polls hold nothing;
  and the rules keep a row consistent only if it was. `OrderRulesProofs`
  classifies every outcome of every handler (`LedgerStep`). `EventEngineProofs`
  shows that each transaction settles or reschedules exactly one row and moves
  at most one order along the ledger (`ProcessingEffect`, `FailureEffect`). A
  ledger step of a consistent order is a step of `OrderLedger` or a stutter
  (`LedgerStepImplements`), which with the invariant gives the refinement.
- `DeliveryInv` adds the attempts, the keys and the statistics. That one
  delivery per event id is evaluated needs that a claimed key belongs to a
  delivery of that id (`KeysHeld`) and that whatever was judged has an id
  (`JudgedHaveIds`); the budget of attempts needs that only rows that wait for
  a retry are not due. `DatabaseSteps` says once what a step does to the
  database: nothing, rows added, a delay passed, a row put off (`PutOff`), or a
  row decided (`DecidedBy`). All later proofs go through these five cases. In
  the refinement of `Inbox` the verdict of a delivery is that of the only
  decision about it.
- `MergeInv` ties each field to the log: its version is that of the newest
  event among those that set it (`FieldsSet`), or, for amount and currency,
  among those that spoke of it (`FieldsSaid`). The contents alone would not be
  inductive: the version says which of two events the next one has to beat.
  The first half of the module proves about a log on its own that one more
  entry keeps this true, ties included.
- `AuditInv` adds that a decision without effect changes nothing
  (`EffectsShown`), `MoneyInv` that what the log counts are amounts. Both
  properties use recursive functions over the log; that such a function exists
  and follows its steps (`StepsFollowed`, `SameSteps`) is proved by induction on
  sets of numbers, from the least element of such a set.
- `BatchInv` has two cases. If the batch tells of the creation of its order,
  nothing ever waits: whatever poll is under way holds every open row, also
  after a restart, and takes the oldest first, so at any moment the evaluated
  events (`SeenEvents`) are the first `n` in time, the row is that of
  `InTime(n, Posted)`, and every other decided delivery repeats one of them. If
  it does not, every event meets `NoOrder` and is put off until its budget is
  used up. That the next row of a poll is the next event in time is
  `NextInTime`; that the log has one evaluation per event, and so as many
  DUPLICATEs as there are repetitions, is counted by bijections at the end.
- `ReadersInv` says of each result a request has kept how it relates to the
  tables as they are now: the rows include all that were stored when it began,
  the log is that of the rows up to a moment since then, a delivery stored
  before is still pending or decided. Tables only grow (`AuditIsFinal`), so no
  commit makes this untrue. `QuietInv` adds that the result of a request under
  which nothing was stored or decided is still so, and `AuditInv`, as its log
  is to replay to the row it read.
- `DashInv`: the three counters the page adds up are the number of decided
  deliveries; those that were decided at its first read are no part of its
  batch. The rest is counting of finite sets.
- `EngineServesPage` needs no invariant but `DeliveryInv`: a request of the page
  adds rows that `Inbox` would add, and the response lists them
  (`RequestStored`); every other step of the engine is one of the server's or is
  not seen (`NextSeen`). The prover cannot use theorems of an instantiated
  module, so that `ProcessedHonest` and `QueuedHonest` hold through the mapping is
  left to the reader: they are about every behaviour of `DashboardSpec`.
- `RoundingInv`: refunds of a safe payment are exact. The provers know nothing
  of powers of 2 but single values; what `Spacing` needs of them follows from
  counting subsets (`PowerCounts`): they grow and exceed their exponents.

Only model-checked: `EveryDeliveryDecided` and `SendEnds`, as the prover has
neither liveness under fairness nor ENABLED. Each part of `Orderly` is needed for
`BatchOrderDoesNotMatter`: a batch with events that tie may end differently as its
items are stored in one order or the other, and one with an event older than its
creation puts that event off until after newer ones.

## Not modelled

- Which statements of other requests the database driver lets into a
  transaction. Transactions are atomic here. Whether a request's statement can
  fall between two statements of a worker's transaction on the one connection,
  and what a rollback then undoes, is decided inside TypeORM and its driver,
  which are not part of the repository.
- The binary fraction of an amount, and -0.
- The inspectors' panels of the page (two overlapping inspections are answered in
  any order, and nothing says which one the panel is to show), and rendering.
- The mean processing time, the health endpoint, deployment beyond the restart
  policy, repositories without a caller, the legacy migration.

## Plan

Done: all modules and runs above, and the theorems listed. What remains out of
reach is named under "What is proved" (liveness) and "Not modelled"; the
inspectors' panels of the page are the next candidate for a model once the page
says which of two overlapping inspections it means to show.
