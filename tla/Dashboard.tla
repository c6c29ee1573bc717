------------------------------ MODULE Dashboard ------------------------------
(***************************************************************************)
(* The page of the frontend that sends a batch and waits for the worker,   *)
(* in front of a server that keeps the promises of Inbox and is used by    *)
(* other clients too.  The page never asks about its own deliveries while  *)
(* it waits: it reads the statistics before it posts and again until they  *)
(* have grown by the size of the batch, and gives up after some attempts.  *)
(*                                                                         *)
(* Any request of the page may fail, before or after the server acted.     *)
(*                                                                         *)
(* An operator marked "Mutant" is not part of the model: see OrderRules.   *)
(***************************************************************************)
EXTENDS Inbox, FiniteSets

CONSTANT MaxAttempts   \* times the page waits before it reads the statistics again

ASSUME DashboardAssumption ==
  /\ MaxBatch \in Nat /\ MaxAttempts \in Nat
  /\ NULL \notin Verdicts

VARIABLES
  step,           \* the await sendBatch is at: idle, counting (the first read of
                  \* the statistics), posting, waiting for them again,
                  \* pausing before that, inspecting
  lastRunStatus,
  beforeFinalizedCount,
  queuedCount,
  attempt,
  results,        \* the deliveries of the last batch, as the response lists them
  countedBefore   \* not in the code: what was decided at the first read

server == <<deliveries, counts>>
page == <<step, lastRunStatus, beforeFinalizedCount, queuedCount, attempt, results,
          countedBefore>>
dashboardVars == <<server, page>>

DecidedNow == {i \in DOMAIN deliveries : deliveries[i].verdict # NULL}

DashboardTypeOK ==
  /\ step \in {"idle", "counting", "posting", "waiting", "pausing", "inspecting"}
  /\ lastRunStatus \in {"Idle", "Sending", "Queued", "Processed", "Failed"}
  /\ {beforeFinalizedCount, queuedCount} \subseteq Nat
  /\ attempt \in 0..MaxAttempts
  /\ results \cup countedBefore \subseteq DOMAIN deliveries

DashboardInit ==
  /\ Init
  /\ step = "idle" /\ lastRunStatus = "Idle"
  /\ beforeFinalizedCount = 0 /\ queuedCount = 0 /\ attempt = 0
  /\ results = {} /\ countedBefore = {}

-----------------------------------------------------------------------------
\* Mutant: duplicates are not among the finalized events.
FinalizedWithoutDuplicates(stats) == stats.valid + stats.rejected

finalizedEventsCount(stats) == stats.valid + stats.rejected + stats.duplicate

\* The send button is disabled while a batch is being sent.
SendBatch ==
  /\ step = "idle"
  /\ step' = "counting" /\ lastRunStatus' = "Sending"
  /\ UNCHANGED <<server, beforeFinalizedCount, queuedCount, attempt, results, countedBefore>>

LoadStatsBefore ==
  /\ step = "counting"
  /\ beforeFinalizedCount' = finalizedEventsCount(counts)
  /\ countedBefore' = DecidedNow
  /\ step' = "posting"
  /\ UNCHANGED <<server, lastRunStatus, queuedCount, attempt, results>>

\* What the page keeps of the response to a request of n items.
normalizeQueuedBatch(n) ==
  [queuedCount |-> n, results |-> Len(deliveries) + 1..Len(deliveries) + n]

\* The request is stored and its response arrives.
PostEvents ==
  /\ step = "posting"
  /\ \E n \in 1..MaxBatch : \E ids \in [1..n -> EventIds \cup {NULL}] :
       /\ Post(ids)
       /\ queuedCount' = normalizeQueuedBatch(n).queuedCount
       /\ results' = normalizeQueuedBatch(n).results
  /\ attempt' = 0
  /\ step' = "waiting"
  /\ UNCHANGED <<lastRunStatus, beforeFinalizedCount, countedBefore>>

\* It is stored and the response is lost.
PostResponseLost ==
  /\ step = "posting"
  /\ \E n \in 1..MaxBatch : \E ids \in [1..n -> EventIds \cup {NULL}] : Post(ids)
  /\ results' = {}
  /\ lastRunStatus' = "Failed" /\ step' = "idle"
  /\ UNCHANGED <<beforeFinalizedCount, queuedCount, attempt, countedBefore>>

\* A request fails, the payload is no JSON or the server refuses it.
SendFails ==
  /\ step \in {"counting", "posting", "waiting"}
  /\ results' = {}
  /\ lastRunStatus' = "Failed" /\ step' = "idle"
  /\ UNCHANGED <<server, beforeFinalizedCount, queuedCount, attempt, countedBefore>>

\* Mutant: the batch counts as processed once that many events ever were.
RunStatusOfTotal(finalized) ==
  IF finalized >= queuedCount THEN "Processed" ELSE "Queued"

RunStatus(finalized) ==
  IF finalized - beforeFinalizedCount >= queuedCount THEN "Processed" ELSE "Queued"

\* Mutant: one attempt too many.
LastAttemptLate == attempt > MaxAttempts

LastAttempt == attempt = MaxAttempts

\* The statistics arrive: they have grown enough, or this was the last attempt, or
\* the page pauses and tries once more.
WaitForFinalizedCount ==
  LET status == RunStatus(finalizedEventsCount(counts))
  IN  /\ step = "waiting"
      /\ IF status = "Processed" \/ LastAttempt
         THEN /\ lastRunStatus' = status /\ step' = "inspecting"
              /\ UNCHANGED attempt
         ELSE /\ step' = "pausing" /\ attempt' = attempt + 1
              /\ UNCHANGED lastRunStatus
      /\ UNCHANGED <<server, beforeFinalizedCount, queuedCount, results, countedBefore>>

\* Mutant: every pause starts the attempts afresh.
PauseEndsAfresh ==
  /\ step = "pausing"
  /\ step' = "waiting" /\ attempt' = 0
  /\ UNCHANGED <<server, lastRunStatus, beforeFinalizedCount, queuedCount, results,
                 countedBefore>>

PauseEnds ==
  /\ step = "pausing"
  /\ step' = "waiting"
  /\ UNCHANGED <<server, lastRunStatus, beforeFinalizedCount, queuedCount, attempt,
                 results, countedBefore>>

\* Both inspectors are done; they report their failures themselves.
InspectFirstQueued ==
  /\ step = "inspecting"
  /\ step' = "idle"
  /\ UNCHANGED <<server, lastRunStatus, beforeFinalizedCount, queuedCount, attempt,
                 results, countedBefore>>

\* The server decides a delivery, or stores another client's request.
ServerStep == Next /\ UNCHANGED page

SendStep ==
  \/ LoadStatsBefore
  \/ PostEvents
  \/ PostResponseLost
  \/ SendFails
  \/ WaitForFinalizedCount
  \/ PauseEnds
  \/ InspectFirstQueued

DashboardNext == SendBatch \/ SendStep \/ ServerStep

DashboardSpec == DashboardInit /\ [][DashboardNext]_dashboardVars

\* A fetch ends some time, with a response or an error, and a timer fires.  The
\* server may decide nothing for ever.
DashboardFairSpec == DashboardSpec /\ WF_dashboardVars(SendStep)

-----------------------------------------------------------------------------
\* If nothing but the batch itself was decided since the first read of the
\* statistics, the page says Processed only when all of the batch has been decided.
\* (With other clients, or with deliveries left over from earlier batches, it counts
\* theirs as its own.)
ProcessedMeansDecided ==
  [][/\ lastRunStatus = "Sending" /\ lastRunStatus' = "Processed"
     /\ DecidedNow \ countedBefore \subseteq results
     => results \subseteq DecidedNow]_dashboardVars

\* Whoever else posts, the page says Queued only while a delivery of the batch is
\* still open: every way a delivery can end moves one of the three counters that
\* finalizedEventsCount adds up.
QueuedMeansOpen ==
  [][lastRunStatus = "Sending" /\ lastRunStatus' = "Queued"
     => ~(results \subseteq DecidedNow)]_dashboardVars

\* The page never keeps the send button disabled for ever, even if the worker
\* stands still.
SendEnds == step # "idle" ~> step = "idle"
=============================================================================
