-------------------------- MODULE DashboardOnEngine --------------------------
(***************************************************************************)
(* The page of Dashboard in front of the engine itself.  The page's        *)
(* requests are answered while the process serves; a process that dies     *)
(* makes them fail.                                                        *)
(***************************************************************************)
EXTENDS EventEngineProperties

CONSTANT MaxAttempts

VARIABLES step, lastRunStatus, beforeFinalizedCount, queuedCount, attempt, results,
          countedBefore   \* as in Dashboard

Page == INSTANCE Dashboard WITH deliveries <- Deliveries, counts <- Counts

page == <<step, lastRunStatus, beforeFinalizedCount, queuedCount, attempt, results,
          countedBefore>>
liveVars == <<vars, page>>

LiveInit ==
  /\ Init
  /\ step = "idle" /\ lastRunStatus = "Idle"
  /\ beforeFinalizedCount = 0 /\ queuedCount = 0 /\ attempt = 0
  /\ results = {} /\ countedBefore = {}

-----------------------------------------------------------------------------
\* The rows of a request that was just stored.
NewRows == DOMAIN inbox' \ DOMAIN inbox

\* The batch is stored, and the response lists its rows.
PostEvents ==
  /\ step = "posting" /\ EnqueueBatch
  /\ queuedCount' = Cardinality(NewRows) /\ results' = NewRows
  /\ attempt' = 0 /\ step' = "waiting"
  /\ UNCHANGED <<lastRunStatus, beforeFinalizedCount, countedBefore>>

\* It is stored and the response is lost.
PostResponseLost ==
  /\ step = "posting" /\ EnqueueBatch
  /\ results' = {}
  /\ lastRunStatus' = "Failed" /\ step' = "idle"
  /\ UNCHANGED <<beforeFinalizedCount, queuedCount, attempt, countedBefore>>

\* GET /api/stats is answered.
StatsAnswered ==
  /\ phase = "serving" /\ UNCHANGED vars
  /\ Page!LoadStatsBefore \/ Page!WaitForFinalizedCount

\* The page goes on without an answer.
PageAlone ==
  /\ UNCHANGED vars
  /\ Page!SendBatch \/ Page!SendFails \/ Page!PauseEnds \/ Page!InspectFirstQueued

\* The engine works, or stores the request of another client.
EngineStep == Next /\ UNCHANGED page

LiveNext == PostEvents \/ PostResponseLost \/ StatsAnswered \/ PageAlone \/ EngineStep

LiveSpec == LiveInit /\ [][LiveNext]_liveVars

-----------------------------------------------------------------------------
\* To the page the engine is the server it relies on: whatever fails, crashes or is
\* retried behind it, the page and the engine together do what the page does in front
\* of a server that keeps the promises of Inbox.
ImplementsDashboard == Page!DashboardSpec
=============================================================================
