--------------------------- MODULE DashboardProofs ---------------------------
(***************************************************************************)
(* What the page says of a batch it sent is true, however many other       *)
(* clients there are, for every size of a batch and every number of        *)
(* attempts.  The statistics of the server count the decided deliveries,   *)
(* and the batch the page waits for has nothing in common with the         *)
(* deliveries that were decided when it read the statistics first.         *)
(***************************************************************************)
EXTENDS Dashboard, FiniteSetTheorems, SequenceTheorems, TLAPS

Delivery == [eventId : EventIds \cup {NULL}, verdict : Verdicts \cup {NULL}]

\* The server: its statistics are about the decided deliveries, each counted once.
ServerInv ==
  /\ deliveries \in Seq(Delivery)
  /\ counts \in [valid : Nat, rejected : Nat, duplicate : Nat]
  /\ finalizedEventsCount(counts) = Cardinality(DecidedNow)

\* The page: what it read before it posted, and the batch it waits for.
PageInv ==
  /\ countedBefore \subseteq DecidedNow
  /\ beforeFinalizedCount = Cardinality(countedBefore)
  /\ step \in {"waiting", "pausing"} =>
       queuedCount = Cardinality(results) /\ results \cap countedBefore = {}

DashInv == DashboardTypeOK /\ ServerInv /\ PageInv

-----------------------------------------------------------------------------
\* The decided deliveries can be counted.
LEMMA DecidedFinite ==
  ASSUME ServerInv
  PROVE  /\ Len(deliveries) \in Nat
         /\ DOMAIN deliveries = 1..Len(deliveries)
         /\ IsFiniteSet(DecidedNow)
         /\ Cardinality(DecidedNow) \in Nat
<1>1. Len(deliveries) \in Nat /\ DOMAIN deliveries = 1..Len(deliveries)
  BY LenProperties DEF ServerInv
<1>2. IsFiniteSet(1..Len(deliveries))
  BY <1>1, FS_Interval
<1>3. DecidedNow \in SUBSET (1..Len(deliveries))
  BY <1>1 DEF DecidedNow
<1>4. IsFiniteSet(DecidedNow)
  BY <1>2, <1>3, FS_Subset
<1> QED
  BY <1>1, <1>4, FS_CardinalityType

\* A request adds deliveries that are still open.
LEMMA PostAdds ==
  ASSUME ServerInv, NEW n \in 1..MaxBatch, NEW ids \in [1..n -> EventIds \cup {NULL}],
         Post(ids)
  PROVE  /\ ServerInv' /\ DecidedNow' = DecidedNow
         /\ Len(deliveries) \in Nat /\ n \in Nat
         /\ DOMAIN deliveries' = 1..(Len(deliveries) + n)
<1> DEFINE new == [k \in 1..n |-> [eventId |-> ids[k], verdict |-> NULL]]
<1>1. n \in Nat
  BY DashboardAssumption
<1>2. ids \in Seq(EventIds \cup {NULL}) /\ Len(ids) = n
  BY <1>1, IsASeq
<1>3. \A k \in 1..n : [eventId |-> ids[k], verdict |-> NULL] \in Delivery
  BY DEF Delivery
<1>4. new \in Seq(Delivery) /\ Len(new) = n /\ \A k \in 1..n : new[k].verdict = NULL
  BY <1>1, <1>3, IsASeq
<1>5. deliveries' = deliveries \o new
  BY <1>2 DEF Post
<1>6. /\ deliveries \in Seq(Delivery) /\ Len(deliveries) \in Nat
      /\ DOMAIN deliveries = 1..Len(deliveries)
  BY DecidedFinite DEF ServerInv
<1> HIDE DEF new
<1>7. /\ deliveries' \in Seq(Delivery)
      /\ Len(deliveries') = Len(deliveries) + n
      /\ \A i \in 1..(Len(deliveries) + n) :
           deliveries'[i] = IF i <= Len(deliveries) THEN deliveries[i]
                            ELSE new[i - Len(deliveries)]
  BY <1>4, <1>5, <1>6, ConcatProperties
<1>8. DOMAIN deliveries' = 1..(Len(deliveries) + n)
  BY <1>7, LenProperties
<1>9. DecidedNow' = DecidedNow
  <2>1. ASSUME NEW i \in 1..(Len(deliveries) + n), i > Len(deliveries)
        PROVE  deliveries'[i].verdict = NULL
    <3>1. i - Len(deliveries) \in 1..n
      BY <1>1, <1>6, <2>1
    <3>2. deliveries'[i] = new[i - Len(deliveries)]
      BY <1>6, <1>7, <2>1
    <3> QED
      BY <1>4, <3>1, <3>2
  <2>2. ASSUME NEW i \in 1..Len(deliveries)
        PROVE  i \in 1..(Len(deliveries) + n) /\ deliveries'[i] = deliveries[i]
    BY <1>1, <1>6, <1>7
  <2>3. \A i \in 1..(Len(deliveries) + n) : i > Len(deliveries) \/ i \in 1..Len(deliveries)
    BY <1>1, <1>6
  <2> QED
    BY <1>6, <1>8, <2>1, <2>2, <2>3 DEF DecidedNow
<1>10. counts' = counts
  BY DEF Post
<1>11. ServerInv'
  BY <1>7, <1>9, <1>10 DEF ServerInv, finalizedEventsCount
<1> QED
  BY <1>1, <1>6, <1>8, <1>9, <1>11

\* Every verdict moves one of the counters.
LEMMA DecideCounts ==
  ASSUME ServerInv, NEW i \in DOMAIN deliveries, NEW verdict \in Verdicts,
         Decide(i, verdict)
  PROVE  /\ ServerInv' /\ DecidedNow' = DecidedNow \cup {i}
         /\ DOMAIN deliveries' = DOMAIN deliveries
<1>1. /\ deliveries \in Seq(Delivery) /\ Len(deliveries) \in Nat
      /\ DOMAIN deliveries = 1..Len(deliveries)
      /\ IsFiniteSet(DecidedNow) /\ Cardinality(DecidedNow) \in Nat
  BY DecidedFinite DEF ServerInv
<1>2. deliveries' = [deliveries EXCEPT ![i].verdict = verdict] /\ counts' = Count(verdict)
  BY DEF Decide
<1>3. /\ DOMAIN deliveries' = DOMAIN deliveries
      /\ \A j \in DOMAIN deliveries :
           deliveries'[j] = IF j = i THEN [deliveries[i] EXCEPT !.verdict = verdict]
                            ELSE deliveries[j]
  BY <1>2
<1>4. \A j \in DOMAIN deliveries : deliveries[j] \in Delivery
  BY <1>1, ElementOfSeq
<1>5. [deliveries[i] EXCEPT !.verdict = verdict] \in Delivery
  BY <1>4 DEF Delivery
<1>6. deliveries' \in Seq(Delivery)
  <2>1. \A j \in 1..Len(deliveries) : deliveries'[j] \in Delivery
    BY <1>1, <1>3, <1>4, <1>5
  <2>2. deliveries' = [j \in 1..Len(deliveries) |-> deliveries'[j]]
    BY <1>1, <1>2
  <2>3. PICK d : d = deliveries'
    OBVIOUS
  <2>4. [j \in 1..Len(deliveries) |-> d[j]] \in Seq(Delivery)
    BY <1>1, <2>1, <2>3, IsASeq
  <2> QED
    BY <2>2, <2>3, <2>4
<1>7. deliveries'[i].verdict = verdict /\ verdict # NULL
  BY <1>3, <1>4, DashboardAssumption DEF Delivery
<1>8. DecidedNow' = DecidedNow \cup {i}
  BY <1>3, <1>7 DEF DecidedNow
<1>9. i \notin DecidedNow
  BY DEF Decide, DecidedNow
<1>10. Cardinality(DecidedNow') = Cardinality(DecidedNow) + 1
  BY <1>1, <1>8, <1>9, FS_AddElement
<1>11. /\ counts' \in [valid : Nat, rejected : Nat, duplicate : Nat]
       /\ finalizedEventsCount(counts') = finalizedEventsCount(counts) + 1
  BY <1>2 DEF ServerInv, Count, finalizedEventsCount, Verdicts, Evaluations
<1>12. finalizedEventsCount(counts)' = finalizedEventsCount(counts')
  BY DEF finalizedEventsCount
<1>13. ServerInv'
  BY <1>6, <1>10, <1>11, <1>12 DEF ServerInv
<1> QED
  BY <1>3, <1>8, <1>13

\* A page waiting for its batch may conclude from the statistics alone, as long as
\* nothing else was decided since it read them first, that the batch is decided; and
\* whoever else was decided, that a batch is not decided while they have grown less.
LEMMA GrowthTells ==
  ASSUME DashInv, step = "waiting"
  PROVE  LET growth == finalizedEventsCount(counts) - beforeFinalizedCount
         IN  /\ growth \in Int /\ queuedCount \in Nat
             /\ growth >= queuedCount /\ DecidedNow \ countedBefore \subseteq results
                  => results \subseteq DecidedNow
             /\ growth < queuedCount => ~(results \subseteq DecidedNow)
<1>1. /\ DOMAIN deliveries = 1..Len(deliveries) /\ Len(deliveries) \in Nat
      /\ IsFiniteSet(DecidedNow) /\ Cardinality(DecidedNow) \in Nat
  BY DecidedFinite DEF DashInv
<1>2. /\ countedBefore \subseteq DecidedNow /\ results \subseteq 1..Len(deliveries)
      /\ beforeFinalizedCount = Cardinality(countedBefore)
      /\ queuedCount = Cardinality(results) /\ results \cap countedBefore = {}
      /\ finalizedEventsCount(counts) = Cardinality(DecidedNow)
  BY <1>1 DEF DashInv, DashboardTypeOK, ServerInv, PageInv
<1>3. IsFiniteSet(1..Len(deliveries))
  BY <1>1, FS_Interval
<1>4. IsFiniteSet(results)
  BY <1>2, <1>3, FS_Subset
<1>5. Cardinality(results) \in Nat
  BY <1>4, FS_CardinalityType
<1>6. IsFiniteSet(countedBefore)
  BY <1>1, <1>2, FS_Subset
<1>7. Cardinality(countedBefore) \in Nat
  BY <1>6, FS_CardinalityType
<1> DEFINE fresh == DecidedNow \ countedBefore
<1>8. /\ IsFiniteSet(fresh)
      /\ Cardinality(fresh) = Cardinality(DecidedNow) - Cardinality(countedBefore)
  <2>1. DecidedNow \cap countedBefore = countedBefore
    BY <1>2
  <2> QED
    BY <1>1, <2>1, FS_Difference
<1>9. ASSUME Cardinality(fresh) >= Cardinality(results), fresh \subseteq results
      PROVE  results \subseteq DecidedNow
  <2>1. Cardinality(fresh) <= Cardinality(results)
    BY <1>4, <1>9, FS_Subset
  <2>2. Cardinality(fresh) = Cardinality(results)
    BY <1>1, <1>5, <1>7, <1>8, <1>9, <2>1
  <2>3. results = fresh
    BY <1>4, <1>9, <2>2, FS_Subset
  <2> QED
    BY <2>3
<1>10. ASSUME results \subseteq DecidedNow
       PROVE  Cardinality(results) <= Cardinality(fresh)
  <2>1. results \subseteq fresh
    BY <1>2, <1>10
  <2> QED
    BY <1>8, <2>1, FS_Subset
<1> DEFINE growth == finalizedEventsCount(counts) - beforeFinalizedCount
<1>11. growth = Cardinality(fresh) /\ growth \in Int
  BY <1>1, <1>2, <1>7, <1>8
<1>12. queuedCount = Cardinality(results) /\ queuedCount \in Nat
  BY <1>2, <1>5
<1> HIDE DEF fresh, growth
<1>13. growth < queuedCount => ~(Cardinality(results) <= Cardinality(fresh))
  BY <1>11, <1>12
<1> USE DEF fresh, growth
<1> QED
  BY <1>9, <1>10, <1>11, <1>12, <1>13

-----------------------------------------------------------------------------
LEMMA InitDashInv == DashboardInit => DashInv
<1> SUFFICES ASSUME DashboardInit PROVE DashInv
  OBVIOUS
<1>1. deliveries = <<>> /\ counts = [valid |-> 0, rejected |-> 0, duplicate |-> 0]
  BY DEF DashboardInit, Init
<1>2. DecidedNow = {}
  BY <1>1 DEF DecidedNow
<1>3. Cardinality({}) = 0
  BY FS_EmptySet
<1>4. DashboardTypeOK
  BY DashboardAssumption DEF DashboardInit, DashboardTypeOK
<1>5. ServerInv
  <2>1. deliveries \in Seq(Delivery)
    BY <1>1, EmptySeq
  <2>2. finalizedEventsCount(counts) = 0
    BY <1>1 DEF finalizedEventsCount
  <2> QED
    BY <1>1, <1>2, <1>3, <2>1, <2>2 DEF ServerInv
<1>6. PageInv
  BY <1>2, <1>3 DEF DashboardInit, PageInv
<1> QED
  BY <1>4, <1>5, <1>6 DEF DashInv

\* Whatever the server does, a page that takes no step keeps what it knows.
LEMMA ServerStepKeeps ==
  ASSUME DashInv, ServerStep
  PROVE  DashInv'
<1>1. ServerInv' /\ DecidedNow \subseteq DecidedNow'
      /\ DOMAIN deliveries \subseteq DOMAIN deliveries'
  <2>1. CASE \E n \in 1..MaxBatch : \E ids \in [1..n -> EventIds \cup {NULL}] : Post(ids)
    <3>1. PICK n \in 1..MaxBatch : \E ids \in [1..n -> EventIds \cup {NULL}] : Post(ids)
      BY <2>1
    <3>2. PICK ids \in [1..n -> EventIds \cup {NULL}] : Post(ids)
      BY <3>1
    <3>3. /\ ServerInv' /\ DecidedNow' = DecidedNow
          /\ Len(deliveries) \in Nat /\ n \in Nat
          /\ DOMAIN deliveries' = 1..(Len(deliveries) + n)
      BY <3>2, PostAdds DEF DashInv
    <3>4. DOMAIN deliveries = 1..Len(deliveries)
      BY DecidedFinite DEF DashInv
    <3> QED
      BY <3>3, <3>4
  <2>2. CASE \E i \in DOMAIN deliveries, verdict \in Verdicts : Decide(i, verdict)
    BY <2>2, DecideCounts DEF DashInv
  <2> QED
    BY <2>1, <2>2 DEF ServerStep, Next
<1>2. UNCHANGED page
  BY DEF ServerStep
<1>3. DashboardTypeOK'
  BY <1>1, <1>2 DEF DashInv, DashboardTypeOK, page
<1>4. PageInv'
  BY <1>1, <1>2 DEF DashInv, PageInv, page
<1> QED
  BY <1>1, <1>3, <1>4 DEF DashInv

\* The batch the page posts is new, and the page knows its size.
LEMMA PostEventsKeeps ==
  ASSUME DashInv, PostEvents
  PROVE  DashInv'
<1>1. PICK n \in 1..MaxBatch : \E ids \in [1..n -> EventIds \cup {NULL}] :
        /\ Post(ids)
        /\ queuedCount' = normalizeQueuedBatch(n).queuedCount
        /\ results' = normalizeQueuedBatch(n).results
  BY DEF PostEvents
<1>2. PICK ids \in [1..n -> EventIds \cup {NULL}] :
        /\ Post(ids)
        /\ queuedCount' = n
        /\ results' = Len(deliveries) + 1..Len(deliveries) + n
  BY <1>1 DEF normalizeQueuedBatch
<1>3. /\ ServerInv' /\ DecidedNow' = DecidedNow
      /\ Len(deliveries) \in Nat /\ n \in Nat
      /\ DOMAIN deliveries' = 1..(Len(deliveries) + n)
  BY <1>2, PostAdds DEF DashInv
<1>4. DOMAIN deliveries = 1..Len(deliveries)
  BY DecidedFinite DEF DashInv
<1>5. /\ step' = "waiting" /\ attempt' = 0
      /\ UNCHANGED <<lastRunStatus, beforeFinalizedCount, countedBefore>>
  BY DEF PostEvents
<1>6. Cardinality(results') = n
  <2>1. PICK l \in Nat : l = Len(deliveries)
    BY <1>3
  <2>2. Cardinality(l + 1..l + n) = n
    BY <1>3, FS_Interval
  <2> QED
    BY <1>2, <2>1, <2>2
<1>7. results' \cap countedBefore = {} /\ results' \cup countedBefore \subseteq DOMAIN deliveries'
  BY <1>2, <1>3, <1>4 DEF DashInv, DashboardTypeOK
<1>8. DashboardTypeOK'
  BY <1>2, <1>3, <1>5, <1>7, DashboardAssumption DEF DashInv, DashboardTypeOK
<1>9. PageInv'
  BY <1>2, <1>3, <1>5, <1>6, <1>7 DEF DashInv, PageInv
<1> QED
  BY <1>3, <1>8, <1>9 DEF DashInv

\* The page gives up although its request was stored.
LEMMA PostResponseLostKeeps ==
  ASSUME DashInv, PostResponseLost
  PROVE  DashInv'
<1>1. PICK n \in 1..MaxBatch : \E ids \in [1..n -> EventIds \cup {NULL}] : Post(ids)
  BY DEF PostResponseLost
<1>2. PICK ids \in [1..n -> EventIds \cup {NULL}] : Post(ids)
  BY <1>1
<1>3. /\ ServerInv' /\ DecidedNow' = DecidedNow
      /\ Len(deliveries) \in Nat /\ n \in Nat
      /\ DOMAIN deliveries' = 1..(Len(deliveries) + n)
  BY <1>2, PostAdds DEF DashInv
<1>4. DOMAIN deliveries = 1..Len(deliveries)
  BY DecidedFinite DEF DashInv
<1>5. DOMAIN deliveries \subseteq DOMAIN deliveries'
  BY <1>3, <1>4
<1>6. /\ step' = "idle" /\ lastRunStatus' = "Failed" /\ results' = {}
      /\ UNCHANGED <<beforeFinalizedCount, queuedCount, attempt, countedBefore>>
  BY DEF PostResponseLost
<1>7. DashboardTypeOK'
  BY <1>5, <1>6 DEF DashInv, DashboardTypeOK
<1>8. PageInv'
  BY <1>3, <1>6 DEF DashInv, PageInv
<1> QED
  BY <1>3, <1>7, <1>8 DEF DashInv

\* A step that changes only the page leaves the statistics about the deliveries.
LEMMA ServerUntouched ==
  ASSUME DashInv, UNCHANGED server
  PROVE  ServerInv' /\ DecidedNow' = DecidedNow /\ DOMAIN deliveries' = DOMAIN deliveries
<1>1. deliveries' = deliveries /\ counts' = counts
  BY DEF server
<1> QED
  BY <1>1 DEF DashInv, ServerInv, DecidedNow, finalizedEventsCount

\* The statistics arrive: the page concludes or counts one attempt more.
LEMMA WaitKeeps ==
  ASSUME DashInv, WaitForFinalizedCount
  PROVE  DashInv'
<1>1. ServerInv' /\ DecidedNow' = DecidedNow /\ DOMAIN deliveries' = DOMAIN deliveries
  BY ServerUntouched DEF WaitForFinalizedCount
<1>2. /\ UNCHANGED <<beforeFinalizedCount, queuedCount, results, countedBefore>>
      /\ step = "waiting" /\ step' \in {"inspecting", "pausing"}
  BY DEF WaitForFinalizedCount
<1>3. lastRunStatus' \in {"Processed", "Queued"} \/ UNCHANGED lastRunStatus
  BY DEF WaitForFinalizedCount, RunStatus
<1>4. attempt' \in 0..MaxAttempts
  <2>1. CASE UNCHANGED attempt
    BY <2>1 DEF DashInv, DashboardTypeOK
  <2>2. CASE attempt # MaxAttempts /\ attempt' = attempt + 1
    BY <2>2, DashboardAssumption DEF DashInv, DashboardTypeOK
  <2> QED
    BY <2>1, <2>2 DEF WaitForFinalizedCount, LastAttempt
<1>5. DashboardTypeOK'
  BY <1>1, <1>2, <1>3, <1>4 DEF DashInv, DashboardTypeOK
<1>6. PageInv'
  BY <1>1, <1>2 DEF DashInv, PageInv
<1> QED
  BY <1>1, <1>5, <1>6 DEF DashInv

\* No step of the page or the server leaves the invariant: what the page keeps of
\* runBatch and waitForFinalizedCount stays about the server's deliveries.
THEOREM DashboardStep == DashInv /\ [DashboardNext]_dashboardVars => DashInv'
<1> SUFFICES ASSUME DashInv, [DashboardNext]_dashboardVars PROVE DashInv'
  OBVIOUS
<1>1. CASE SendBatch
  <2>1. ServerInv' /\ DecidedNow' = DecidedNow /\ DOMAIN deliveries' = DOMAIN deliveries
    BY <1>1, ServerUntouched DEF SendBatch
  <2> QED
    BY <1>1, <2>1 DEF SendBatch, DashInv, DashboardTypeOK, PageInv
<1>2. CASE LoadStatsBefore
  <2>1. ServerInv' /\ DecidedNow' = DecidedNow /\ DOMAIN deliveries' = DOMAIN deliveries
    BY <1>2, ServerUntouched DEF LoadStatsBefore
  <2>2. finalizedEventsCount(counts) = Cardinality(DecidedNow) /\ Cardinality(DecidedNow) \in Nat
    BY DecidedFinite DEF DashInv, ServerInv
  <2>3. DecidedNow \subseteq DOMAIN deliveries
    BY DEF DecidedNow
  <2>4. DashboardTypeOK'
    BY <1>2, <2>1, <2>2, <2>3 DEF LoadStatsBefore, DashInv, DashboardTypeOK
  <2>5. PageInv'
    BY <1>2, <2>1, <2>2 DEF LoadStatsBefore, PageInv
  <2> QED
    BY <2>1, <2>4, <2>5 DEF DashInv
<1>3. CASE PostEvents
  BY <1>3, PostEventsKeeps
<1>4. CASE PostResponseLost
  BY <1>4, PostResponseLostKeeps
<1>5. CASE SendFails
  <2>1. ServerInv' /\ DecidedNow' = DecidedNow /\ DOMAIN deliveries' = DOMAIN deliveries
    BY <1>5, ServerUntouched DEF SendFails
  <2> QED
    BY <1>5, <2>1 DEF SendFails, DashInv, DashboardTypeOK, PageInv
<1>6. CASE WaitForFinalizedCount
  BY <1>6, WaitKeeps
<1>7. CASE PauseEnds
  <2>1. ServerInv' /\ DecidedNow' = DecidedNow /\ DOMAIN deliveries' = DOMAIN deliveries
    BY <1>7, ServerUntouched DEF PauseEnds
  <2> QED
    BY <1>7, <2>1 DEF PauseEnds, DashInv, DashboardTypeOK, PageInv
<1>8. CASE InspectFirstQueued
  <2>1. ServerInv' /\ DecidedNow' = DecidedNow /\ DOMAIN deliveries' = DOMAIN deliveries
    BY <1>8, ServerUntouched DEF InspectFirstQueued
  <2> QED
    BY <1>8, <2>1 DEF InspectFirstQueued, DashInv, DashboardTypeOK, PageInv
<1>9. CASE ServerStep
  BY <1>9, ServerStepKeeps
<1>10. CASE UNCHANGED dashboardVars
  <2>1. ServerInv' /\ DecidedNow' = DecidedNow /\ DOMAIN deliveries' = DOMAIN deliveries
    BY <1>10, ServerUntouched DEF dashboardVars
  <2> QED
    BY <1>10, <2>1 DEF dashboardVars, page, DashInv, DashboardTypeOK, PageInv
<1> QED
  BY <1>1, <1>2, <1>3, <1>4, <1>5, <1>6, <1>7, <1>8, <1>9, <1>10
     DEF DashboardNext, SendStep

\* The invariant holds in every reachable state of the page and its server.
THEOREM DashboardInvariant == DashboardSpec => []DashInv
<1>1. DashInv /\ [DashboardNext]_dashboardVars => DashInv'
  BY DashboardStep
<1> QED
  BY <1>1, InitDashInv, PTL DEF DashboardSpec

\* Every value the page keeps is of its type, its attempts never exceed the bound, and
\* the deliveries it asks the inspectors for exist.
THEOREM DashboardTyped == DashboardSpec => []DashboardTypeOK
<1>1. DashInv => DashboardTypeOK
  BY DEF DashInv
<1> QED
  BY <1>1, DashboardInvariant, PTL

\* Only the arrival of the statistics ends a run as Processed or as Queued, and it
\* says which from how much they have grown.
LEMMA VerdictOfThePage ==
  ASSUME DashInv, [DashboardNext]_dashboardVars,
         lastRunStatus = "Sending", lastRunStatus' \in {"Processed", "Queued"}
  PROVE  /\ step = "waiting"
         /\ lastRunStatus' = RunStatus(finalizedEventsCount(counts))
<1>1. WaitForFinalizedCount /\ lastRunStatus' # lastRunStatus
  BY DEF DashboardNext, SendStep, SendBatch, LoadStatsBefore, PostEvents, PostResponseLost,
         SendFails, PauseEnds, InspectFirstQueued, ServerStep, dashboardVars, page
<1> QED
  BY <1>1 DEF WaitForFinalizedCount

\* Processed means decided, if nothing but the batch was decided in the meantime: the
\* statistics have grown by no more deliveries than those of the batch.
THEOREM ProcessedHonest == DashboardSpec => ProcessedMeansDecided
<1>1. ASSUME DashInv, [DashboardNext]_dashboardVars
      PROVE  [/\ lastRunStatus = "Sending" /\ lastRunStatus' = "Processed"
              /\ DecidedNow \ countedBefore \subseteq results
              => results \subseteq DecidedNow]_dashboardVars
  <2> SUFFICES ASSUME lastRunStatus = "Sending", lastRunStatus' = "Processed",
                      DecidedNow \ countedBefore \subseteq results
               PROVE  results \subseteq DecidedNow
    OBVIOUS
  <2>1. step = "waiting" /\ RunStatus(finalizedEventsCount(counts)) = "Processed"
    BY <1>1, VerdictOfThePage
  <2>2. finalizedEventsCount(counts) - beforeFinalizedCount >= queuedCount
    BY <2>1 DEF RunStatus
  <2> QED
    BY <1>1, <2>1, <2>2, GrowthTells
<1> QED
  BY <1>1, DashboardInvariant, PTL DEF DashboardSpec, ProcessedMeansDecided

\* Queued means that a delivery of the batch is open, whatever else was decided in the
\* meantime: a decided batch alone moves the three counters by its size.
THEOREM QueuedHonest == DashboardSpec => QueuedMeansOpen
<1>1. ASSUME DashInv, [DashboardNext]_dashboardVars
      PROVE  [lastRunStatus = "Sending" /\ lastRunStatus' = "Queued"
              => ~(results \subseteq DecidedNow)]_dashboardVars
  <2> SUFFICES ASSUME lastRunStatus = "Sending", lastRunStatus' = "Queued"
               PROVE  ~(results \subseteq DecidedNow)
    OBVIOUS
  <2>1. step = "waiting" /\ RunStatus(finalizedEventsCount(counts)) = "Queued"
    BY <1>1, VerdictOfThePage
  <2>2. ~(finalizedEventsCount(counts) - beforeFinalizedCount >= queuedCount)
    BY <2>1 DEF RunStatus
  <2> QED
    BY <1>1, <2>1, <2>2, GrowthTells
<1> QED
  BY <1>1, DashboardInvariant, PTL DEF DashboardSpec, QueuedMeansOpen
=============================================================================
