----------------------- MODULE DashboardOnEngineProofs -----------------------
(***************************************************************************)
(* The engine is a server as the page expects it, for every set of items,  *)
(* of polls and of orders, and all bounds.                                 *)
(***************************************************************************)
EXTENDS DashboardOnEngine, EventEngineProofs

\* The page does not disturb the engine.
LEMMA LiveIsEngine == [LiveNext]_liveVars => [Next]_vars
  BY DEF LiveNext, liveVars, PostEvents, PostResponseLost, StatsAnswered, PageAlone,
         EngineStep, Next

LEMMA LiveInvariant == LiveSpec => []DeliveryInv
<1>1. LiveInit => DeliveryInv
  BY InitDeliveryInv DEF LiveInit
<1>2. DeliveryInv /\ [LiveNext]_liveVars => DeliveryInv'
  BY LiveIsEngine, DeliveryStep
<1> QED
  BY <1>1, <1>2, PTL DEF LiveSpec

LEMMA InitOpensPage == LiveInit => Page!DashboardInit
  BY InitOpensInbox DEF LiveInit, Page!DashboardInit, Page!Init, Clients!Init

\* A request of the page is stored as the page's own server would store it, and the
\* response lists the deliveries the page expects.
LEMMA RequestStored ==
  ASSUME IInv, IInv', EnqueueBatch
  PROVE  \E n \in 1..MaxBatch :
           /\ \E ids \in [1..n -> EventIds \cup {NULL}] : Page!Post(ids)
           /\ Cardinality(NewRows) = n
           /\ NewRows = Len(Deliveries) + 1..Len(Deliveries) + n
<1>1. RowsAdded
  BY EnqueueAddsRows DEF IInv
<1>2. PICK n \in 1..MaxBatch :
        /\ DOMAIN inbox' = 1..(Len(inbox) + n)
        /\ \E ids \in [1..n -> EventIds \cup {NULL}] : Clients!Post(ids)
  BY <1>1, StoringPosts
<1>3. PICK L : L = Len(inbox)
  OBVIOUS
<1>4. L \in Nat /\ n \in Nat /\ DOMAIN inbox = 1..L /\ Len(Deliveries) = L
  BY <1>3, EngineAssumption, LenProperties, SeenTypes DEF IInv, TypeOK, DeliveriesSeen
<1>5. NewRows = L + 1..L + n
  BY <1>2, <1>3, <1>4 DEF NewRows
<1>6. Cardinality(L + 1..L + n) = n
  BY <1>4, FS_Interval
<1>7. \E ids \in [1..n -> EventIds \cup {NULL}] : Page!Post(ids)
  BY <1>2 DEF Clients!Post, Page!Post
<1> QED
  BY <1>4, <1>5, <1>6, <1>7

\* Every step of the page and the engine is one of the page in front of Inbox, or is
\* not seen by it.
LEMMA LiveStepSeen ==
  ASSUME DeliveryInv, DeliveryInv', [LiveNext]_liveVars
  PROVE  [Page!DashboardNext]_Page!dashboardVars
<1>1. IInv /\ IInv' /\ [Clients!Next]_<<Deliveries, Counts>>
  BY LiveIsEngine, NextSeen DEF DeliveryInv
<1>2. CASE PostEvents
  <2>1. PICK n \in 1..MaxBatch :
          /\ \E ids \in [1..n -> EventIds \cup {NULL}] : Page!Post(ids)
          /\ Cardinality(NewRows) = n
          /\ NewRows = Len(Deliveries) + 1..Len(Deliveries) + n
    BY <1>1, <1>2, RequestStored DEF PostEvents
  <2>2. Page!PostEvents
    BY <1>2, <2>1 DEF PostEvents, Page!PostEvents, Page!normalizeQueuedBatch
  <2> QED
    BY <2>2 DEF Page!DashboardNext, Page!SendStep
<1>3. CASE PostResponseLost
  <2>1. Page!PostResponseLost
    BY <1>1, <1>3, RequestStored DEF PostResponseLost, Page!PostResponseLost
  <2> QED
    BY <2>1 DEF Page!DashboardNext, Page!SendStep
<1>4. CASE StatsAnswered
  BY <1>4 DEF StatsAnswered, Page!DashboardNext, Page!SendStep
<1>5. CASE PageAlone
  BY <1>5 DEF PageAlone, Page!DashboardNext, Page!SendStep
<1>6. CASE EngineStep
  <2>1. UNCHANGED page /\ [Page!Next]_<<Deliveries, Counts>>
    BY <1>1, <1>6 DEF EngineStep, Clients!Next, Clients!Post, Clients!Decide,
       Clients!Others, Clients!Count, Clients!Evaluations, Clients!Verdicts, Page!Next,
       Page!Post, Page!Decide, Page!Others, Page!Count, Page!Evaluations, Page!Verdicts
  <2> QED
    BY <2>1 DEF page, Page!DashboardNext, Page!ServerStep, Page!dashboardVars,
       Page!server, Page!page
<1>7. CASE UNCHANGED liveVars
  <2>1. UNCHANGED <<Deliveries, Counts>>
    BY <1>7, UnseenSteps DEF liveVars, vars, database
  <2> QED
    BY <1>7, <2>1 DEF liveVars, page, Page!dashboardVars, Page!server, Page!page
<1> QED
  BY <1>2, <1>3, <1>4, <1>5, <1>6, <1>7 DEF LiveNext

\* Whatever crashes, fails or is retried behind it, the page and the engine together do
\* what the page does in front of a server that keeps the promises of Inbox; so what
\* Processed and Queued mean there they mean of the engine.
THEOREM EngineServesPage == LiveSpec => ImplementsDashboard
<1>1. DeliveryInv /\ DeliveryInv' /\ [LiveNext]_liveVars =>
        [Page!DashboardNext]_Page!dashboardVars
  BY LiveStepSeen
<1> QED
  BY <1>1, LiveInvariant, InitOpensPage, PTL
     DEF LiveSpec, ImplementsDashboard, Page!DashboardSpec
=============================================================================
