------------------------ MODULE ScrapePipelineProofs ------------------------
(***************************************************************************)
(* Proofs about ScrapePipeline, for any number of readers, services, pods, *)
(* replicas and rounds and any channel capacities: the scheduler, the      *)
(* readers, the inserter and the deletion, composed, do what each of       *)
(* HealthChecker and CheckHistory assumes of the rest of the program, so   *)
(* that what is proved of these two alone holds of the whole; and a job is *)
(* in one place at a time.                                                 *)
(***************************************************************************)
EXTENDS ScrapePipeline, FiniteSetTheorems, TLAPS

USE ReadersAssumption, PodAnswersAssumption, CapacityAssumption, ServicesAssumption,
    ReplicasAssumption, BoundsAssumption

CheckerProofs == INSTANCE HealthCheckerProofs
HistoryProofs == INSTANCE CheckHistoryProofs WITH States <- AggregatedStates

(* What the rounds have found, and what one has still to queue.            *)
SchedulerInv ==
    /\ scheduler \in {Waiting} \cup [step : {"queue"}, left : SUBSET ServiceCopies]
    /\ round \in 0..MaxRounds
    /\ scheduled \subseteq ServiceCopies
    /\ Left \subseteq scheduled
    /\ \A c \in scheduled : c.round <= round

-----------------------------------------------------------------------------
(* The scheduler.                                                          *)

LEMMA CopiesAreRecords ==
    \A c \in ServiceCopies : c.desiredReplicas \in Nat /\ c.round \in 1..MaxRounds
BY DEF ServiceCopies, Copy

(* The services a round finds are copies of its own.                       *)
LEMMA RoundFinds ==
    ASSUME SchedulerInv, StartRound
    PROVE  \E found \in SUBSET ServiceCopies :
              /\ \A c \in found : c.round = round + 1
              /\ found \cap scheduled = {}
              /\ round' = round + 1 /\ round' \in 0..MaxRounds
              /\ scheduler' = [step |-> "queue", left |-> found]
              /\ scheduled' = scheduled \cup found
<1>1. PICK enabled \in SUBSET Services, replicas \in [Services -> Replicas] :
         LET documents == {Service(s.namespace, s.name, IF s \in enabled THEN "true" ELSE "false",
                                   replicas[s]) : s \in Services}
             found == {Copy(d, d.desiredReplicas, round + 1) :
                          d \in FindAllServicesWithHealthScrapeEnabled(documents, RestrictToNamespaces)}
         IN /\ scheduler' = [step |-> "queue", left |-> found]
            /\ scheduled' = scheduled \cup found
  BY DEF StartRound
<1> DEFINE documents == {Service(s.namespace, s.name, IF s \in enabled THEN "true" ELSE "false",
                                 replicas[s]) : s \in Services}
           found == {Copy(d, d.desiredReplicas, round + 1) :
                        d \in FindAllServicesWithHealthScrapeEnabled(documents, RestrictToNamespaces)}
<1>2. round' = round + 1 /\ round' \in 1..MaxRounds /\ round \in Nat
  BY DEF StartRound, SchedulerInv
<1>3. \A c \in found : c \in ServiceCopies /\ c.round = round + 1
  <2> SUFFICES ASSUME NEW c \in found PROVE c \in ServiceCopies /\ c.round = round + 1
    OBVIOUS
  <2>1. PICK d \in documents : c = Copy(d, d.desiredReplicas, round + 1)
    BY DEF FindAllServicesWithHealthScrapeEnabled
  <2>2. PICK s \in Services :
           d = Service(s.namespace, s.name, IF s \in enabled THEN "true" ELSE "false", replicas[s])
    BY <2>1
  <2>3. c = Copy(s, replicas[s], round + 1)
    BY <2>1, <2>2 DEF Copy, Service
  <2>4. replicas[s] \in Replicas /\ round + 1 \in 1..MaxRounds
    BY <1>2
  <2>5. c \in ServiceCopies
    BY <2>3, <2>4 DEF ServiceCopies
  <2>6. QED
    BY <2>3, <2>5 DEF Copy
<1>4. scheduler' = [step |-> "queue", left |-> found] /\ scheduled' = scheduled \cup found
  BY <1>1
<1> HIDE DEF found
<1>5. found \cap scheduled = {}
  BY <1>2, <1>3, CopiesAreRecords DEF SchedulerInv
<1>6. found \in SUBSET ServiceCopies
  BY <1>3
<1>7. QED
  BY <1>2, <1>3, <1>4, <1>5, <1>6

LEMMA SchedulerInvInit == Init => SchedulerInv
BY DEF Init, SchedulerInv, Left

LEMMA SchedulerInvQuiet ==
    ASSUME SchedulerInv, UNCHANGED <<scheduler, round, scheduled>>
    PROVE  SchedulerInv'
BY DEF SchedulerInv, Left

LEMMA SchedulerInvStep == SchedulerInv /\ [Next]_vars => SchedulerInv'
<1> SUFFICES ASSUME SchedulerInv, [Next]_vars PROVE SchedulerInv'
  OBVIOUS
<1>1. CASE StartRound
  <2>1. PICK found \in SUBSET ServiceCopies :
           /\ \A c \in found : c.round = round + 1
           /\ round' = round + 1 /\ round' \in 0..MaxRounds
           /\ scheduler' = [step |-> "queue", left |-> found]
           /\ scheduled' = scheduled \cup found
    BY <1>1, RoundFinds
  <2>2. scheduler' # Waiting /\ Left' = found
    BY <2>1 DEF Left, Waiting
  <2>3. \A c \in scheduled' : c.round <= round'
    BY <2>1, CopiesAreRecords DEF SchedulerInv
  <2>4. QED
    BY <2>1, <2>2, <2>3 DEF SchedulerInv
<1>2. CASE FindFails
  <2>1. round' \in 0..MaxRounds /\ round <= round' /\ UNCHANGED <<scheduler, scheduled>>
    BY <1>2 DEF FindFails, SchedulerInv
  <2>2. \A c \in scheduled : c.round <= round'
    BY <2>1, CopiesAreRecords DEF SchedulerInv
  <2>3. QED
    BY <2>1, <2>2 DEF SchedulerInv, Left
<1>3. CASE Enqueue
  <2>1. PICK s \in scheduler.left :
           /\ scheduler.step = "queue" /\ scheduler' = [scheduler EXCEPT !.left = @ \ {s}]
           /\ UNCHANGED <<round, scheduled>>
    BY <1>3 DEF Enqueue
  <2>2. scheduler \in [step : {"queue"}, left : SUBSET ServiceCopies]
    BY <2>1 DEF SchedulerInv, Waiting
  <2>3. /\ scheduler' \in [step : {"queue"}, left : SUBSET ServiceCopies]
        /\ scheduler'.left \subseteq scheduler.left
    BY <2>1, <2>2
  <2>4. Left' \subseteq Left
    BY <2>2, <2>3 DEF Left, Waiting
  <2>5. QED
    BY <2>1, <2>3, <2>4 DEF SchedulerInv
<1>4. CASE EndRound \/ Crash
  BY <1>4 DEF EndRound, Crash, SchedulerInv, Left
<1>5. ASSUME NEW i \in Readers, ReaderStep(i) \/ PanicOnNullBody(i) PROVE SchedulerInv'
  <2>1. CASE ReaderStep(i)
    BY <2>1, SchedulerInvQuiet DEF ReaderStep, schedulerVars
  <2>2. CASE PanicOnNullBody(i)
    BY <2>2 DEF PanicOnNullBody, Crash, SchedulerInv, Left
  <2>3. QED
    BY <1>5, <2>1, <2>2
<1>6. CASE InserterStep \/ TidierStep \/ LogError \/ Tick
  BY <1>6, SchedulerInvQuiet DEF InserterStep, TidierStep, LogError, Tick, schedulerVars
<1>7. CASE UNCHANGED vars
  BY <1>7, SchedulerInvQuiet DEF vars
<1>8. QED
  BY <1>1, <1>2, <1>3, <1>4, <1>5, <1>6, <1>7 DEF Next

LEMMA SchedulerInvariant == Spec => []SchedulerInv
BY SchedulerInvInit, SchedulerInvStep, PTL DEF Spec

-----------------------------------------------------------------------------
(* HealthChecker in the pipeline.                                          *)

LEMMA CheckerStep == SchedulerInv /\ [Next]_vars => [Checker!Next]_checkerVars
<1> SUFFICES ASSUME SchedulerInv, [Next]_vars PROVE [Checker!Next]_checkerVars
  OBVIOUS
<1>0. ASSUME SendError, UNCHANGED <<servicesToScrape, statusResponses, reader, inFlight, clock>>
      PROVE  [Checker!Next]_checkerVars
  <2>1. CASE errs < ErrsCap
    BY <1>0, <2>1 DEF SendError, Checker!Next, Checker!Environment, Checker!OtherError
  <2>2. CASE ~(errs < ErrsCap)
    BY <1>0, <2>2 DEF SendError, checkerVars
  <2>3. QED
    BY <2>1, <2>2
<1>1. CASE StartRound \/ EndRound
  BY <1>1 DEF StartRound, EndRound, checkerVars
<1>2. CASE FindFails
  BY <1>0, <1>2 DEF FindFails
<1>3. CASE Enqueue
  <2>1. PICK s \in scheduler.left : scheduler.step = "queue" /\ Checker!QueueService(s)
    BY <1>3 DEF Enqueue
  <2>2. s \in ServiceCopies
    BY <2>1 DEF SchedulerInv, Waiting
  <2>3. QED
    BY <2>1, <2>2 DEF Checker!Next, Checker!Environment
<1>4. ASSUME NEW i \in Readers, ReaderStep(i) \/ PanicOnNullBody(i) PROVE Checker!Next
  BY <1>4 DEF ReaderStep, PanicOnNullBody, Checker!Next, Checker!Reader
<1>5. CASE InserterStep
  <2>1. History!Inserter /\ UNCHANGED <<servicesToScrape, errs, reader, inFlight>>
    BY <1>5 DEF InserterStep
  <2>2. CASE History!Receive
    BY <2>1, <2>2 DEF History!Receive, Checker!Next, Checker!Environment, Checker!TakeStatus
  <2>3. CASE History!Lookup \/ History!LookupFails \/ History!Insert \/ History!InsertFails
    BY <2>1, <2>3 DEF History!Lookup, History!LookupFails, History!Insert, History!InsertFails,
          checkerVars
  <2>4. QED
    BY <2>1, <2>2, <2>3 DEF History!Inserter
<1>6. CASE TidierStep
  <2>1. UNCHANGED <<servicesToScrape, statusResponses, reader, inFlight, clock>>
    BY <1>6 DEF TidierStep, History!StartTidy, History!RemoveOne, History!EndTidy
  <2>2. UNCHANGED errs \/ SendError
    BY <1>6 DEF TidierStep
  <2>3. QED
    BY <1>0, <2>1, <2>2 DEF checkerVars
<1>7. CASE LogError \/ Tick \/ Crash
  BY <1>7 DEF LogError, Tick, Crash, Checker!Next, Checker!Environment, Checker!Restart
<1>8. CASE UNCHANGED vars
  BY <1>8 DEF vars, checkerVars
<1>9. QED
  BY <1>1, <1>2, <1>3, <1>4, <1>5, <1>6, <1>7, <1>8 DEF Next

(* What HealthChecker assumes of the rest of the program is what the rest  *)
(* of the program does: whatever is proved of HealthChecker alone, for any *)
(* environment of that kind, holds in the pipeline (main.go:169-204).      *)
THEOREM PipelineImplementsChecker == Spec => ImplementsChecker
<1>1. Init => Checker!Init
  BY DEF Init
<1>2. Checker!vars = checkerVars
  BY DEF Checker!vars, checkerVars
<1>3. QED
  BY <1>1, <1>2, CheckerStep, SchedulerInvariant, PTL
     DEF Spec, ImplementsChecker, Checker!Spec, Checker!vars, checkerVars

-----------------------------------------------------------------------------
(* HealthCheckerProofs is about an instance of its own, which is the       *)
(* pipeline's: the same actions, the same types.                           *)

LEMMA SameCheckerNext == Checker!Next <=> CheckerProofs!Next
<1>1. ASSUME NEW i
      PROVE  Checker!TakeService(i) <=> CheckerProofs!TakeService(i)
  BY Zenon DEF Checker!TakeService, CheckerProofs!TakeService, Checker!Idle,
     CheckerProofs!Idle
<1>2. ASSUME NEW i, NEW n
      PROVE  Checker!ListPods(i, n) <=> CheckerProofs!ListPods(i, n)
  BY Zenon DEF Checker!ListPods, CheckerProofs!ListPods, Checker!ScrapeOf,
     CheckerProofs!ScrapeOf
<1>3. ASSUME NEW i
      PROVE  Checker!ListPodsFails(i) <=> CheckerProofs!ListPodsFails(i)
  BY Zenon DEF Checker!ListPodsFails, CheckerProofs!ListPodsFails,
     Checker!Idle, CheckerProofs!Idle
<1>4. ASSUME NEW i, NEW a
      PROVE  Checker!ScrapePod(i, a) <=> CheckerProofs!ScrapePod(i, a)
  BY Zenon DEF Checker!ScrapePod, CheckerProofs!ScrapePod, Checker!PodsLeft,
     CheckerProofs!PodsLeft, Checker!ScrapeOf, CheckerProofs!ScrapeOf,
     Checker!NullBody, CheckerProofs!NullBody, Checker!getHealthCheckForPod,
     CheckerProofs!getHealthCheckForPod, Checker!FailedAnswers,
     CheckerProofs!FailedAnswers, Checker!NoError, CheckerProofs!NoError
<1>5. ASSUME NEW i
      PROVE  Checker!Report(i) <=> CheckerProofs!Report(i)
  BY Zenon DEF Checker!Report, CheckerProofs!Report, Checker!Idle,
     CheckerProofs!Idle, Checker!PodsLeft, CheckerProofs!PodsLeft,
     Checker!ServiceStatus, CheckerProofs!ServiceStatus, Checker!ZeroTime,
     CheckerProofs!ZeroTime, Checker!NoState, CheckerProofs!NoState,
     Checker!Verdict, CheckerProofs!Verdict,
     Checker!podsFewerThanDesiredReplicas,
     CheckerProofs!podsFewerThanDesiredReplicas, Checker!podsUnhealthy,
     CheckerProofs!podsUnhealthy, Checker!mostSevereState,
     CheckerProofs!mostSevereState, Checker!assignStatePriority,
     CheckerProofs!assignStatePriority, Checker!ToLower,
     CheckerProofs!ToLower, Checker!Min, CheckerProofs!Min, Checker!Range,
     CheckerProofs!Range, Checker!NoError, CheckerProofs!NoError
<1>6. ASSUME NEW i
      PROVE  Checker!PanicOnNullBody(i) <=> CheckerProofs!PanicOnNullBody(i)
  BY Zenon DEF Checker!PanicOnNullBody, CheckerProofs!PanicOnNullBody,
     Checker!PodsLeft, CheckerProofs!PodsLeft, Checker!NullBody,
     CheckerProofs!NullBody, Checker!LoseMemory, CheckerProofs!LoseMemory,
     Checker!Idle, CheckerProofs!Idle
<1>7. ASSUME NEW s
      PROVE  Checker!QueueService(s) <=> CheckerProofs!QueueService(s)
  BY Zenon DEF Checker!QueueService, CheckerProofs!QueueService
<1>8. Checker!TakeStatus <=> CheckerProofs!TakeStatus
  BY Zenon DEF Checker!TakeStatus, CheckerProofs!TakeStatus
<1>9. Checker!OtherError <=> CheckerProofs!OtherError
  BY Zenon DEF Checker!OtherError, CheckerProofs!OtherError
<1>10. Checker!LogError <=> CheckerProofs!LogError
  BY Zenon DEF Checker!LogError, CheckerProofs!LogError
<1>11. Checker!Restart <=> CheckerProofs!Restart
  BY Zenon DEF Checker!Restart, CheckerProofs!Restart, Checker!LoseMemory,
     CheckerProofs!LoseMemory, Checker!Idle, CheckerProofs!Idle
<1>12. Checker!Tick <=> CheckerProofs!Tick
  BY Zenon DEF Checker!Tick, CheckerProofs!Tick
<1>13. QED
  BY <1>1, <1>2, <1>3, <1>4, <1>5, <1>6, <1>7, <1>8, <1>9, <1>10, <1>11, <1>12
     DEF Checker!Next, Checker!Reader, Checker!Environment,
         CheckerProofs!Next, CheckerProofs!Reader,
         CheckerProofs!Environment

LEMMA SameCheckerSpec == Checker!Spec <=> CheckerProofs!Spec
<1>1. Checker!Init <=> CheckerProofs!Init
  BY Zenon DEF Checker!Init, CheckerProofs!Init, Checker!Idle,
     CheckerProofs!Idle
<1>2. [Checker!Next]_Checker!vars <=> [CheckerProofs!Next]_CheckerProofs!vars
  BY Zenon, SameCheckerNext DEF Checker!vars, CheckerProofs!vars
<1>3. QED
  BY <1>1, <1>2, PTL DEF Checker!Spec, CheckerProofs!Spec

LEMMA SameCheckerTypes == Checker!TypeOK <=> CheckerProofs!TypeOK
BY Zenon DEF Checker!TypeOK, CheckerProofs!TypeOK, Checker!Idle,
   CheckerProofs!Idle, Checker!ServiceStatuses, CheckerProofs!ServiceStatuses,
   Checker!ScrapeDetails, CheckerProofs!ScrapeDetails, Checker!Scraping,
   CheckerProofs!Scraping, Checker!ZeroTime, CheckerProofs!ZeroTime,
   Checker!NoState, CheckerProofs!NoState, Checker!PodHealthResponses,
   CheckerProofs!PodHealthResponses, Checker!HealthTexts,
   CheckerProofs!HealthTexts, Checker!PodErrors, CheckerProofs!PodErrors,
   Checker!FailedAnswers, CheckerProofs!FailedAnswers, Checker!NoError,
   CheckerProofs!NoError, Checker!Messages, CheckerProofs!Messages,
   Checker!AggregatedStates, CheckerProofs!AggregatedStates

LEMMA SameScrapeInv == Checker!ScrapeInv <=> CheckerProofs!ScrapeInv
BY Zenon DEF Checker!ScrapeInv, CheckerProofs!ScrapeInv, Checker!Healthy,
   CheckerProofs!Healthy, Checker!NoError, CheckerProofs!NoError,
   Checker!Cardinality, CheckerProofs!Cardinality

(* The same of CheckHistoryProofs.                                         *)
LEMMA SameHistoryNext == History!Next <=> HistoryProofs!Next
<1>1. History!Receive <=> HistoryProofs!Receive
  BY Zenon DEF History!Receive, HistoryProofs!Receive, History!Receiving,
     HistoryProofs!Receiving, History!Key, HistoryProofs!Key
<1>2. History!Lookup <=> HistoryProofs!Lookup
  BY Zenon DEF History!Lookup, HistoryProofs!Lookup, History!LatestChecks,
     HistoryProofs!LatestChecks, History!ChecksOf, HistoryProofs!ChecksOf,
     History!Key, HistoryProofs!Key, History!WithHistory,
     HistoryProofs!WithHistory, History!NotFound, HistoryProofs!NotFound,
     History!NoState, HistoryProofs!NoState, History!ZeroTime,
     HistoryProofs!ZeroTime
<1>3. History!LookupFails <=> HistoryProofs!LookupFails
  BY Zenon DEF History!LookupFails, HistoryProofs!LookupFails,
     History!WithHistory, HistoryProofs!WithHistory, History!NotFound,
     HistoryProofs!NotFound, History!NoState, HistoryProofs!NoState,
     History!ZeroTime, HistoryProofs!ZeroTime, History!Key, HistoryProofs!Key
<1>4. History!Insert <=> HistoryProofs!Insert
  BY Zenon DEF History!Insert, HistoryProofs!Insert, History!Receiving,
     HistoryProofs!Receiving
<1>5. History!InsertFails <=> HistoryProofs!InsertFails
  BY Zenon DEF History!InsertFails, HistoryProofs!InsertFails,
     History!Receiving, HistoryProofs!Receiving
<1>6. History!StartTidy <=> HistoryProofs!StartTidy
  BY Zenon DEF History!StartTidy, HistoryProofs!StartTidy
<1>7. History!RemoveOne <=> HistoryProofs!RemoveOne
  BY Zenon DEF History!RemoveOne, HistoryProofs!RemoveOne, History!Expired,
     HistoryProofs!Expired
<1>8. History!EndTidy <=> HistoryProofs!EndTidy
  BY Zenon DEF History!EndTidy, HistoryProofs!EndTidy
<1>9. ASSUME NEW s, NEW c, NEW t, NEW d
      PROVE  History!Arrive(s, c, t, d) <=> HistoryProofs!Arrive(s, c, t, d)
  BY Zenon DEF History!Arrive, HistoryProofs!Arrive, History!ZeroTime,
     HistoryProofs!ZeroTime, History!NoState, HistoryProofs!NoState,
     History!Cardinality, HistoryProofs!Cardinality
<1>10. History!Restart <=> HistoryProofs!Restart
  BY Zenon DEF History!Restart, HistoryProofs!Restart, History!Receiving,
     HistoryProofs!Receiving
<1>11. History!Tick <=> HistoryProofs!Tick
  BY Zenon DEF History!Tick, HistoryProofs!Tick
<1>12. QED
  BY <1>1, <1>2, <1>3, <1>4, <1>5, <1>6, <1>7, <1>8, <1>9, <1>10, <1>11
     DEF History!Next, History!Inserter, History!Tidier,
         History!Environment, HistoryProofs!Next, HistoryProofs!Inserter,
         HistoryProofs!Tidier, HistoryProofs!Environment

LEMMA SameHistorySpec == History!Spec <=> HistoryProofs!Spec
<1>1. History!Init <=> HistoryProofs!Init
  BY Zenon DEF History!Init, HistoryProofs!Init, History!Receiving,
     HistoryProofs!Receiving
<1>2. [History!Next]_History!vars <=> [HistoryProofs!Next]_HistoryProofs!vars
  BY Zenon, SameHistoryNext DEF History!vars, HistoryProofs!vars
<1>3. QED
  BY <1>1, <1>2, PTL DEF History!Spec, HistoryProofs!Spec

LEMMA SameHistoryTypes == History!TypeOK <=> HistoryProofs!TypeOK
BY Zenon DEF History!TypeOK, HistoryProofs!TypeOK, History!Receiving,
   HistoryProofs!Receiving, History!ServiceStatuses,
   HistoryProofs!ServiceStatuses, History!Checks, HistoryProofs!Checks,
   History!ZeroTime, HistoryProofs!ZeroTime, History!NoState,
   HistoryProofs!NoState, History!Key, HistoryProofs!Key

-----------------------------------------------------------------------------
(* What is proved of HealthChecker.                                        *)

LEMMA CheckerTypes == Spec => [](Checker!TypeOK /\ Checker!ScrapeInv)
<1>1. \A s \in ServiceCopies : s.desiredReplicas \in Nat
  BY CopiesAreRecords
<1>2. PodAnswers \subseteq CheckerProofs!Answers
  BY DEF Answers, FailedAnswers, HealthTexts, NullBody, CheckerProofs!Answers,
     CheckerProofs!FailedAnswers, CheckerProofs!HealthTexts, CheckerProofs!NullBody
<1>3. Readers # {} /\ CheckerProofs!IsFiniteSet(Readers)
  BY Zenon DEF IsFiniteSet, CheckerProofs!IsFiniteSet
<1>4. MaxPods \in Nat
  OBVIOUS
<1>5. MaxTime \in Nat
  OBVIOUS
<1>6. {QueueCap, StatusCap, ErrsCap} \subseteq Nat \ {0}
  OBVIOUS
<1>7. CheckerProofs!Spec => []CheckerProofs!TypeOK
  BY <1>1, <1>2, <1>3, <1>4, <1>5, <1>6, CheckerProofs!TypeCorrect
<1>8. CheckerProofs!Spec => []CheckerProofs!ScrapeInv
  BY <1>1, <1>2, <1>3, <1>4, <1>5, <1>6, CheckerProofs!CountersAlwaysSplit
<1>9. QED
  BY <1>7, <1>8, PipelineImplementsChecker, SameCheckerSpec, SameCheckerTypes, SameScrapeInv, PTL
     DEF ImplementsChecker

-----------------------------------------------------------------------------
(* The gauge of queued services.                                           *)

GaugeInv == queuedServices \in Nat /\ GaugeCoversQueue

(* Outside a round nothing lengthens the queue.                            *)
LEMMA GaugeInvQuiet ==
    ASSUME GaugeInv, UNCHANGED <<scheduler, queuedServices>>,
           servicesToScrape \in Seq(ServiceCopies),
           \/ servicesToScrape' = servicesToScrape
           \/ servicesToScrape # <<>> /\ servicesToScrape' = Tail(servicesToScrape)
    PROVE  GaugeInv'
<1>1. Len(servicesToScrape') <= Len(servicesToScrape)
      /\ Len(servicesToScrape) \in Nat /\ Len(servicesToScrape') \in Nat
  <2>1. CASE servicesToScrape' = servicesToScrape
    BY <2>1
  <2>2. CASE servicesToScrape # <<>> /\ servicesToScrape' = Tail(servicesToScrape)
    BY <2>2
  <2>3. QED
    BY <2>1, <2>2
<1>2. QED
  BY <1>1 DEF GaugeInv, GaugeCoversQueue

LEMMA GaugeInvStep == Checker!TypeOK /\ SchedulerInv /\ GaugeInv /\ [Next]_vars => GaugeInv'
<1> SUFFICES ASSUME Checker!TypeOK, SchedulerInv, GaugeInv, [Next]_vars PROVE GaugeInv'
  OBVIOUS
<1>0. servicesToScrape \in Seq(ServiceCopies)
  BY DEF Checker!TypeOK
<1>1. CASE StartRound
  <2>1. scheduler' # Waiting /\ queuedServices' = queuedServices
    BY <1>1, RoundFinds DEF StartRound, Waiting
  <2>2. QED
    BY <2>1 DEF GaugeInv, GaugeCoversQueue
<1>2. CASE Enqueue
  <2>1. scheduler' # Waiting /\ queuedServices' = queuedServices
    BY <1>2 DEF Enqueue, SchedulerInv, Waiting
  <2>2. QED
    BY <2>1 DEF GaugeInv, GaugeCoversQueue
<1>3. CASE EndRound
  BY <1>0, <1>3 DEF EndRound, GaugeInv, GaugeCoversQueue
<1>4. CASE Crash
  BY <1>4 DEF Crash, Checker!LoseMemory, GaugeInv, GaugeCoversQueue
<1>5. ASSUME NEW i \in Readers, ReaderStep(i) \/ PanicOnNullBody(i) PROVE GaugeInv'
  <2>1. CASE ReaderStep(i)
    BY <1>0, <2>1, GaugeInvQuiet
       DEF ReaderStep, schedulerVars, Checker!TakeService, Checker!ListPods,
           Checker!ListPodsFails, Checker!ScrapePod, Checker!Report
  <2>2. QED
    BY <1>4, <1>5, <2>1 DEF PanicOnNullBody
<1>6. CASE FindFails \/ InserterStep \/ TidierStep \/ LogError \/ Tick \/ UNCHANGED vars
  BY <1>0, <1>6, GaugeInvQuiet
     DEF FindFails, InserterStep, TidierStep, LogError, Tick, schedulerVars, vars,
         Checker!LogError, Checker!Tick
<1>7. QED
  BY <1>1, <1>2, <1>3, <1>4, <1>5, <1>6 DEF Next

(* Between rounds the gauge never says that less is queued than is, over   *)
(* any number of rounds, failures and restarts (repository.go:450-453).    *)
THEOREM GaugeAlwaysCovers == Spec => []GaugeCoversQueue
<1>1. Init => GaugeInv
  BY DEF Init, Checker!Init, GaugeInv, GaugeCoversQueue
<1>2. GaugeInv => GaugeCoversQueue
  BY DEF GaugeInv
<1>3. QED
  BY <1>1, <1>2, GaugeInvStep, SchedulerInvariant, CheckerTypes, PTL DEF Spec

-----------------------------------------------------------------------------
(* Channels as sequences: a send adds to what a channel holds, a receive   *)
(* takes its head out, when nothing is in it twice.                        *)

OneEach(seq) == \A k, l \in 1..Len(seq) : seq[k] = seq[l] => k = l

LEMMA Sent ==
    ASSUME NEW S, NEW seq \in Seq(S), NEW x \in S, OneEach(seq), x \notin Range(seq)
    PROVE  OneEach(Append(seq, x)) /\ Range(Append(seq, x)) = Range(seq) \cup {x}
<1> DEFINE n == Len(seq)
           longer == Append(seq, x)
<1>1. /\ n \in Nat /\ DOMAIN seq = 1..n /\ DOMAIN longer = 1..(n + 1) /\ Len(longer) = n + 1
      /\ \A k \in 1..n : longer[k] = seq[k]
      /\ longer[n + 1] = x
  OBVIOUS
<1> HIDE DEF longer
<1>2. \A k \in 1..n : seq[k] \in Range(seq)
  BY <1>1 DEF Range
<1>3. OneEach(longer)
  BY <1>1, <1>2 DEF OneEach
<1>4. Range(longer) \subseteq Range(seq) \cup {x}
  <2>1. \A k \in 1..(n + 1) : longer[k] \in Range(seq) \cup {x}
    BY <1>1, <1>2
  <2>2. QED
    BY <1>1, <2>1 DEF Range
<1>5. Range(seq) \cup {x} \subseteq Range(longer)
  <2>1. \A k \in 1..n : seq[k] \in Range(longer)
    BY <1>1 DEF Range
  <2>2. x \in Range(longer)
    BY <1>1 DEF Range
  <2>3. QED
    BY <1>1, <2>1, <2>2 DEF Range
<1>6. QED
  BY <1>3, <1>4, <1>5 DEF longer

LEMMA Received ==
    ASSUME NEW S, NEW seq \in Seq(S), OneEach(seq), seq # <<>>
    PROVE  /\ OneEach(Tail(seq)) /\ Head(seq) \in Range(seq)
           /\ Range(Tail(seq)) = Range(seq) \ {Head(seq)}
<1> DEFINE n == Len(seq)
           rest == Tail(seq)
<1>1. /\ n \in Nat /\ n >= 1 /\ DOMAIN seq = 1..n /\ DOMAIN rest = 1..(n - 1) /\ Len(rest) = n - 1
      /\ \A k \in 1..(n - 1) : rest[k] = seq[k + 1]
      /\ Head(seq) = seq[1]
  OBVIOUS
<1> HIDE DEF rest
<1>2. OneEach(rest)
  BY <1>1 DEF OneEach
<1>3. Head(seq) \in Range(seq)
  BY <1>1 DEF Range
<1>4. ASSUME NEW k \in 1..(n - 1) PROVE rest[k] \in Range(seq) \ {Head(seq)}
  <2>1. k + 1 \in 1..n /\ 1 \in 1..n /\ k + 1 # 1
    BY <1>1
  <2>2. seq[k + 1] \in Range(seq) /\ seq[k + 1] # seq[1]
    BY <1>1, <2>1 DEF Range, OneEach
  <2>3. QED
    BY <1>1, <2>2
<1>5. ASSUME NEW k \in 1..n, seq[k] # Head(seq) PROVE seq[k] \in Range(rest)
  <2>1. k - 1 \in 1..(n - 1) /\ rest[k - 1] = seq[k]
    BY <1>1, <1>5
  <2>2. QED
    BY <1>1, <2>1 DEF Range
<1>6. Range(rest) = Range(seq) \ {Head(seq)}
  BY <1>1, <1>4, <1>5 DEF Range
<1>7. QED
  BY <1>2, <1>3, <1>6 DEF rest

(* The services of statuses, in their order.                               *)
ServicesIn(statuses) == [k \in 1..Len(statuses) |-> statuses[k].service]

LEMMA ServicesInStatuses ==
    ASSUME NEW S, NEW T, \A s \in S : s.service \in T, NEW statuses \in Seq(S)
    PROVE  /\ ServicesIn(statuses) \in Seq(T)
           /\ Len(ServicesIn(statuses)) = Len(statuses)
           /\ Range(ServicesIn(statuses)) = {s.service : s \in Range(statuses)}
           /\ \A s \in S : ServicesIn(Append(statuses, s)) = Append(ServicesIn(statuses), s.service)
           /\ statuses # <<>> =>
                 /\ ServicesIn(statuses) # <<>>
                 /\ ServicesIn(Tail(statuses)) = Tail(ServicesIn(statuses))
                 /\ Head(ServicesIn(statuses)) = Head(statuses).service
<1>1. /\ Len(statuses) \in Nat /\ DOMAIN statuses = 1..Len(statuses)
      /\ \A k \in 1..Len(statuses) : statuses[k] \in S
  OBVIOUS
<1>2. /\ ServicesIn(statuses) \in Seq(T)
      /\ Len(ServicesIn(statuses)) = Len(statuses)
      /\ DOMAIN ServicesIn(statuses) = 1..Len(statuses)
      /\ \A k \in 1..Len(statuses) : ServicesIn(statuses)[k] = statuses[k].service
  BY <1>1 DEF ServicesIn
<1>3. Range(ServicesIn(statuses)) = {s.service : s \in Range(statuses)}
  BY <1>1, <1>2 DEF Range
<1>4. ASSUME NEW s \in S
      PROVE  ServicesIn(Append(statuses, s)) = Append(ServicesIn(statuses), s.service)
  BY <1>1 DEF ServicesIn
<1>5. ASSUME statuses # <<>>
      PROVE  /\ ServicesIn(statuses) # <<>>
             /\ ServicesIn(Tail(statuses)) = Tail(ServicesIn(statuses))
             /\ Head(ServicesIn(statuses)) = Head(statuses).service
  BY <1>1, <1>5 DEF ServicesIn
<1>6. QED
  BY <1>2, <1>3, <1>4, <1>5

-----------------------------------------------------------------------------
(* Where the jobs are: each in one place, in every place once.             *)

LEMMA CopiesAreFinite == IsFiniteSet(ServiceCopies) /\ Cardinality(ServiceCopies) \in Nat
<1> DEFINE parts == Services \X (Replicas \X (1..MaxRounds))
           copy == [p \in parts |-> Copy(p[1], p[2][1], p[2][2])]
<1>1. IsFiniteSet(1..MaxRounds)
  BY FS_Interval
<1>2. IsFiniteSet(Replicas \X (1..MaxRounds))
  BY <1>1, FS_Product
<1>3. IsFiniteSet(parts)
  BY <1>2, FS_Product
<1>4. copy \in Surjection(parts, ServiceCopies)
  <2>1. \A p \in parts : copy[p] \in ServiceCopies
    BY DEF ServiceCopies
  <2>2. ASSUME NEW c \in ServiceCopies PROVE \E p \in parts : copy[p] = c
    <3>1. PICK s \in Services, d \in Replicas, n \in 1..MaxRounds : c = Copy(s, d, n)
      BY DEF ServiceCopies
    <3>2. <<s, <<d, n>>>> \in parts /\ copy[<<s, <<d, n>>>>] = c
      BY <3>1
    <3>3. QED
      BY <3>2
  <2>3. copy \in [parts -> ServiceCopies]
    BY <2>1
  <2> HIDE DEF copy, parts
  <2>4. QED
    BY <2>2, <2>3 DEF Surjection
<1> HIDE DEF parts, copy
<1>5. QED
  BY <1>3, <1>4, FS_Surjection, FS_CardinalityType

Disjoint(A, B, C, D, E, F) ==
    /\ A \cap (B \cup C \cup D \cup E \cup F) = {}
    /\ B \cap (C \cup D \cup E \cup F) = {}
    /\ C \cap (D \cup E \cup F) = {}
    /\ D \cap (E \cup F) = {}
    /\ E \cap F = {}

QueueInv == OneEach(servicesToScrape)
ReadersApart == \A i, j \in Checker!Busy : reader[i].service = reader[j].service => i = j
StatusesInv ==
    OneEach(ServicesIn(statusResponses)) /\ Len(statusResponses) = Cardinality(Reported)
InsertedInv ==
    /\ IsFiniteSet(inserted) /\ Cardinality(inserted) <= Cardinality(recorded)
    /\ \A c \in inserted : c.service \in recorded
PlacesInv ==
    /\ Disjoint(Left, Queued, Scraped, Reported, Inserting, recorded)
    /\ Held \cup recorded \subseteq scheduled

(* A job is in one place at a time, and once; it never comes back to where *)
(* it has been (repository.go:450, checks.go:86-150, repository.go:222).   *)
JobsInv == QueueInv /\ ReadersApart /\ StatusesInv /\ InsertedInv /\ PlacesInv

(* The places follow from the variables.                                   *)
LEMMA PlacesStay ==
    /\ scheduler' = scheduler => Left' = Left
    /\ servicesToScrape' = servicesToScrape => Queued' = Queued /\ (QueueInv => QueueInv')
    /\ reader' = reader => Scraped' = Scraped /\ (ReadersApart => ReadersApart')
    /\ statusResponses' = statusResponses =>
          Reported' = Reported /\ (StatusesInv => StatusesInv')
    /\ inserter' = inserter => Inserting' = Inserting
    /\ UNCHANGED <<inserted, recorded>> => (InsertedInv => InsertedInv')
<1>1. scheduler' = scheduler => Left' = Left
  BY DEF Left
<1>2. servicesToScrape' = servicesToScrape => Queued' = Queued /\ (QueueInv => QueueInv')
  BY DEF Queued, QueueInv
<1>3. reader' = reader => Scraped' = Scraped /\ (ReadersApart => ReadersApart')
  BY DEF Scraped, ReadersApart, Checker!Busy
<1>4. statusResponses' = statusResponses =>
          Reported' = Reported /\ (StatusesInv => StatusesInv')
  BY DEF Reported, StatusesInv
<1>5. inserter' = inserter => Inserting' = Inserting
  BY DEF Inserting
<1>6. UNCHANGED <<inserted, recorded>> => (InsertedInv => InsertedInv')
  BY DEF InsertedInv
<1>7. QED
  BY <1>1, <1>2, <1>3, <1>4, <1>5, <1>6

(* A reader that takes a service, goes on with it, or is done with it.     *)
LEMMA ReaderTakes ==
    ASSUME Checker!TypeOK, ReadersApart, NEW i \in Readers, NEW r,
           reader[i] = Checker!Idle, r # Checker!Idle, r.service \notin Scraped,
           reader' = [reader EXCEPT ![i] = r]
    PROVE  ReadersApart' /\ Scraped' = Scraped \cup {r.service}
<1>1. Checker!Busy' = Checker!Busy \cup {i} /\ i \notin Checker!Busy
  BY DEF Checker!Busy, Checker!TypeOK
<1>2. reader'[i] = r /\ \A j \in Checker!Busy : reader'[j] = reader[j]
  BY <1>1 DEF Checker!TypeOK, Checker!Busy
<1>3. \A j \in Checker!Busy : reader[j].service \in Scraped
  BY DEF Scraped
<1>4. ReadersApart'
  BY <1>1, <1>2, <1>3 DEF ReadersApart
<1>5. QED
  BY <1>1, <1>2, <1>4 DEF Scraped

LEMMA ReaderGoesOn ==
    ASSUME Checker!TypeOK, ReadersApart, NEW i \in Readers, NEW r,
           reader[i] # Checker!Idle, r # Checker!Idle, r.service = reader[i].service,
           reader' = [reader EXCEPT ![i] = r]
    PROVE  ReadersApart' /\ Scraped' = Scraped
<1>1. Checker!Busy' = Checker!Busy
  BY DEF Checker!Busy, Checker!TypeOK
<1>2. \A j \in Checker!Busy : reader'[j].service = reader[j].service
  BY DEF Checker!TypeOK, Checker!Busy
<1>3. ReadersApart'
  BY <1>1, <1>2 DEF ReadersApart
<1>4. QED
  BY <1>1, <1>2, <1>3 DEF Scraped

LEMMA ReaderIsDone ==
    ASSUME Checker!TypeOK, ReadersApart, NEW i \in Readers,
           reader[i] # Checker!Idle, reader' = [reader EXCEPT ![i] = Checker!Idle]
    PROVE  /\ ReadersApart' /\ reader[i].service \in Scraped
           /\ Scraped' = Scraped \ {reader[i].service}
<1>1. Checker!Busy' = Checker!Busy \ {i} /\ i \in Checker!Busy
  BY DEF Checker!Busy, Checker!TypeOK
<1>2. \A j \in Checker!Busy \ {i} : reader'[j] = reader[j]
  BY DEF Checker!TypeOK, Checker!Busy
<1>3. ReadersApart'
  BY <1>1, <1>2 DEF ReadersApart
<1>4. \A j \in Checker!Busy \ {i} : reader[j].service # reader[i].service
  BY <1>1 DEF ReadersApart
<1>5. QED
  BY <1>1, <1>2, <1>3, <1>4 DEF Scraped

-----------------------------------------------------------------------------
(* What each action does with the jobs: it moves one on, or gives it up.   *)

JobStep == [Jobs!Next]_Jobs!vars

LEMMA JobsStay ==
    ASSUME UNCHANGED <<scheduled, Held, recorded>> PROVE JobStep
BY DEF JobStep, Jobs!vars

LEMMA JobIsGivenUp ==
    ASSUME UNCHANGED <<scheduled, recorded>>, NEW j \in Held, j \in ServiceCopies,
           Held' = Held \ {j}
    PROVE  JobStep
BY DEF JobStep, Jobs!Next, Jobs!GiveUp

LEMMA StartRoundMoves ==
    ASSUME SchedulerInv, JobsInv, StartRound PROVE JobsInv' /\ JobStep
<1>1. PICK found \in SUBSET ServiceCopies :
         /\ found \cap scheduled = {}
         /\ scheduler' = [step |-> "queue", left |-> found]
         /\ scheduled' = scheduled \cup found
  BY RoundFinds
<1>2. Left = {} /\ Left' = found
  BY <1>1 DEF StartRound, Left, Waiting
<1>3. /\ UNCHANGED <<Queued, Scraped, Reported, Inserting, recorded>>
      /\ QueueInv' /\ ReadersApart' /\ StatusesInv' /\ InsertedInv'
  BY PlacesStay DEF StartRound, JobsInv
<1>4. PlacesInv'
  BY <1>1, <1>2, <1>3 DEF JobsInv, PlacesInv, Disjoint, Held
<1>5. Held' = Held \cup found
  BY <1>2, <1>3 DEF Held
<1>6. Jobs!Schedule(found)
  BY <1>1, <1>3, <1>5 DEF Jobs!Schedule
<1>7. QED
  BY <1>3, <1>4, <1>6 DEF JobsInv, JobStep, Jobs!Next

LEMMA EnqueueMoves ==
    ASSUME SchedulerInv, Checker!TypeOK, JobsInv, Enqueue PROVE JobsInv' /\ JobStep
<1>1. PICK s \in scheduler.left :
         /\ scheduler.step = "queue" /\ Checker!QueueService(s)
         /\ scheduler' = [scheduler EXCEPT !.left = @ \ {s}]
  BY DEF Enqueue
<1>2. scheduler \in [step : {"queue"}, left : SUBSET ServiceCopies]
  BY <1>1 DEF SchedulerInv, Waiting
<1>3. s \in Left /\ s \in ServiceCopies /\ Left' = Left \ {s}
  BY <1>1, <1>2 DEF Left, Waiting
<1>4. s \notin Queued
  BY <1>3 DEF JobsInv, PlacesInv, Disjoint
<1>5. QueueInv' /\ Queued' = Queued \cup {s}
  BY <1>1, <1>3, <1>4, Sent DEF JobsInv, QueueInv, Queued, Checker!QueueService, Checker!TypeOK
<1>6. /\ UNCHANGED <<Scraped, Reported, Inserting, recorded, scheduled>>
      /\ ReadersApart' /\ StatusesInv' /\ InsertedInv'
  BY <1>1, PlacesStay DEF Enqueue, Checker!QueueService, JobsInv
<1>7. PlacesInv'
  BY <1>3, <1>5, <1>6 DEF JobsInv, PlacesInv, Disjoint, Held
<1>8. Held' = Held
  BY <1>3, <1>5, <1>6 DEF Held
<1>9. QED
  BY <1>5, <1>6, <1>7, <1>8, JobsStay DEF JobsInv

LEMMA TakeServiceMoves ==
    ASSUME Checker!TypeOK, JobsInv, NEW i \in Readers, Checker!TakeService(i),
           UNCHANGED <<inserter, inserted, recorded, scheduler, scheduled>>
    PROVE  JobsInv' /\ JobStep
<1> DEFINE s == Head(servicesToScrape)
<1>1. /\ servicesToScrape \in Seq(ServiceCopies) /\ servicesToScrape # <<>>
      /\ servicesToScrape' = Tail(servicesToScrape)
  BY DEF Checker!TypeOK, Checker!TakeService
<1>2. QueueInv' /\ s \in Queued /\ Queued' = Queued \ {s}
  BY <1>1, Received DEF JobsInv, QueueInv, Queued
<1>3. s \notin Scraped
  BY <1>2 DEF JobsInv, PlacesInv, Disjoint
<1>4. PICK r : r = [step |-> "list", service |-> s]
  OBVIOUS
<1>5. /\ reader[i] = Checker!Idle /\ r # Checker!Idle /\ r.service = s
      /\ reader' = [reader EXCEPT ![i] = r]
  BY <1>4 DEF Checker!TakeService, Checker!Idle
<1> HIDE DEF s
<1>6. ReadersApart' /\ Scraped' = Scraped \cup {s}
  BY <1>3, <1>5, ReaderTakes DEF JobsInv
<1>7. /\ UNCHANGED <<Left, Reported, Inserting, recorded>>
      /\ StatusesInv' /\ InsertedInv'
  BY PlacesStay DEF Checker!TakeService, JobsInv
<1>8. PlacesInv'
  BY <1>2, <1>6, <1>7 DEF JobsInv, PlacesInv, Disjoint, Held
<1>9. Held' = Held
  BY <1>2, <1>6, <1>7 DEF Held
<1>10. QED
  BY <1>2, <1>6, <1>7, <1>8, <1>9, JobsStay DEF JobsInv

(* Listing and scraping pods keep the service.                             *)
LEMMA ScrapingMoves ==
    ASSUME Checker!TypeOK, JobsInv, NEW i \in Readers, NEW n, NEW answer,
           Checker!ListPods(i, n) \/ Checker!ScrapePod(i, answer),
           UNCHANGED <<inserter, inserted, recorded, scheduler, scheduled>>
    PROVE  JobsInv' /\ JobStep
<1>1. PICK r : /\ r.service = reader[i].service /\ r # Checker!Idle
               /\ reader[i] # Checker!Idle /\ reader' = [reader EXCEPT ![i] = r]
  BY DEF Checker!ListPods, Checker!ScrapePod, Checker!PodsLeft, Checker!ScrapeOf, Checker!Idle
<1>2. ReadersApart' /\ Scraped' = Scraped
  BY <1>1, ReaderGoesOn DEF JobsInv
<1>3. /\ UNCHANGED <<Left, Queued, Reported, Inserting, recorded>>
      /\ QueueInv' /\ StatusesInv' /\ InsertedInv'
  BY PlacesStay DEF Checker!ListPods, Checker!ScrapePod, JobsInv
<1>4. PlacesInv' /\ Held' = Held
  BY <1>2, <1>3 DEF JobsInv, PlacesInv, Disjoint, Held
<1>5. QED
  BY <1>2, <1>3, <1>4, JobsStay DEF JobsInv

LEMMA ListPodsFailsMoves ==
    ASSUME SchedulerInv, Checker!TypeOK, JobsInv, NEW i \in Readers, Checker!ListPodsFails(i),
           UNCHANGED <<inserter, inserted, recorded, scheduler, scheduled>>
    PROVE  JobsInv' /\ JobStep
<1> DEFINE s == reader[i].service
<1>1. reader[i] # Checker!Idle /\ reader' = [reader EXCEPT ![i] = Checker!Idle]
  BY DEF Checker!ListPodsFails, Checker!Idle
<1>2. ReadersApart' /\ s \in Scraped /\ Scraped' = Scraped \ {s}
  BY <1>1, ReaderIsDone DEF JobsInv
<1> HIDE DEF s
<1>3. /\ UNCHANGED <<Left, Queued, Reported, Inserting, recorded>>
      /\ QueueInv' /\ StatusesInv' /\ InsertedInv'
  BY PlacesStay DEF Checker!ListPodsFails, JobsInv
<1>4. PlacesInv'
  BY <1>2, <1>3 DEF JobsInv, PlacesInv, Disjoint, Held
<1>5. s \in Held /\ s \in ServiceCopies /\ Held' = Held \ {s}
  BY <1>2, <1>3 DEF JobsInv, PlacesInv, Disjoint, Held, SchedulerInv
<1>6. QED
  BY <1>2, <1>3, <1>4, <1>5, JobIsGivenUp DEF JobsInv

LEMMA PlacesAreFinite ==
    ASSUME SchedulerInv, JobsInv
    PROVE  /\ Held \subseteq ServiceCopies /\ recorded \subseteq ServiceCopies
           /\ IsFiniteSet(Reported) /\ Cardinality(Reported) \in Nat
           /\ IsFiniteSet(recorded) /\ Cardinality(recorded) \in Nat
<1>1. Held \cup recorded \subseteq ServiceCopies
  BY DEF SchedulerInv, JobsInv, PlacesInv
<1>2. Reported \in SUBSET ServiceCopies /\ recorded \in SUBSET ServiceCopies
  BY <1>1 DEF Held
<1>3. IsFiniteSet(Reported) /\ IsFiniteSet(recorded)
  BY <1>2, CopiesAreFinite, FS_Subset
<1>4. QED
  BY <1>1, <1>3, FS_CardinalityType

(* The channel of statuses as the sequence of their services.              *)
LEMMA ReportedInOrder ==
    ASSUME Checker!TypeOK
    PROVE  /\ ServicesIn(statusResponses) \in Seq(ServiceCopies)
           /\ Reported = Range(ServicesIn(statusResponses))
           /\ Len(statusResponses) \in Nat
<1>1. statusResponses \in Seq(Checker!ServiceStatuses)
  BY DEF Checker!TypeOK
<1>2. \A s \in Checker!ServiceStatuses : s.service \in ServiceCopies
  BY DEF Checker!ServiceStatuses
<1>3. /\ ServicesIn(statusResponses) \in Seq(ServiceCopies)
      /\ Range(ServicesIn(statusResponses)) = {s.service : s \in Range(statusResponses)}
  BY <1>1, <1>2, ServicesInStatuses
<1>4. Len(statusResponses) \in Nat
  BY <1>1
<1>5. QED
  BY <1>3, <1>4 DEF Reported

LEMMA ReportMoves ==
    ASSUME SchedulerInv, Checker!TypeOK, Checker!TypeOK', JobsInv, NEW i \in Readers,
           Checker!Report(i), UNCHANGED <<inserter, inserted, recorded, scheduler, scheduled>>
    PROVE  JobsInv' /\ JobStep
<1> DEFINE s == reader[i].service
<1>1. reader[i] # Checker!Idle /\ reader' = [reader EXCEPT ![i] = Checker!Idle]
  BY DEF Checker!Report, Checker!Idle
<1>2. ReadersApart' /\ s \in Scraped /\ Scraped' = Scraped \ {s}
  BY <1>1, ReaderIsDone DEF JobsInv
<1>3. PICK status : /\ statusResponses' = Append(statusResponses, status)
                    /\ status.service = s
  BY DEF Checker!Report, Checker!ServiceStatus
<1> HIDE DEF s
<1>4. status \in Checker!ServiceStatuses
  <2>1. /\ statusResponses \in Seq(Checker!ServiceStatuses)
        /\ Append(statusResponses, status) \in Seq(Checker!ServiceStatuses)
    BY <1>3 DEF Checker!TypeOK
  <2>2. Append(statusResponses, status)[Len(statusResponses) + 1] = status
    BY <2>1
  <2>3. Len(statusResponses) + 1 \in 1..Len(Append(statusResponses, status))
    BY <2>1
  <2>4. QED
    BY <2>1, <2>2, <2>3
<1>5. s \in ServiceCopies /\ s \notin Reported
  BY <1>2, PlacesAreFinite DEF JobsInv, PlacesInv, Disjoint, Held
<1>6. ServicesIn(statusResponses') = Append(ServicesIn(statusResponses), s)
  <2>1. \A st \in Checker!ServiceStatuses : st.service \in ServiceCopies
    BY DEF Checker!ServiceStatuses
  <2>2. QED
    BY <1>3, <1>4, <2>1, ServicesInStatuses DEF Checker!TypeOK
<1>7. OneEach(ServicesIn(statusResponses')) /\ Reported' = Reported \cup {s}
  <2>1. Reported' = Range(ServicesIn(statusResponses'))
    <3>1. \A st \in Checker!ServiceStatuses : st.service \in ServiceCopies
      BY DEF Checker!ServiceStatuses
    <3>2. statusResponses' \in Seq(Checker!ServiceStatuses)
      BY <1>3, <1>4 DEF Checker!TypeOK
    <3>3. QED
      BY <3>1, <3>2, ServicesInStatuses DEF Reported
  <2>2. QED
    BY <1>5, <1>6, <2>1, ReportedInOrder, Sent DEF JobsInv, StatusesInv
<1>8. Len(statusResponses') = Cardinality(Reported')
  <2>1. Cardinality(Reported') = Cardinality(Reported) + 1
    BY <1>5, <1>7, PlacesAreFinite, FS_AddElement
  <2>2. Len(statusResponses') = Len(statusResponses) + 1
    BY <1>3, <1>4 DEF Checker!TypeOK
  <2>3. QED
    BY <2>1, <2>2 DEF JobsInv, StatusesInv
<1>9. StatusesInv'
  BY <1>7, <1>8 DEF StatusesInv
<1>10. /\ UNCHANGED <<Left, Queued, Inserting, recorded>>
       /\ QueueInv' /\ InsertedInv'
  BY PlacesStay DEF Checker!Report, JobsInv
<1>11. PlacesInv' /\ Held' = Held
  BY <1>2, <1>7, <1>10 DEF JobsInv, PlacesInv, Disjoint, Held
<1>12. QED
  BY <1>2, <1>9, <1>10, <1>11, JobsStay DEF JobsInv

LEMMA ReceiveMoves ==
    ASSUME SchedulerInv, Checker!TypeOK, JobsInv, History!Receive,
           UNCHANGED <<servicesToScrape, reader, scheduler, scheduled, recorded>>
    PROVE  JobsInv' /\ JobStep
<1> DEFINE s == Head(statusResponses).service
           services == ServicesIn(statusResponses)
<1>1. /\ statusResponses \in Seq(Checker!ServiceStatuses) /\ statusResponses # <<>>
      /\ statusResponses' = Tail(statusResponses)
  BY DEF Checker!TypeOK, History!Receive
<1>2. /\ services # <<>> /\ Head(services) = s /\ ServicesIn(statusResponses') = Tail(services)
      /\ Range(ServicesIn(statusResponses')) = Reported'
  <2>1. \A st \in Checker!ServiceStatuses : st.service \in ServiceCopies
    BY DEF Checker!ServiceStatuses
  <2>2. Tail(statusResponses) \in Seq(Checker!ServiceStatuses)
    BY <1>1
  <2>3. Range(ServicesIn(statusResponses')) = Reported'
    BY <1>1, <2>1, <2>2, ServicesInStatuses DEF Reported
  <2>4. QED
    BY <1>1, <2>1, <2>3, ServicesInStatuses
<1>3. /\ Inserting = {} /\ Inserting' = {s}
  BY DEF History!Receive, History!Receiving, Inserting
<1> HIDE DEF s, services
<1>4. services \in Seq(ServiceCopies) /\ OneEach(services) /\ Reported = Range(services)
  BY ReportedInOrder DEF JobsInv, StatusesInv, services
<1>5. s \in Reported /\ OneEach(ServicesIn(statusResponses')) /\ Reported' = Reported \ {s}
  BY <1>2, <1>4, Received
<1>6. Len(statusResponses') = Cardinality(Reported')
  <2>1. Cardinality(Reported') = Cardinality(Reported) - 1
    BY <1>5, PlacesAreFinite, FS_RemoveElement
  <2>2. Len(statusResponses') = Len(statusResponses) - 1
    BY <1>1
  <2>3. QED
    BY <2>1, <2>2 DEF JobsInv, StatusesInv
<1>7. StatusesInv'
  BY <1>5, <1>6 DEF StatusesInv
<1>8. /\ UNCHANGED <<Left, Queued, Scraped, recorded>>
      /\ QueueInv' /\ ReadersApart' /\ InsertedInv'
  BY PlacesStay DEF History!Receive, JobsInv
<1>9. PlacesInv' /\ Held' = Held
  BY <1>3, <1>5, <1>8 DEF JobsInv, PlacesInv, Disjoint, Held
<1>10. QED
  BY <1>7, <1>8, <1>9, JobsStay DEF JobsInv

LEMMA LookupMoves ==
    ASSUME History!TypeOK, JobsInv, History!Lookup \/ History!LookupFails,
           UNCHANGED <<servicesToScrape, reader, scheduler, scheduled, recorded>>
    PROVE  JobsInv' /\ JobStep
<1>1. PICK prev : /\ inserter.step = "lookup"
                  /\ inserter' = [step |-> "insert", status |-> History!WithHistory(inserter.status, prev)]
  BY DEF History!Lookup, History!LookupFails
<1>2. inserter.status \in History!ServiceStatuses /\ inserter # History!Receiving
  BY <1>1 DEF History!TypeOK, History!Receiving
<1>3. History!WithHistory(inserter.status, prev).service = inserter.status.service
  BY <1>2 DEF History!WithHistory, History!ServiceStatuses
<1>4. inserter' # History!Receiving /\ inserter'.status.service = inserter.status.service
  BY <1>1, <1>3 DEF History!Receiving
<1>5. Inserting' = Inserting
  BY <1>2, <1>4 DEF Inserting, History!Receiving
<1>6. /\ UNCHANGED <<Left, Queued, Scraped, Reported, recorded>>
      /\ QueueInv' /\ ReadersApart' /\ StatusesInv' /\ InsertedInv'
  BY PlacesStay DEF History!Lookup, History!LookupFails, JobsInv
<1>7. PlacesInv' /\ Held' = Held
  BY <1>5, <1>6 DEF JobsInv, PlacesInv, Disjoint, Held
<1>8. QED
  BY <1>6, <1>7, JobsStay DEF JobsInv

LEMMA InsertMoves ==
    ASSUME SchedulerInv, JobsInv, History!Insert,
           UNCHANGED <<servicesToScrape, reader, scheduler, scheduled>>,
           recorded' = recorded \cup {c.service : c \in inserted'}
    PROVE  JobsInv' /\ JobStep
<1> DEFINE s == inserter.status.service
<1>1. Inserting = {s} /\ Inserting' = {}
  BY DEF History!Insert, History!Receiving, Inserting
<1>2. inserted' = inserted \cup {inserter.status}
  BY DEF History!Insert
<1>3. recorded' = recorded \cup {s}
  BY <1>2 DEF JobsInv, InsertedInv
<1> HIDE DEF s
<1>4. s \notin recorded /\ s \in Held /\ s \in ServiceCopies
  BY <1>1, PlacesAreFinite DEF JobsInv, PlacesInv, Disjoint, Held
<1>5. InsertedInv'
  <2>1. inserter.status \notin inserted
    BY <1>4 DEF JobsInv, InsertedInv, s
  <2>2. IsFiniteSet(inserted') /\ Cardinality(inserted') = Cardinality(inserted) + 1
    BY <1>2, <2>1, FS_AddElement DEF JobsInv, InsertedInv
  <2>3. Cardinality(recorded') = Cardinality(recorded) + 1
    BY <1>3, <1>4, PlacesAreFinite, FS_AddElement
  <2>4. Cardinality(inserted') <= Cardinality(recorded')
    <3>1. Cardinality(inserted) \in Nat /\ Cardinality(inserted) <= Cardinality(recorded)
      BY FS_CardinalityType DEF JobsInv, InsertedInv
    <3>2. QED
      BY <2>2, <2>3, <3>1, PlacesAreFinite
  <2>5. \A c \in inserted' : c.service \in recorded'
    BY <1>2, <1>3 DEF JobsInv, InsertedInv, s
  <2>6. QED
    BY <2>2, <2>4, <2>5 DEF InsertedInv
<1>6. /\ UNCHANGED <<Left, Queued, Scraped, Reported>>
      /\ QueueInv' /\ ReadersApart' /\ StatusesInv'
  BY PlacesStay DEF History!Insert, JobsInv
<1>7. PlacesInv'
  BY <1>1, <1>3, <1>6 DEF JobsInv, PlacesInv, Disjoint, Held
<1>8. Held' = Held \ {s}
  BY <1>1, <1>6 DEF JobsInv, PlacesInv, Disjoint, Held
<1>9. Jobs!Record(s)
  BY <1>3, <1>4, <1>8 DEF Jobs!Record
<1>10. QED
  BY <1>4, <1>5, <1>6, <1>7, <1>9 DEF JobsInv, JobStep, Jobs!Next

LEMMA InsertFailsMoves ==
    ASSUME SchedulerInv, JobsInv, History!InsertFails,
           UNCHANGED <<servicesToScrape, reader, scheduler, scheduled, recorded>>
    PROVE  JobsInv' /\ JobStep
<1> DEFINE s == inserter.status.service
<1>1. Inserting = {s} /\ Inserting' = {}
  BY DEF History!InsertFails, History!Receiving, Inserting
<1> HIDE DEF s
<1>2. /\ UNCHANGED <<Left, Queued, Scraped, Reported, recorded>>
      /\ QueueInv' /\ ReadersApart' /\ StatusesInv' /\ InsertedInv'
  BY PlacesStay DEF History!InsertFails, JobsInv
<1>3. PlacesInv'
  BY <1>1, <1>2 DEF JobsInv, PlacesInv, Disjoint, Held
<1>4. s \in Held /\ s \in ServiceCopies /\ Held' = Held \ {s}
  BY <1>1, <1>2, PlacesAreFinite DEF JobsInv, PlacesInv, Disjoint, Held
<1>5. QED
  BY <1>2, <1>3, <1>4, JobIsGivenUp DEF JobsInv

LEMMA CrashMoves == ASSUME SchedulerInv, JobsInv, Crash PROVE JobsInv' /\ JobStep
<1>1. Left' = {}
  BY DEF Crash, Left
<1>2. /\ Queued' = {} /\ QueueInv' /\ Reported' = {}
      /\ ServicesIn(statusResponses') = <<>> /\ Len(statusResponses') = 0
  BY DEF Crash, Checker!LoseMemory, Queued, QueueInv, OneEach, Reported, Range, ServicesIn
<1>3. StatusesInv'
  BY <1>2, FS_EmptySet DEF StatusesInv, OneEach
<1>4. Scraped' = {} /\ ReadersApart'
  BY DEF Crash, Checker!LoseMemory, Scraped, ReadersApart, Checker!Busy
<1>5. Inserting' = {}
  BY DEF Crash, History!Restart, Inserting
<1>6. recorded' = recorded /\ InsertedInv' /\ scheduled' = scheduled
  <2>1. recorded' = recorded /\ scheduled' = scheduled
    BY DEF Crash
  <2>2. CASE inserted' = inserted
    BY <2>1, <2>2, PlacesStay DEF JobsInv
  <2>3. CASE inserted' = {}
    BY <2>1, <2>3, PlacesAreFinite, FS_EmptySet DEF InsertedInv
  <2>4. QED
    BY <2>1, <2>2, <2>3 DEF Crash, History!Restart
<1>7. PlacesInv'
  BY <1>1, <1>2, <1>4, <1>5, <1>6 DEF JobsInv, PlacesInv, Disjoint, Held
<1>8. Held' = {}
  BY <1>1, <1>2, <1>4, <1>5 DEF Held
<1>9. Jobs!Crash
  BY <1>6, <1>8 DEF Jobs!Crash
<1>10. QED
  BY <1>2, <1>3, <1>4, <1>6, <1>7, <1>9 DEF JobsInv, JobStep, Jobs!Next

(* Nothing else moves a job.                                               *)
LEMMA OthersMoveNothing ==
    ASSUME JobsInv, UNCHANGED <<servicesToScrape, statusResponses, reader, inserter, inserted,
                                recorded, scheduler, scheduled>>
    PROVE  JobsInv' /\ JobStep
<1>1. /\ UNCHANGED <<Left, Queued, Scraped, Reported, Inserting, recorded>>
      /\ QueueInv' /\ ReadersApart' /\ StatusesInv' /\ InsertedInv'
  BY PlacesStay DEF JobsInv
<1>2. PlacesInv' /\ Held' = Held
  BY <1>1 DEF JobsInv, PlacesInv, Disjoint, Held
<1>3. QED
  BY <1>1, <1>2, JobsStay DEF JobsInv

LEMMA JobsInvStep ==
    ASSUME SchedulerInv, Checker!TypeOK, Checker!TypeOK', History!TypeOK, JobsInv, [Next]_vars
    PROVE  JobsInv' /\ JobStep
<1>1. CASE StartRound
  BY <1>1, StartRoundMoves
<1>2. CASE Enqueue
  BY <1>2, EnqueueMoves
<1>3. CASE FindFails \/ EndRound
  <2>1. CASE FindFails
    BY <2>1, OthersMoveNothing DEF FindFails
  <2>2. CASE EndRound
    <3>1. Left = {} /\ Left' = {}
      BY <2>2 DEF EndRound, Left, SchedulerInv
    <3>2. /\ UNCHANGED <<Left, Queued, Scraped, Reported, Inserting, recorded>>
          /\ QueueInv' /\ ReadersApart' /\ StatusesInv' /\ InsertedInv' /\ scheduled' = scheduled
      BY <2>2, <3>1, PlacesStay DEF EndRound, JobsInv
    <3>3. PlacesInv' /\ Held' = Held
      BY <3>2 DEF JobsInv, PlacesInv, Disjoint, Held
    <3>4. QED
      BY <3>2, <3>3, JobsStay DEF JobsInv
  <2>3. QED
    BY <1>3, <2>1, <2>2
<1>4. CASE Crash
  BY <1>4, CrashMoves
<1>5. ASSUME NEW i \in Readers, ReaderStep(i) \/ PanicOnNullBody(i) PROVE JobsInv' /\ JobStep
  <2>1. CASE ReaderStep(i)
    <3>1. UNCHANGED <<inserter, inserted, recorded, scheduler, scheduled>>
      BY <2>1 DEF ReaderStep, schedulerVars
    <3>2. CASE Checker!TakeService(i)
      BY <3>1, <3>2, TakeServiceMoves
    <3>3. CASE (\E n \in 0..MaxPods : Checker!ListPods(i, n))
               \/ \E answer \in PodAnswers : Checker!ScrapePod(i, answer)
      BY <3>1, <3>3, ScrapingMoves
    <3>4. CASE Checker!ListPodsFails(i)
      BY <3>1, <3>4, ListPodsFailsMoves
    <3>5. CASE Checker!Report(i)
      BY <3>1, <3>5, ReportMoves
    <3>6. QED
      BY <2>1, <3>2, <3>3, <3>4, <3>5 DEF ReaderStep
  <2>2. QED
    BY <1>4, <1>5, <2>1 DEF PanicOnNullBody
<1>6. CASE InserterStep
  <2>1. UNCHANGED <<servicesToScrape, reader, scheduler, scheduled>>
    BY <1>6 DEF InserterStep, schedulerVars
  <2>2. recorded' = recorded \cup {c.service : c \in inserted'}
    BY <1>6 DEF InserterStep
  <2>3. CASE History!Insert
    BY <2>1, <2>2, <2>3, InsertMoves
  <2>4. CASE History!Receive \/ History!Lookup \/ History!LookupFails \/ History!InsertFails
    <3>1. inserted' = inserted
      BY <2>4 DEF History!Receive, History!Lookup, History!LookupFails, History!InsertFails
    <3>2. recorded' = recorded
      BY <2>2, <3>1 DEF JobsInv, InsertedInv
    <3>3. QED
      BY <2>1, <2>4, <3>2, ReceiveMoves, LookupMoves, InsertFailsMoves
  <2>5. QED
    BY <1>6, <2>3, <2>4 DEF InserterStep, History!Inserter
<1>7. CASE TidierStep \/ LogError \/ Tick \/ UNCHANGED vars
  BY <1>7, OthersMoveNothing
     DEF TidierStep, LogError, Tick, vars, schedulerVars, Checker!LogError, Checker!Tick,
         History!StartTidy, History!RemoveOne, History!EndTidy
<1>8. QED
  BY <1>1, <1>2, <1>3, <1>4, <1>5, <1>6, <1>7 DEF Next

-----------------------------------------------------------------------------
(* What the readers scrape fits what CheckHistory expects to arrive.       *)

Responses == {getHealthCheckForPod(a) : a \in PodAnswers \ {NullBody}}

Fits(r) ==
    /\ r.checkTime <= clock
    /\ r.pods <= MaxPods
    /\ Len(r.podHealthResponses) <= r.pods
    /\ \A k \in 1..Len(r.podHealthResponses) : r.podHealthResponses[k] \in Responses

ReadersInv == \A i \in Readers : reader[i].step = "scrape" => Fits(reader[i])

LEMMA ScrapedResponse ==
    ASSUME NEW answer \in PodAnswers, answer # Checker!NullBody
    PROVE  Checker!getHealthCheckForPod(answer) \in Responses
<1>1. Checker!getHealthCheckForPod(answer) = getHealthCheckForPod(answer)
  BY DEF Checker!getHealthCheckForPod, getHealthCheckForPod, Checker!FailedAnswers,
     FailedAnswers, Checker!NoError, NoError
<1>2. answer # NullBody
  BY DEF Checker!NullBody, NullBody
<1>3. QED
  BY <1>1, <1>2 DEF Responses

LEMMA ReadersInvStep ==
    ASSUME Checker!TypeOK, ReadersInv, [Next]_vars PROVE ReadersInv'
<1>1. ASSUME NEW i \in Readers, NEW r, reader' = [reader EXCEPT ![i] = r], clock' = clock,
             r.step = "scrape" => Fits(r)
      PROVE  ReadersInv'
  <2>1. ASSUME NEW j \in Readers, reader'[j].step = "scrape" PROVE Fits(reader[j])'
    <3>1. CASE j = i
      BY <1>1, <2>1, <3>1 DEF Checker!TypeOK, Fits
    <3>2. CASE j # i
      BY <1>1, <2>1, <3>2 DEF Checker!TypeOK, ReadersInv, Fits
    <3>3. QED
      BY <3>1, <3>2
  <2>2. QED
    BY <2>1 DEF ReadersInv
<1>2. ASSUME NEW i \in Readers, ReaderStep(i) PROVE ReadersInv'
  <2>1. CASE Checker!TakeService(i) \/ Checker!ListPodsFails(i) \/ Checker!Report(i)
    BY <1>1, <2>1 DEF Checker!TakeService, Checker!ListPodsFails, Checker!Report, Checker!Idle
  <2>2. ASSUME NEW n \in 0..MaxPods, Checker!ListPods(i, n) PROVE ReadersInv'
    <3>1. PICK r : r = Checker!ScrapeOf(reader[i].service, clock, n, <<>>, 0, 0)
      OBVIOUS
    <3>2. r.checkTime = clock /\ r.pods = n /\ r.podHealthResponses = <<>> /\ clock \in Nat
      BY <3>1 DEF Checker!ScrapeOf, Checker!TypeOK
    <3>3. Fits(r)
      BY <3>2 DEF Fits
    <3>4. reader' = [reader EXCEPT ![i] = r] /\ clock' = clock
      BY <2>2, <3>1 DEF Checker!ListPods
    <3>5. QED
      BY <1>1, <3>3, <3>4
  <2>3. ASSUME NEW answer \in PodAnswers, Checker!ScrapePod(i, answer) PROVE ReadersInv'
    <3> DEFINE p == reader[i].podHealthResponses
    <3>1. PICK response, u, h, r :
             /\ response \in Responses
             /\ r = Checker!ScrapeOf(reader[i].service, reader[i].checkTime, reader[i].pods,
                                     Append(p, response), u, h)
             /\ reader' = [reader EXCEPT ![i] = r]
      BY <2>3, ScrapedResponse DEF Checker!ScrapePod
    <3>2. /\ reader[i].step = "scrape" /\ Len(p) < reader[i].pods /\ clock' = clock
          /\ reader[i] \in Checker!Scraping
      BY <2>3 DEF Checker!ScrapePod, Checker!PodsLeft, Checker!TypeOK, Checker!Idle
    <3>3. p \in Seq(Checker!PodHealthResponses) /\ reader[i].pods \in Nat
      BY <3>2 DEF Checker!Scraping
    <3>4. Fits(reader[i])
      BY <3>2 DEF ReadersInv
    <3>5. /\ r.checkTime = reader[i].checkTime /\ r.pods = reader[i].pods
          /\ r.podHealthResponses = Append(p, response)
      BY <3>1 DEF Checker!ScrapeOf
    <3> HIDE DEF p
    <3>6. /\ Len(Append(p, response)) = Len(p) + 1 /\ Len(p) \in Nat
          /\ \A k \in 1..Len(p) : Append(p, response)[k] = p[k]
          /\ Append(p, response)[Len(p) + 1] = response
      BY <3>3
    <3>7. \A k \in 1..Len(p) : p[k] \in Responses
      BY <3>4 DEF Fits, p
    <3>8. \A k \in 1..(Len(p) + 1) : Append(p, response)[k] \in Responses
      BY <3>1, <3>6, <3>7
    <3>9. Fits(r)
      BY <3>2, <3>3, <3>4, <3>5, <3>6, <3>8 DEF Fits
    <3>10. QED
      BY <1>1, <3>1, <3>2, <3>9
  <2>4. QED
    BY <1>2, <2>1, <2>2, <2>3 DEF ReaderStep
<1>3. CASE Crash
  BY <1>3 DEF Crash, Checker!LoseMemory, ReadersInv, Checker!Idle
<1>4. ASSUME reader' = reader, clock' = clock \/ clock' = clock + 1 PROVE ReadersInv'
  <2>1. ASSUME NEW i \in Readers, reader[i].step = "scrape" PROVE Fits(reader[i])'
    <3>1. reader[i] \in Checker!Scraping /\ clock \in Nat
      BY <2>1 DEF Checker!TypeOK, Checker!Idle
    <3>2. reader[i].checkTime \in Nat /\ Fits(reader[i])
      BY <2>1, <3>1 DEF Checker!Scraping, ReadersInv
    <3>3. QED
      BY <1>4, <3>1, <3>2 DEF Fits
  <2>2. QED
    BY <1>4, <2>1 DEF ReadersInv
<1>5. QED
  BY <1>2, <1>3, <1>4
     DEF Next, PanicOnNullBody, StartRound, FindFails, Enqueue, EndRound, InserterStep, TidierStep,
         LogError, Tick, vars, Checker!QueueService, Checker!LogError, Checker!Tick, History!Inserter,
         History!Receive, History!Lookup, History!LookupFails, History!Insert, History!InsertFails,
         History!StartTidy, History!RemoveOne, History!EndTidy

(* There is room for every status among the checks CheckHistory expects.   *)
LEMMA RoomForStatus ==
    ASSUME SchedulerInv, Checker!TypeOK, JobsInv, NEW i \in Readers, reader[i] # Checker!Idle
    PROVE  Cardinality(inserted) + Len(statusResponses) < MaxChecks
<1> DEFINE s == reader[i].service
           others == recorded \cup Reported
<1>1. s \in Scraped
  BY DEF Scraped, Checker!Busy
<1> HIDE DEF s
<1>2. s \in ServiceCopies /\ others \subseteq ServiceCopies
  BY <1>1, PlacesAreFinite DEF Held
<1>3. s \notin others /\ recorded \cap Reported = {}
  BY <1>1 DEF JobsInv, PlacesInv, Disjoint
<1>4. IsFiniteSet(others) /\ Cardinality(others) = Cardinality(recorded) + Cardinality(Reported)
  <2>1. Cardinality(others) = Cardinality(recorded) + Cardinality(Reported)
                                 - Cardinality(recorded \cap Reported)
        /\ IsFiniteSet(others)
    BY PlacesAreFinite, FS_Union
  <2>2. Cardinality(recorded \cap Reported) = 0
    BY <1>3, FS_EmptySet
  <2>3. Cardinality(recorded) \in Nat /\ Cardinality(Reported) \in Nat
    BY PlacesAreFinite
  <2>4. QED
    BY <2>1, <2>2, <2>3
<1> HIDE DEF others
<1>5. Cardinality(others \cup {s}) = Cardinality(others) + 1
  BY <1>3, <1>4, FS_AddElement
<1>6. Cardinality(others \cup {s}) <= Cardinality(ServiceCopies)
  <2>1. others \cup {s} \in SUBSET ServiceCopies
    BY <1>2
  <2>2. QED
    BY <2>1, CopiesAreFinite, FS_Subset
<1>7. /\ Cardinality(inserted) \in Nat /\ Cardinality(inserted) <= Cardinality(recorded)
      /\ Len(statusResponses) = Cardinality(Reported)
  BY FS_CardinalityType DEF JobsInv, InsertedInv, StatusesInv
<1>8. QED
  BY <1>4, <1>5, <1>6, <1>7, PlacesAreFinite, CopiesAreFinite DEF MaxChecks

LEMMA ReportArrives ==
    ASSUME SchedulerInv, Checker!TypeOK, Checker!TypeOK', Checker!ScrapeInv, ReadersInv, JobsInv,
           NEW i \in Readers, Checker!Report(i),
           UNCHANGED <<inserter, checks, tidy, inserted, disturbed>>
    PROVE  History!Environment
<1> DEFINE r == reader[i]
           verdict == Checker!Verdict(r.service.desiredReplicas, r.podHealthResponses,
                                     r.noOfUnavailablePods)
           details == [healthyPods |-> r.noOfHealthyPods, podChecks |-> r.podHealthResponses,
                       error |-> verdict.error]
           status == [service |-> r.service, checkTime |-> r.checkTime,
                      aggregatedState |-> verdict.state,
                      stateSince |-> History!ZeroTime, previousState |-> History!NoState,
                      details |-> details]
<1>1. /\ r \in Checker!Scraping /\ r # Checker!Idle /\ Fits(r)
      /\ r.noOfHealthyPods + r.noOfUnavailablePods = Len(r.podHealthResponses)
  BY DEF Checker!Report, Checker!TypeOK, Checker!Idle, Checker!ScrapeInv, ReadersInv
<1>2. statusResponses' = Append(statusResponses, status)
  BY DEF Checker!Report, Checker!ServiceStatus, Checker!ZeroTime, Checker!NoState,
         History!ZeroTime, History!NoState
<1>3. status \in Checker!ServiceStatuses
  <2> HIDE DEF status
  <2>1. /\ statusResponses \in Seq(Checker!ServiceStatuses)
        /\ Append(statusResponses, status) \in Seq(Checker!ServiceStatuses)
    BY <1>2 DEF Checker!TypeOK
  <2>2. Append(statusResponses, status)[Len(statusResponses) + 1] = status
    BY <2>1
  <2>3. Len(statusResponses) + 1 \in 1..Len(Append(statusResponses, status))
    BY <2>1
  <2>4. QED
    BY <2>1, <2>2, <2>3
<1>4. verdict.state \in AggregatedStates /\ details.error \in Messages
  <2>1. /\ status.aggregatedState \in Checker!AggregatedStates
        /\ status.details.error \in Checker!Messages
    <3> HIDE DEF status
    <3>1. QED
      BY <1>3 DEF Checker!ServiceStatuses, Checker!ScrapeDetails
  <2>2. status.aggregatedState = verdict.state /\ status.details.error = details.error
    <3> HIDE DEF verdict, details
    <3>1. QED
      OBVIOUS
  <2>3. Checker!AggregatedStates = AggregatedStates /\ Checker!Messages = Messages
    BY DEF Checker!AggregatedStates, AggregatedStates, Checker!Messages, Messages,
       Checker!NoError, NoError
  <2> HIDE DEF verdict, details, status
  <2>4. QED
    BY <2>1, <2>2, <2>3
<1>5. r.noOfHealthyPods \in 0..MaxPods /\ Len(r.podHealthResponses) \in 0..MaxPods
  BY <1>1 DEF Fits, Checker!Scraping
<1>6. r.podHealthResponses \in [1..Len(r.podHealthResponses) -> Responses]
  BY <1>1 DEF Fits, Checker!Scraping
<1>7. details \in Details
  <2> DEFINE podChecks == UNION {[1..n -> Responses] : n \in 0..MaxPods}
  <2>1. r.podHealthResponses \in podChecks
    BY <1>5, <1>6
  <2>2. Details = [healthyPods : 0..MaxPods, error : Messages, podChecks : podChecks]
    BY DEF Details, Responses
  <2>3. details.error \in Messages
    BY <1>4
  <2> HIDE DEF podChecks, verdict
  <2>4. QED
    BY <1>5, <2>1, <2>2, <2>3
<1>8. r.service \in ServiceCopies /\ r.checkTime \in 0..clock
  BY <1>1 DEF Fits, Checker!Scraping, Checker!TypeOK
<1>9. History!Cardinality(inserted) + Len(statusResponses) < MaxChecks
  <2>1. History!Cardinality(inserted) = Cardinality(inserted)
    BY Zenon DEF History!Cardinality, Cardinality
  <2>2. QED
    BY <1>1, <2>1, RoomForStatus
<1> DEFINE state == verdict.state
<1>10. state \in AggregatedStates
  BY <1>4
<1> HIDE DEF state, details
<1>11. statusResponses' = Append(statusResponses,
           [service |-> r.service, checkTime |-> r.checkTime, aggregatedState |-> state,
            stateSince |-> History!ZeroTime, previousState |-> History!NoState, details |-> details])
  BY <1>2 DEF state
<1>12. History!Arrive(r.service, r.checkTime, state, details)
  BY <1>9, <1>11 DEF History!Arrive, Checker!Report
<1>13. QED
  BY <1>7, <1>8, <1>10, <1>12 DEF History!Environment

LEMMA HistoryStep ==
    ASSUME SchedulerInv, Checker!TypeOK, Checker!TypeOK', Checker!ScrapeInv, ReadersInv, JobsInv,
           [Next]_vars
    PROVE  [History!Next]_historyVars
<1>1. CASE Crash
  BY <1>1 DEF Crash, Checker!LoseMemory, History!Next, History!Environment
<1>2. ASSUME NEW i \in Readers, ReaderStep(i) PROVE [History!Next]_historyVars
  <2>1. UNCHANGED <<inserter, checks, tidy, inserted, disturbed>>
    BY <1>2 DEF ReaderStep
  <2>2. CASE Checker!Report(i)
    BY <2>1, <2>2, ReportArrives DEF History!Next
  <2>3. CASE ~Checker!Report(i)
    BY <1>2, <2>1, <2>3
       DEF ReaderStep, historyVars, Checker!TakeService, Checker!ListPods, Checker!ListPodsFails,
           Checker!ScrapePod
  <2>4. QED
    BY <2>2, <2>3
<1>3. CASE InserterStep \/ TidierStep
  BY <1>3 DEF InserterStep, TidierStep, History!Next, History!Tidier
<1>4. CASE Tick
  BY <1>4 DEF Tick, Checker!Tick, History!Tick, History!Next, History!Environment
<1>5. CASE StartRound \/ FindFails \/ Enqueue \/ EndRound \/ LogError \/ UNCHANGED vars
  BY <1>5 DEF StartRound, FindFails, Enqueue, EndRound, LogError, vars, historyVars,
     Checker!QueueService, Checker!LogError
<1>6. QED
  BY <1>1, <1>2, <1>3, <1>4, <1>5 DEF Next, PanicOnNullBody

(* CheckHistoryProofs assumes no more of its constants than there is.      *)
LEMMA HistoryTypesStep ==
    History!TypeOK /\ [History!Next]_historyVars => History!TypeOK'
<1>1. HistoryProofs!NoState \notin AggregatedStates
  BY DEF HistoryProofs!NoState, AggregatedStates
<1>2. StatusCap \in Nat \ {0}
  OBVIOUS
<1>3. Retention \in Nat
  OBVIOUS
<1>4. MaxTime \in Nat /\ MaxChecks \in Nat
  BY CopiesAreFinite DEF MaxChecks
<1>5. HistoryProofs!TypeOK /\ [HistoryProofs!Next]_HistoryProofs!vars => HistoryProofs!TypeOK'
  BY <1>1, <1>2, <1>3, <1>4, HistoryProofs!TypeOKStep
<1>6. [History!Next]_historyVars => [HistoryProofs!Next]_HistoryProofs!vars
  BY Zenon, SameHistoryNext DEF historyVars, HistoryProofs!vars
<1>7. QED
  BY <1>5, <1>6, SameHistoryTypes, PTL

LEMMA JobsInvInit == Init => History!TypeOK /\ JobsInv /\ ReadersInv
<1> SUFFICES ASSUME Init PROVE History!TypeOK /\ JobsInv /\ ReadersInv
  OBVIOUS
<1>1. /\ servicesToScrape = <<>> /\ statusResponses = <<>> /\ inserted = {} /\ scheduled = {}
      /\ recorded = {}
      /\ inserter = History!Receiving /\ scheduler = Waiting
      /\ reader = [i \in Readers |-> Checker!Idle]
  BY DEF Init, Checker!Init, History!Init
<1>2. Left = {} /\ Inserting = {}
  BY <1>1 DEF Left, Inserting
<1>3. Queued = {} /\ QueueInv /\ Reported = {} /\ ServicesIn(statusResponses) = <<>>
  BY <1>1 DEF Queued, QueueInv, OneEach, Reported, Range, ServicesIn
<1>4. StatusesInv
  BY <1>1, <1>3, FS_EmptySet DEF StatusesInv, OneEach
<1>5. Scraped = {} /\ ReadersApart /\ ReadersInv
  BY <1>1 DEF Scraped, ReadersApart, ReadersInv, Checker!Busy, Checker!Idle
<1>6. recorded = {} /\ InsertedInv
  BY <1>1, FS_EmptySet DEF InsertedInv
<1>7. PlacesInv
  BY <1>2, <1>3, <1>5, <1>6 DEF PlacesInv, Disjoint, Held
<1>8. History!TypeOK
  BY DEF Init, History!Init, History!TypeOK, History!Receiving
<1>9. QED
  BY <1>3, <1>4, <1>5, <1>6, <1>7, <1>8 DEF JobsInv

LEMMA PipelineInvariant == Spec => [](History!TypeOK /\ JobsInv /\ ReadersInv)
<1> DEFINE Given == SchedulerInv /\ Checker!TypeOK /\ Checker!ScrapeInv
           Inv == History!TypeOK /\ JobsInv /\ ReadersInv
<1>1. Given /\ Given' /\ Inv /\ [Next]_vars => Inv'
  BY JobsInvStep, ReadersInvStep, HistoryStep, HistoryTypesStep
<1>2. Init => Inv
  BY JobsInvInit
<1>3. Spec => []Given
  BY SchedulerInvariant, CheckerTypes, PTL
<1> HIDE DEF Given, Inv
<1>4. Spec => []Inv
  BY <1>1, <1>2, <1>3, PTL DEF Spec
<1>5. QED
  BY <1>4 DEF Inv

(* What CheckHistory assumes of the rest of the program is what the rest   *)
(* of the program does: whatever is proved of CheckHistory alone, for any  *)
(* statuses that arrive, holds in the pipeline (main.go:178-190).          *)
THEOREM PipelineImplementsHistory == Spec => ImplementsHistory
<1>1. Init => History!Init
  BY DEF Init
<1>2. SchedulerInv /\ (Checker!TypeOK /\ Checker!TypeOK') /\ Checker!ScrapeInv /\ ReadersInv /\ JobsInv
         /\ [Next]_vars => [History!Next]_History!vars
  BY HistoryStep DEF History!vars, historyVars
<1>3. QED
  BY <1>1, <1>2, SchedulerInvariant, CheckerTypes, PipelineInvariant, PTL
     DEF Spec, ImplementsHistory, History!Spec

(* Queueing, scraping and storing a service is one job: it is recorded at  *)
(* most once or given up, and never comes back: the safety half of         *)
(* ImplementsJobs, for any number of everything.                           *)
THEOREM JobsAreDoneAtMostOnce == Spec => Jobs!SafeSpec
<1>1. Init => Jobs!Init
  <2>1. Init => Left = {} /\ Inserting = {}
    BY DEF Init, History!Init, Left, Inserting
  <2>2. Init => Queued = {} /\ Reported = {} /\ recorded = {} /\ scheduled = {}
    BY DEF Init, Checker!Init, History!Init, Queued, Reported, Range
  <2>3. Init => Scraped = {}
    BY DEF Init, Checker!Init, Scraped, Checker!Busy
  <2>4. QED
    BY <2>1, <2>2, <2>3 DEF Jobs!Init, Held
<1>2. SchedulerInv /\ (Checker!TypeOK /\ Checker!TypeOK') /\ History!TypeOK /\ JobsInv
         /\ [Next]_vars => [Jobs!Next]_Jobs!vars
  BY JobsInvStep DEF JobStep
<1>3. QED
  BY <1>1, <1>2, SchedulerInvariant, CheckerTypes, PipelineInvariant, PTL DEF Spec, Jobs!SafeSpec

-----------------------------------------------------------------------------
(* The latest checks.                                                      *)

(* Every order of a finite set has all of it, and nothing else.            *)
LEMMA OrderHasAll ==
    ASSUME NEW S, IsFiniteSet(S), NEW order \in SetToSeqs(S)
    PROVE  /\ order \in Seq(S) /\ Len(order) = Cardinality(S) /\ Cardinality(S) \in Nat
           /\ \A x \in S : \E k \in 1..Len(order) : order[k] = x
<1> DEFINE n == Cardinality(S)
<1>1. n \in Nat
  BY FS_CardinalityType
<1>2. order \in [1..n -> S] /\ \A j, k \in 1..n : j # k => order[j] # order[k]
  BY DEF SetToSeqs
<1>3. order \in Seq(S) /\ Len(order) = n /\ DOMAIN order = 1..n
  BY <1>1, <1>2
<1>4. \A j, k \in 1..n : order[j] = order[k] => j = k
  BY <1>2
<1>5. Cardinality(1..n) = n
  BY <1>1, FS_Interval
<1> HIDE DEF n
<1>6. order \in Injection(1..n, S)
  BY <1>2, <1>4 DEF Injection, IsInjective
<1>7. order \in Surjection(1..n, S)
  BY <1>5, <1>6, FS_Injection DEF n
<1>8. \A x \in S : \E k \in 1..n : order[k] = x
  BY <1>7 DEF Surjection
<1>9. QED
  BY <1>1, <1>3, <1>8 DEF n

(* The first in an order by time is as late as any.                        *)
LEMMA FirstIsLatest ==
    ASSUME NEW S, IsFiniteSet(S), S # {}, \A c \in S : c.checkTime \in Nat,
           NEW order \in ByTime(S)
    PROVE  order[1] \in S /\ \A c \in S : c.checkTime <= order[1].checkTime
<1>1. order \in SetToSeqs(S)
  BY DEF ByTime
<1>2. order \in Seq(S) /\ \A x \in S : \E k \in 1..Len(order) : order[k] = x
  BY <1>1, OrderHasAll
<1>3. DOMAIN order = 1..Len(order) /\ 1 \in 1..Len(order)
  BY <1>2
<1>4. \A j, k \in 1..Len(order) : j < k => order[j].checkTime >= order[k].checkTime
  BY <1>3 DEF ByTime
<1>5. order[1] \in S
  BY <1>2, <1>3
<1>6. ASSUME NEW c \in S PROVE c.checkTime <= order[1].checkTime
  <2>1. PICK k \in 1..Len(order) : order[k] = c
    BY <1>2
  <2>2. CASE k = 1
    BY <2>1, <2>2
  <2>3. CASE k # 1
    <3>1. order[1].checkTime >= order[k].checkTime
      BY <1>2, <1>3, <1>4, <2>3
    <3>2. QED
      BY <1>5, <2>1, <3>1
  <2>4. QED
    BY <2>2, <2>3
<1>7. QED
  BY <1>5, <1>6

LEMMA FirstOfPrefix ==
    ASSUME NEW S, NEW seq \in Seq(S), NEW n \in Nat, n <= Len(seq), SubSeq(seq, 1, n) # <<>>
    PROVE  n >= 1 /\ SubSeq(seq, 1, n)[1] = seq[1]
OBVIOUS

(* The collection holds what was inserted, and restricted rounds find no   *)
(* service without replicas.                                               *)
ChecksInv ==
    /\ checks \subseteq inserted
    /\ RestrictToNamespaces # {} => \A c \in scheduled : c.desiredReplicas > 0

LEMMA RestrictedRoundFinds ==
    ASSUME RestrictToNamespaces # {}, \A c \in scheduled : c.desiredReplicas > 0, StartRound
    PROVE  \A c \in scheduled' : c.desiredReplicas > 0
<1>1. PICK documents :
         scheduled' = scheduled \cup
             {Copy(d, d.desiredReplicas, round + 1) :
                 d \in FindAllServicesWithHealthScrapeEnabled(documents, RestrictToNamespaces)}
  BY DEF StartRound
<1>2. \A d \in FindAllServicesWithHealthScrapeEnabled(documents, RestrictToNamespaces) :
         d.desiredReplicas > 0
  BY DEF FindAllServicesWithHealthScrapeEnabled
<1>3. QED
  BY <1>1, <1>2 DEF Copy

LEMMA ChecksInvariant == Spec => []ChecksInv
<1>1. Init => ChecksInv
  BY DEF Init, History!Init, ChecksInv
<1>2. ChecksInv /\ [Next]_vars => ChecksInv'
  <2> SUFFICES ASSUME ChecksInv, [Next]_vars PROVE ChecksInv'
    OBVIOUS
  <2>1. CASE StartRound
    <3>1. RestrictToNamespaces # {} => \A c \in scheduled' : c.desiredReplicas > 0
      BY <2>1, RestrictedRoundFinds DEF ChecksInv
    <3>2. UNCHANGED <<checks, inserted>>
      BY <2>1 DEF StartRound
    <3>3. QED
      BY <3>1, <3>2 DEF ChecksInv
  <2>2. CASE InserterStep \/ TidierStep
    <3>1. scheduled' = scheduled
      BY <2>2 DEF InserterStep, TidierStep, schedulerVars
    <3>2. checks' \subseteq inserted'
      BY <2>2 DEF ChecksInv, InserterStep, TidierStep, History!Inserter, History!Receive,
         History!Lookup, History!LookupFails, History!Insert, History!InsertFails,
         History!StartTidy, History!RemoveOne, History!EndTidy
    <3>3. QED
      BY <3>1, <3>2 DEF ChecksInv
  <2>3. ASSUME UNCHANGED <<checks, inserted, scheduled>> PROVE ChecksInv'
    BY <2>3 DEF ChecksInv
  <2>4. CASE Crash
    <3>1. checks' \subseteq inserted' /\ scheduled' = scheduled
      BY <2>4 DEF ChecksInv, Crash, History!Restart
    <3>2. QED
      BY <3>1 DEF ChecksInv
  <2>5. QED
    BY <2>1, <2>2, <2>3, <2>4
       DEF Next, FindFails, Enqueue, EndRound, ReaderStep, PanicOnNullBody, LogError, Tick,
           schedulerVars, vars
<1>3. QED
  BY <1>1, <1>2, PTL DEF Spec

LEMMA LatestOfSound ==
    ASSUME SchedulerInv, JobsInv, History!TypeOK, ChecksInv
    PROVE  LatestChecksAreLatest
<1> SUFFICES ASSUME RestrictToNamespaces # {}, NEW s \in Services
             PROVE  LET running == {Service(t.namespace, t.name, "true", 1) : t \in Services}
                        latest == FindLatestChecksForNamespace(running, checks, s.namespace)
                    IN \A all \in FindAllChecksForService(checks, s.namespace, s.name) :
                          all # <<>> => /\ s.name \in DOMAIN latest
                                        /\ \A c \in latest[s.name] : c.checkTime = all[1].checkTime
  BY DEF LatestChecksAreLatest
<1> DEFINE running == {Service(t.namespace, t.name, "true", 1) : t \in Services}
           latest == FindLatestChecksForNamespace(running, checks, s.namespace)
           names == {t.name : t \in FindAllServicesWithHealthScrapeEnabled(running, {s.namespace})}
           matched == {c \in checks : /\ c.service.name \in names
                                      /\ c.service.namespace = s.namespace
                                      /\ c.service.desiredReplicas > 0}
           found == {c \in checks : c.service.namespace = s.namespace /\ c.service.name = s.name}
<1>1. s.name \in names
  <2>1. Service(s.namespace, s.name, "true", 1) \in running
    OBVIOUS
  <2>2. Service(s.namespace, s.name, "true", 1) \in
           FindAllServicesWithHealthScrapeEnabled(running, {s.namespace})
    BY <2>1 DEF FindAllServicesWithHealthScrapeEnabled, Service
  <2>3. Service(s.namespace, s.name, "true", 1).name = s.name
    BY DEF Service
  <2>4. QED
    BY <2>2, <2>3
<1>2. \A c \in checks : c.service.desiredReplicas > 0
  <2>1. \A c \in checks : c.service \in scheduled
    BY DEF ChecksInv, JobsInv, PlacesInv, InsertedInv
  <2>2. QED
    BY <2>1 DEF ChecksInv
<1> HIDE DEF names
<1>3. {c \in matched : c.service.name = s.name} = found
  BY <1>1, <1>2
<1>4. IsFiniteSet(found) /\ \A c \in found : c.checkTime \in Nat
  <2>1. found \in SUBSET inserted /\ IsFiniteSet(inserted)
    BY DEF ChecksInv, JobsInv, InsertedInv
  <2>2. \A c \in found : c.checkTime \in Nat
    BY DEF History!TypeOK, History!Checks
  <2>3. QED
    BY <2>1, <2>2, FS_Subset
<1>5. latest = [name \in {c.service.name : c \in matched} |->
                   {order[1] : order \in ByTime({c \in matched : c.service.name = name})}]
  BY DEF FindLatestChecksForNamespace, names
<1> HIDE DEF latest, matched
<1>6. ASSUME NEW all \in FindAllChecksForService(checks, s.namespace, s.name), all # <<>>
      PROVE  s.name \in DOMAIN latest /\ \A c \in latest[s.name] : c.checkTime = all[1].checkTime
  <2>1. PICK order \in ByTime(found) :
           all = SubSeq(order, 1, IF Len(order) < 50 THEN Len(order) ELSE 50)
    BY <1>6 DEF FindAllChecksForService
  <2>2. order \in Seq(found) /\ Len(order) \in Nat
    <3>1. order \in Seq(found)
      BY <1>4, OrderHasAll DEF ByTime
    <3>2. QED
      BY <3>1
  <2> DEFINE n == IF Len(order) < 50 THEN Len(order) ELSE 50
  <2>3. n \in Nat /\ n <= Len(order)
    BY <2>2
  <2> HIDE DEF n, found
  <2>4. all = SubSeq(order, 1, n)
    BY <2>1 DEF n
  <2>5. n >= 1 /\ all[1] = order[1]
    BY <1>6, <2>2, <2>3, <2>4, FirstOfPrefix
  <2>6. order[1] \in found
    BY <2>2, <2>3, <2>5
  <2>7. order[1] \in found /\ \A c \in found : c.checkTime <= order[1].checkTime
    BY <1>4, <2>6, FirstIsLatest
  <2>8. s.name \in {c.service.name : c \in matched}
    BY <1>3, <2>6
  <2>9. s.name \in DOMAIN latest /\ latest[s.name] = {o[1] : o \in ByTime(found)}
    BY <1>3, <1>5, <2>8
  <2>10. ASSUME NEW o \in ByTime(found) PROVE o[1].checkTime = order[1].checkTime
    <3>1. o[1] \in found /\ \A c \in found : c.checkTime <= o[1].checkTime
      BY <1>4, <2>6, FirstIsLatest
    <3>2. o[1].checkTime \in Nat /\ order[1].checkTime \in Nat
      BY <1>4, <2>6, <3>1
    <3>3. QED
      BY <2>7, <3>1, <3>2
  <2>11. QED
    BY <2>5, <2>9, <2>10
<1>7. QED
  BY <1>6 DEF latest

(* Where scraping is restricted to namespaces, what is shown as a          *)
(* service's latest check is the first in the list of its checks, after    *)
(* any number of rounds, restarts and deletions (repository.go:316-364).   *)
THEOREM LatestIsAlwaysLatest == Spec => []LatestChecksAreLatest
BY LatestOfSound, SchedulerInvariant, PipelineInvariant, ChecksInvariant, PTL

-----------------------------------------------------------------------------
(* The components' own theorems, of the whole.                             *)

LEMMA SameCheckerProperties ==
    /\ Checker!InFlightCountsBusyReaders <=> CheckerProofs!InFlightCountsBusyReaders
    /\ Checker!VerdictMatchesAnswers <=> CheckerProofs!VerdictMatchesAnswers
<1>1. Checker!InFlightCountsBusyReaders <=> CheckerProofs!InFlightCountsBusyReaders
  BY Zenon DEF Checker!InFlightCountsBusyReaders, CheckerProofs!InFlightCountsBusyReaders,
     Checker!Busy, CheckerProofs!Busy, Checker!Idle, CheckerProofs!Idle,
     Checker!Cardinality, CheckerProofs!Cardinality
<1>2. Checker!VerdictMatchesAnswers <=> CheckerProofs!VerdictMatchesAnswers
  BY Zenon DEF Checker!VerdictMatchesAnswers, CheckerProofs!VerdictMatchesAnswers,
     Checker!StateByAnswers, CheckerProofs!StateByAnswers, Checker!Range, CheckerProofs!Range
<1>3. QED
  BY <1>1, <1>2

LEMMA SameHistoryProperties ==
    /\ History!StateSinceIsARealCheck <=> HistoryProofs!StateSinceIsARealCheck
    /\ History!RunsAreExact <=> HistoryProofs!RunsAreExact
<1>1. History!StateSinceIsARealCheck <=> HistoryProofs!StateSinceIsARealCheck
  BY Zenon DEF History!StateSinceIsARealCheck, HistoryProofs!StateSinceIsARealCheck,
     History!RunBegan, HistoryProofs!RunBegan, History!Key, HistoryProofs!Key
<1>2. History!RunsAreExact <=> HistoryProofs!RunsAreExact
  BY Zenon DEF History!RunsAreExact, HistoryProofs!RunsAreExact, History!Precedes,
     HistoryProofs!Precedes, History!ChecksOf, HistoryProofs!ChecksOf, History!Kept,
     HistoryProofs!Kept, History!Key, HistoryProofs!Key, History!Continues,
     HistoryProofs!Continues
<1>3. QED
  BY <1>1, <1>2

(* With every component at work, every status says what its pods answered  *)
(* and the gauge counts the busy readers (checks.go:64-150).               *)
THEOREM CheckerHoldsInThePipeline ==
    Spec => [](Checker!InFlightCountsBusyReaders /\ Checker!VerdictMatchesAnswers)
<1>1. \A s \in ServiceCopies : s.desiredReplicas \in Nat
  BY CopiesAreRecords
<1>2. PodAnswers \subseteq CheckerProofs!Answers
  BY DEF Answers, FailedAnswers, HealthTexts, NullBody, CheckerProofs!Answers,
     CheckerProofs!FailedAnswers, CheckerProofs!HealthTexts, CheckerProofs!NullBody
<1>3. Readers # {} /\ CheckerProofs!IsFiniteSet(Readers)
  BY Zenon DEF IsFiniteSet, CheckerProofs!IsFiniteSet
<1>4. MaxPods \in Nat
  OBVIOUS
<1>5. MaxTime \in Nat
  OBVIOUS
<1>6. {QueueCap, StatusCap, ErrsCap} \subseteq Nat \ {0}
  OBVIOUS
<1>7. CheckerProofs!Spec => []CheckerProofs!InFlightCountsBusyReaders
  BY <1>1, <1>2, <1>3, <1>4, <1>5, <1>6, CheckerProofs!InFlightIsBusyReaders
<1>8. CheckerProofs!Spec => []CheckerProofs!VerdictMatchesAnswers
  BY <1>1, <1>2, <1>3, <1>4, <1>5, <1>6, CheckerProofs!VerdictsAlwaysMatch
<1>9. QED
  BY <1>7, <1>8, PipelineImplementsChecker, SameCheckerSpec, SameCheckerProperties, PTL
     DEF ImplementsChecker

(* With every component at work, the stored checks of a service form runs  *)
(* that begin with a real check, and exact ones while its statuses come in *)
(* order (repository.go:222-261, 387).                                     *)
THEOREM HistoryHoldsInThePipeline ==
    Spec => [](History!StateSinceIsARealCheck /\ History!RunsAreExact)
<1>1. HistoryProofs!NoState \notin AggregatedStates
  BY DEF HistoryProofs!NoState, AggregatedStates
<1>2. StatusCap \in Nat \ {0}
  OBVIOUS
<1>3. Retention \in Nat
  OBVIOUS
<1>4. MaxTime \in Nat /\ MaxChecks \in Nat
  BY CopiesAreFinite DEF MaxChecks
<1>5. HistoryProofs!Spec => []HistoryProofs!StateSinceIsARealCheck
  BY <1>1, <1>2, <1>3, <1>4, HistoryProofs!StateSinceAlwaysReal
<1>6. HistoryProofs!Spec => []HistoryProofs!RunsAreExact
  BY <1>1, <1>2, <1>3, <1>4, HistoryProofs!RunsAreAlwaysExact
<1>7. QED
  BY <1>5, <1>6, PipelineImplementsHistory, SameHistorySpec, SameHistoryProperties, PTL
     DEF ImplementsHistory
=============================================================================
