--------------------------- MODULE ScrapePipeline ---------------------------
(***************************************************************************)
(* The scraping of services from end to end, as main.go wires it: a ticker *)
(* starts rounds that find the services to scrape and queue them           *)
(* (GetHealthchecks); the readers of HealthChecker take them and report    *)
(* statuses; the inserter of CheckHistory stores those, next to the        *)
(* deletion of old checks.  The components share the channels              *)
(* servicesToScrape, statusResponses and errs, the clock, and their death. *)
(***************************************************************************)
EXTENDS PodAggregation, Queries

CONSTANTS
    Readers, PodAnswers, MaxPods, QueueCap, StatusCap, ErrsCap, MaxTime, Retention,
    Services,    \* services of the collection: records with a namespace and a name
    Replicas,    \* the desired replicas their documents may hold
    RestrictToNamespaces,   \* the namespaces to scrape, all if there are none
    MaxRounds    \* bound: the most rounds that are started

ASSUME ReadersAssumption == Readers # {} /\ IsFiniteSet(Readers)
ASSUME PodAnswersAssumption == PodAnswers \subseteq Answers
ASSUME CapacityAssumption == {QueueCap, StatusCap, ErrsCap} \subseteq Nat \ {0}
ASSUME ServicesAssumption == IsFiniteSet(Services)
ASSUME ReplicasAssumption == Replicas \subseteq Nat /\ IsFiniteSet(Replicas)
ASSUME BoundsAssumption == {MaxPods, MaxTime, MaxRounds, Retention} \subseteq Nat

VARIABLES
    servicesToScrape, statusResponses, errs, reader, inFlight, clock,
    inserter, checks, tidy, inserted, disturbed,
    scheduler,   \* the goroutine of main.go:172-177, inside GetHealthchecks or not
    queuedServices,   \* the gauge of services that are queued
    round,       \* history: rounds started so far
    scheduled,   \* history: the service copies the rounds have found
    recorded     \* history: the service copies of all checks ever inserted

checkerVars == <<servicesToScrape, statusResponses, errs, reader, inFlight, clock>>
historyVars == <<statusResponses, inserter, checks, tidy, clock, inserted, disturbed>>
vars == <<servicesToScrape, statusResponses, errs, reader, inFlight, clock,
          inserter, checks, tidy, inserted, disturbed, scheduler, queuedServices, round, scheduled,
          recorded>>

schedulerVars == <<scheduler, queuedServices, round, scheduled>>

(* A copy of a service's document, marked with the round that read it.     *)
Copy(service, desiredReplicas, n) ==
    [namespace |-> service.namespace, name |-> service.name,
     desiredReplicas |-> desiredReplicas, round |-> n]

ServiceCopies ==
    {Copy(s, d, n) : s \in Services, d \in Replicas, n \in 1..MaxRounds}

Details ==
    LET responses == {getHealthCheckForPod(a) : a \in PodAnswers \ {NullBody}}
    IN [healthyPods : 0..MaxPods, error : Messages,
        podChecks : UNION {[1..n -> responses] : n \in 0..MaxPods}]

MaxChecks == Cardinality(ServiceCopies)

Checker == INSTANCE HealthChecker
History == INSTANCE CheckHistory WITH States <- AggregatedStates

Waiting == [step |-> "wait"]

Init ==
    /\ Checker!Init
    /\ History!Init
    /\ scheduler = Waiting
    /\ queuedServices = 0
    /\ round = 0
    /\ scheduled = {} /\ recorded = {}

(* Mutation of SendError: the send has no default branch and no limit.     *)
SendAnyError == errs' = errs + 1

SendError == errs' = IF errs < ErrsCap THEN errs + 1 ELSE errs

-----------------------------------------------------------------------------
(* The scheduler.  A tick that finds it busy waits or is dropped by the    *)
(* ticker, so rounds never overlap and may start at any time.              *)

(* The services to scrape are found, whatever their documents hold at the  *)
(* moment.  ServiceDocuments says what that may be.                        *)
StartRound ==
    /\ scheduler = Waiting
    /\ round < MaxRounds
    /\ round' = round + 1
    /\ \E enabled \in SUBSET Services, replicas \in [Services -> Replicas] :
          LET documents == {Service(s.namespace, s.name, IF s \in enabled THEN "true" ELSE "false",
                                    replicas[s]) : s \in Services}
              found == {Copy(d, d.desiredReplicas, round + 1) :
                           d \in FindAllServicesWithHealthScrapeEnabled(documents, RestrictToNamespaces)}
          IN /\ scheduler' = [step |-> "queue", left |-> found]
             /\ scheduled' = scheduled \cup found
    /\ UNCHANGED <<servicesToScrape, statusResponses, errs, reader, inFlight, clock,
                   inserter, checks, tidy, inserted, disturbed, recorded, queuedServices>>

FindFails ==
    /\ scheduler = Waiting
    /\ round < MaxRounds
    /\ round' = round + 1
    /\ SendError
    /\ UNCHANGED <<servicesToScrape, statusResponses, reader, inFlight, clock,
                   inserter, checks, tidy, inserted, disturbed, recorded, scheduler, queuedServices,
                   scheduled>>

(* Mutation of Enqueue: the service stays in the list.                     *)
EnqueueAgain ==
    /\ scheduler.step = "queue"
    /\ \E s \in scheduler.left : Checker!QueueService(s)
    /\ UNCHANGED <<inserter, checks, tidy, inserted, disturbed, recorded,
                   scheduler, queuedServices, round, scheduled>>

(* healthchecks <- s, which waits while the channel is full.  The services *)
(* are sorted by namespace only: any order of names is possible.           *)
Enqueue ==
    /\ scheduler.step = "queue"
    /\ \E s \in scheduler.left :
          /\ \A t \in scheduler.left : s.namespace <= t.namespace
          /\ Checker!QueueService(s)
          /\ scheduler' = [scheduler EXCEPT !.left = @ \ {s}]
    /\ UNCHANGED <<inserter, checks, tidy, inserted, disturbed, recorded,
                   queuedServices, round, scheduled>>

(* Mutation of EndRound: the gauge is not set.                             *)
EndRoundUnmeasured ==
    /\ scheduler.step = "queue"
    /\ scheduler.left = {}
    /\ scheduler' = Waiting
    /\ UNCHANGED <<servicesToScrape, statusResponses, errs, reader, inFlight, clock,
                   inserter, checks, tidy, inserted, disturbed, recorded, queuedServices, round,
                   scheduled>>

(* The gauge keeps what is queued now until the next round has ended.      *)
EndRound ==
    /\ scheduler.step = "queue"
    /\ scheduler.left = {}
    /\ scheduler' = Waiting
    /\ queuedServices' = Len(servicesToScrape)
    /\ UNCHANGED <<servicesToScrape, statusResponses, errs, reader, inFlight, clock,
                   inserter, checks, tidy, inserted, disturbed, recorded, round, scheduled>>

-----------------------------------------------------------------------------
(* The components, each leaving the others' variables alone.               *)

ReaderStep(i) ==
    /\ \/ Checker!TakeService(i)
       \/ \E n \in 0..MaxPods : Checker!ListPods(i, n)
       \/ Checker!ListPodsFails(i)
       \/ \E answer \in PodAnswers : Checker!ScrapePod(i, answer)
       \/ Checker!Report(i)
    /\ UNCHANGED <<inserter, checks, tidy, inserted, disturbed, recorded, schedulerVars>>

InserterStep ==
    /\ History!Inserter
    /\ recorded' = recorded \cup {c.service : c \in inserted'}
    /\ UNCHANGED <<servicesToScrape, errs, reader, inFlight, schedulerVars>>

(* A deletion that fails sends its error.                                  *)
TidierStep ==
    /\ \/ (History!StartTidy \/ History!RemoveOne \/ History!EndTidy) /\ UNCHANGED errs
       \/ History!EndTidy /\ SendError
    /\ UNCHANGED <<servicesToScrape, reader, inFlight, schedulerVars, recorded>>

LogError ==
    /\ Checker!LogError
    /\ UNCHANGED <<inserter, checks, tidy, inserted, disturbed, recorded, schedulerVars>>

Tick ==
    /\ Checker!Tick
    /\ UNCHANGED <<inserter, checks, tidy, inserted, disturbed, recorded, schedulerVars>>

(* The process ends, for any reason, and is started again, on the checks   *)
(* it had or on a database it has dropped.                                 *)
Crash ==
    /\ Checker!LoseMemory
    /\ History!Restart
    /\ scheduler' = Waiting
    /\ queuedServices' = 0
    /\ UNCHANGED <<round, scheduled, recorded>>

(* A pod that answers null is reason enough.                               *)
PanicOnNullBody(i) == Checker!PanicOnNullBody(i) /\ Crash

Next ==
    \/ StartRound \/ FindFails \/ Enqueue \/ EndRound
    \/ \E i \in Readers : ReaderStep(i) \/ PanicOnNullBody(i)
    \/ InserterStep \/ TidierStep \/ LogError \/ Tick \/ Crash

(* A goroutine that can run does: the scheduler in the middle of a round,  *)
(* each reader (a scrape is cut off after 10 seconds), the inserter.  No   *)
(* round has to start, nothing has to be deleted, time need not pass.      *)
Fairness ==
    /\ WF_vars(Enqueue \/ EndRound)
    /\ \A i \in Readers : WF_vars(ReaderStep(i))
    /\ WF_vars(InserterStep)

Spec == Init /\ [][Next]_vars /\ Fairness
-----------------------------------------------------------------------------
(* Properties.                                                             *)

(* The jobs in the process, wherever they are.                             *)
Left == IF scheduler = Waiting THEN {} ELSE scheduler.left
Queued == Range(servicesToScrape)
Scraped == {reader[i].service : i \in Checker!Busy}
Reported == {s.service : s \in Range(statusResponses)}
Inserting == IF inserter = History!Receiving THEN {} ELSE {inserter.status.service}
Held == Left \cup Queued \cup Scraped \cup Reported \cup Inserting

Jobs == INSTANCE CheckJobs WITH Jobs <- ServiceCopies, pending <- Held

(* Queueing, scraping and storing a service is one job: it is recorded at  *)
(* most once or given up, never comes back, and never waits for ever in a  *)
(* full channel or a blocked goroutine (repository.go:450, checks.go:86-   *)
(* 150, repository.go:222-261).                                            *)
ImplementsJobs == Jobs!Spec

(* What HealthChecker and CheckHistory assume of the rest of the program   *)
(* is what the rest of the program does: all that is shown of the two      *)
(* alone holds of them here.                                               *)
ImplementsChecker == Checker!Spec
ImplementsHistory == History!Spec

(* What is shown as a service's latest check is the first in the list of   *)
(* its checks, where scraping is restricted to namespaces: no round queues *)
(* a copy of a service without replicas, whose check the one query passes  *)
(* over and the other does not (repository.go:316, 334, 364).              *)
LatestChecksAreLatest ==
    RestrictToNamespaces # {} =>
        \A s \in Services :
            LET running == {Service(t.namespace, t.name, "true", 1) : t \in Services}
                latest == FindLatestChecksForNamespace(running, checks, s.namespace)
            IN \A all \in FindAllChecksForService(checks, s.namespace, s.name) :
                  all # <<>> => /\ s.name \in DOMAIN latest
                                /\ \A c \in latest[s.name] : c.checkTime = all[1].checkTime

(* Between rounds the gauge never says that less is queued than is, over   *)
(* rounds that fail and restarts; it may say more, for as long as a round  *)
(* is waited for (repository.go:450-453).                                  *)
GaugeCoversQueue == scheduler = Waiting => Len(servicesToScrape) <= queuedServices
=============================================================================
