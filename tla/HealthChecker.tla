--------------------------- MODULE HealthChecker ----------------------------
(***************************************************************************)
(* HealthChecker.DoHealthchecks (internal/checks/checks.go): a pool of     *)
(* readers takes services from the channel servicesToScrape, lists each    *)
(* one's pods, scrapes them one after the other and sends one              *)
(* ServiceStatus to the channel statusResponses.  The other ends of the    *)
(* three channels are environment actions here and are the real components *)
(* in ScrapePipeline.                                                      *)
(***************************************************************************)
EXTENDS PodAggregation, FiniteSets

CONSTANTS
    Readers,         \* the goroutines started by DoHealthchecks (100 in the code)
    ServiceCopies,   \* the service documents that may be queued
    PodAnswers,      \* the kinds of answers pods give
    MaxPods,         \* bound: the most pods a service has
    QueueCap,        \* capacity of servicesToScrape (1000)
    StatusCap,       \* capacity of statusResponses (1000)
    ErrsCap,         \* capacity of errs (10)
    MaxTime          \* bound: the clock stops here

ASSUME ReadersAssumption == Readers # {} /\ IsFiniteSet(Readers)
ASSUME ServiceCopiesAssumption == \A s \in ServiceCopies : s.desiredReplicas \in Nat
ASSUME PodAnswersAssumption == PodAnswers \subseteq Answers
ASSUME MaxPodsAssumption == MaxPods \in Nat
ASSUME CapacityAssumption == {QueueCap, StatusCap, ErrsCap} \subseteq Nat \ {0}
ASSUME MaxTimeAssumption == MaxTime \in Nat

VARIABLES
    servicesToScrape,   \* channel of services
    statusResponses,    \* channel of statuses
    errs,               \* how many errors the channel errs holds
    reader,             \* what each goroutine is doing
    inFlight,           \* the gauge health_aggregator_checks_in_flight
    clock               \* time.Now()

vars == <<servicesToScrape, statusResponses, errs, reader, inFlight, clock>>

Idle == [step |-> "idle"]
ScrapeOf(service, checkTime, pods, responses, unavailable, healthy) ==
    [step |-> "scrape", service |-> service, checkTime |-> checkTime, pods |-> pods,
     podHealthResponses |-> responses,
     noOfUnavailablePods |-> unavailable, noOfHealthyPods |-> healthy]

Busy == {i \in Readers : reader[i] # Idle}

(* The zero time and the empty state a ServiceStatus is created with; the  *)
(* inserter sets both fields (CheckHistory).                               *)
ZeroTime == -1
NoState == ""

ServiceStatus(service, checkTime, responses, noOfUnavailablePods, noOfHealthyPods) ==
    LET verdict == Verdict(service.desiredReplicas, responses, noOfUnavailablePods)
    IN [service |-> service, checkTime |-> checkTime,
        aggregatedState |-> verdict.state,
        stateSince |-> ZeroTime, previousState |-> NoState,
        details |-> [healthyPods |-> noOfHealthyPods, podChecks |-> responses,
                     error |-> verdict.error]]

Init ==
    /\ servicesToScrape = <<>>
    /\ statusResponses = <<>>
    /\ errs = 0
    /\ reader = [i \in Readers |-> Idle]
    /\ inFlight = 0
    /\ clock = 0

-----------------------------------------------------------------------------
(* The readers.                                                            *)

(* svc := range healthchecks; the gauge goes up.                           *)
TakeService(i) ==
    /\ reader[i] = Idle
    /\ servicesToScrape # <<>>
    /\ reader' = [reader EXCEPT ![i] = [step |-> "list", service |-> Head(servicesToScrape)]]
    /\ servicesToScrape' = Tail(servicesToScrape)
    /\ inFlight' = inFlight + 1
    /\ UNCHANGED <<statusResponses, errs, clock>>

(* Mutation of ListPods: the check time is rounded up.                     *)
ListPodsRoundingUp(i, n) ==
    /\ reader[i].step = "list"
    /\ reader' = [reader EXCEPT ![i] = ScrapeOf(@.service, clock + 1, n, <<>>, 0, 0)]
    /\ UNCHANGED <<servicesToScrape, statusResponses, errs, inFlight, clock>>

(* The check time is taken just before the pods are listed.                *)
ListPods(i, n) ==
    /\ reader[i].step = "list"
    /\ reader' = [reader EXCEPT ![i] = ScrapeOf(@.service, clock, n, <<>>, 0, 0)]
    /\ UNCHANGED <<servicesToScrape, statusResponses, errs, inFlight, clock>>

(* Mutation of ListPodsFails: the early continue leaves the gauge alone.   *)
ListPodsFailsLeaking(i) ==
    /\ reader[i].step = "list"
    /\ errs' = IF errs < ErrsCap THEN errs + 1 ELSE errs
    /\ reader' = [reader EXCEPT ![i] = Idle]
    /\ UNCHANGED <<servicesToScrape, statusResponses, inFlight, clock>>

(* The list fails: the error is dropped when errs is full, the job is over.*)
ListPodsFails(i) ==
    /\ reader[i].step = "list"
    /\ errs' = IF errs < ErrsCap THEN errs + 1 ELSE errs
    /\ reader' = [reader EXCEPT ![i] = Idle]
    /\ inFlight' = inFlight - 1
    /\ UNCHANGED <<servicesToScrape, statusResponses, clock>>

PodsLeft(i) == reader[i].step = "scrape" /\ Len(reader[i].podHealthResponses) < reader[i].pods

(* Mutation of ScrapePod: a pod counts as failed by its state, not by the  *)
(* error returned for it.                                                  *)
ScrapePodByState(i, answer) ==
    /\ PodsLeft(i)
    /\ answer # NullBody
    /\ LET response == getHealthCheckForPod(answer)
           failed == response.state = "unhealthy"
       IN reader' = [reader EXCEPT ![i] =
            ScrapeOf(@.service, @.checkTime, @.pods, Append(@.podHealthResponses, response),
                     @.noOfUnavailablePods + (IF failed THEN 1 ELSE 0),
                     @.noOfHealthyPods + (IF failed THEN 0 ELSE 1))]
    /\ UNCHANGED <<servicesToScrape, statusResponses, errs, inFlight, clock>>

ScrapePod(i, answer) ==
    /\ PodsLeft(i)
    /\ answer # NullBody
    /\ LET response == getHealthCheckForPod(answer)
           failed == response.error # NoError
       IN reader' = [reader EXCEPT ![i] =
            ScrapeOf(@.service, @.checkTime, @.pods, Append(@.podHealthResponses, response),
                     @.noOfUnavailablePods + (IF failed THEN 1 ELSE 0),
                     @.noOfHealthyPods + (IF failed THEN 0 ELSE 1))]
    /\ UNCHANGED <<servicesToScrape, statusResponses, errs, inFlight, clock>>

(* The status is sent, which waits while the channel is full; the gauge    *)
(* goes down.                                                              *)
Report(i) ==
    /\ reader[i].step = "scrape"
    /\ ~PodsLeft(i)
    /\ Len(statusResponses) < StatusCap
    /\ statusResponses' = Append(statusResponses,
            ServiceStatus(reader[i].service, reader[i].checkTime, reader[i].podHealthResponses,
                          reader[i].noOfUnavailablePods, reader[i].noOfHealthyPods))
    /\ reader' = [reader EXCEPT ![i] = Idle]
    /\ inFlight' = inFlight - 1
    /\ UNCHANGED <<servicesToScrape, errs, clock>>

(* Whatever the process held in memory is gone once it has been restarted. *)
LoseMemory ==
    /\ servicesToScrape' = <<>>
    /\ statusResponses' = <<>>
    /\ errs' = 0
    /\ reader' = [i \in Readers |-> Idle]
    /\ inFlight' = 0
    /\ UNCHANGED clock

(* A pod answers null: the reader's panic ends the whole process.          *)
PanicOnNullBody(i) ==
    /\ PodsLeft(i)
    /\ NullBody \in PodAnswers
    /\ LoseMemory

Reader(i) ==
    \/ TakeService(i)
    \/ \E n \in 0..MaxPods : ListPods(i, n)
    \/ ListPodsFails(i)
    \/ \E answer \in PodAnswers : ScrapePod(i, answer)
    \/ Report(i)
    \/ PanicOnNullBody(i)

-----------------------------------------------------------------------------
(* The rest of the program, and time.                                      *)

(* GetHealthchecks puts a service on the channel.                          *)
QueueService(s) ==
    /\ Len(servicesToScrape) < QueueCap
    /\ servicesToScrape' = Append(servicesToScrape, s)
    /\ UNCHANGED <<statusResponses, errs, reader, inFlight, clock>>

(* InsertHealthcheckResponses receives a status.                           *)
TakeStatus ==
    /\ statusResponses # <<>>
    /\ statusResponses' = Tail(statusResponses)
    /\ UNCHANGED <<servicesToScrape, errs, reader, inFlight, clock>>

(* Another component sends to errs, without blocking.                      *)
OtherError ==
    /\ errs < ErrsCap
    /\ errs' = errs + 1
    /\ UNCHANGED <<servicesToScrape, statusResponses, reader, inFlight, clock>>

(* The error logger of main.go:200-204 receives one.                       *)
LogError ==
    /\ errs > 0
    /\ errs' = errs - 1
    /\ UNCHANGED <<servicesToScrape, statusResponses, reader, inFlight, clock>>

Restart == LoseMemory

Tick ==
    /\ clock < MaxTime
    /\ clock' = clock + 1
    /\ UNCHANGED <<servicesToScrape, statusResponses, errs, reader, inFlight>>

Environment ==
    \/ \E s \in ServiceCopies : QueueService(s)
    \/ TakeStatus
    \/ OtherError
    \/ LogError
    \/ Restart
    \/ Tick

Next == (\E i \in Readers : Reader(i)) \/ Environment

Spec == Init /\ [][Next]_vars
-----------------------------------------------------------------------------
(* Properties.                                                             *)

ScrapeDetails ==
    [healthyPods : Nat, podChecks : Seq(PodHealthResponses), error : Messages]

ServiceStatuses ==
    [service : ServiceCopies, checkTime : Nat, aggregatedState : AggregatedStates,
     stateSince : {ZeroTime}, previousState : {NoState}, details : ScrapeDetails]

Scraping ==
    [step : {"scrape"}, service : ServiceCopies, checkTime : Nat, pods : Nat,
     podHealthResponses : Seq(PodHealthResponses),
     noOfUnavailablePods : Nat, noOfHealthyPods : Nat]

(* Every variable holds values of the program's types.                     *)
TypeOK ==
    /\ servicesToScrape \in Seq(ServiceCopies)
    /\ statusResponses \in Seq(ServiceStatuses)
    /\ errs \in Nat
    /\ reader \in [Readers -> {Idle} \cup [step : {"list"}, service : ServiceCopies] \cup Scraping]
    /\ inFlight \in Int
    /\ clock \in Nat

(* The gauge of checks in flight counts the readers holding a job, on      *)
(* every way out of the loop body (checks.go:66, 79, 87, 135, 139, 144,    *)
(* 150): no early continue leaks one.                                      *)
InFlightCountsBusyReaders == inFlight = Cardinality(Busy)

(* The state a service should have by the answers of its pods.             *)
StateByAnswers(desiredReplicas, podChecks) ==
    LET has(state) == \E r \in Range(podChecks) : r.state = state
    IN IF Len(podChecks) < desiredReplicas \/ podChecks = <<>> \/ has("unhealthy")
         THEN "unhealthy"
         ELSE IF has("degraded") THEN "degraded"
         ELSE IF has("healthy") \/ has("Healthy") THEN "healthy"
         ELSE "unknown"

(* A status says what the pods' answers say: the early return, the arms of *)
(* the switch and the priorities agree with the table above, in both       *)
(* directions; in particular a pod that could not be asked is never        *)
(* outvoted by pods that answered (checks.go:84, 132-149, 245-276).        *)
VerdictMatchesAnswers ==
    \A s \in Range(statusResponses) :
        s.aggregatedState = StateByAnswers(s.service.desiredReplicas, s.details.podChecks)

Healthy(podChecks) == {k \in DOMAIN podChecks : podChecks[k].error = NoError}

(* The number of healthy pods in a status is the number of its pod checks  *)
(* without an error: counts and checks come from the same scrape, on every *)
(* arm of the switch (checks.go:91-118).                                   *)
HealthyPodsMatchPodChecks ==
    \A s \in Range(statusResponses) :
        s.details.healthyPods = Cardinality(Healthy(s.details.podChecks))

(* While pods are being scraped the two counters split the answers so far. *)
ScrapeInv ==
    \A i \in Readers : reader[i].step = "scrape" =>
        /\ reader[i].noOfHealthyPods = Cardinality(Healthy(reader[i].podHealthResponses))
        /\ reader[i].noOfHealthyPods + reader[i].noOfUnavailablePods
              = Len(reader[i].podHealthResponses)

(* The first arm of the switch is dead: no service lacks pods and has more *)
(* answering pods than desired at once, so no status carries both messages *)
(* (checks.go:122, 128, 133).                                              *)
NeverBothMessages ==
    \A s \in Range(statusResponses) : s.details.error # "podsFailedAndFewerPods"

(* What the comment at checks.go:126 says: "report how many of the running *)
(* pods are unhealthy".                                                    *)
UnhealthyPodsAreReported ==
    \A s \in Range(statusResponses) :
        Cardinality(Healthy(s.details.podChecks)) < Len(s.details.podChecks)
            => s.details.error \in {"podsFailed", "podsFailedAndFewerPods"}
=============================================================================
