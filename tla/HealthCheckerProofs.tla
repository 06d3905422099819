------------------------ MODULE HealthCheckerProofs -------------------------
(***************************************************************************)
(* Proofs about HealthChecker, for any number of readers, pods, replicas   *)
(* and services and any channel capacities.                                *)
(***************************************************************************)
EXTENDS HealthChecker, FiniteSetTheorems, TLAPS

USE ReadersAssumption, ServiceCopiesAssumption, PodAnswersAssumption,
    MaxPodsAssumption, CapacityAssumption, MaxTimeAssumption

(* Sequences: what a channel holds after a send and after a receive.       *)
LEMMA RangeType ==
    ASSUME NEW S, NEW seq \in Seq(S)
    PROVE  Range(seq) \subseteq S
<1>1. \A k \in DOMAIN seq : seq[k] \in S
  OBVIOUS
<1>2. QED
  BY <1>1 DEF Range

LEMMA RangeAppend ==
    ASSUME NEW S, NEW seq \in Seq(S), NEW x \in S
    PROVE  Range(Append(seq, x)) \subseteq Range(seq) \cup {x}
<1>1. ASSUME NEW k \in DOMAIN Append(seq, x)
      PROVE  Append(seq, x)[k] \in Range(seq) \cup {x}
  <2>1. k \in 1..(Len(seq) + 1) /\ Len(seq) \in Nat
    OBVIOUS
  <2>2. CASE k = Len(seq) + 1
    BY <2>2
  <2>3. CASE k # Len(seq) + 1
    <3>1. k \in DOMAIN seq /\ Append(seq, x)[k] = seq[k]
      BY <2>1, <2>3
    <3>2. QED
      BY <3>1 DEF Range
  <2>4. QED
    BY <2>2, <2>3
<1>2. QED
  BY <1>1 DEF Range

LEMMA RangeTail ==
    ASSUME NEW S, NEW seq \in Seq(S), seq # <<>>
    PROVE  Range(Tail(seq)) \subseteq Range(seq)
BY DEF Range

-----------------------------------------------------------------------------
(* PodAggregation.                                                         *)

LEMMA MinOfPriorities ==
    ASSUME NEW S \in SUBSET {1, 2, 3, 99}, 99 \in S
    PROVE  Min(S) = IF 1 \in S THEN 1 ELSE IF 2 \in S THEN 2 ELSE IF 3 \in S THEN 3 ELSE 99
<1> DEFINE m == IF 1 \in S THEN 1 ELSE IF 2 \in S THEN 2 ELSE IF 3 \in S THEN 3 ELSE 99
<1>1. m \in S /\ \A y \in S : m =< y
  OBVIOUS
<1>2. \A x \in S : (\A y \in S : x =< y) => x = m
  BY <1>1
<1>3. QED
  BY <1>1, <1>2 DEF Min

(* The most severe state is the one the table gives when no pod is missing.*)
LEMMA MostSevereStateByAnswers ==
    ASSUME NEW responses \in Seq(PodHealthResponses), NEW desiredReplicas \in Nat,
           responses # <<>>, Len(responses) >= desiredReplicas
    PROVE  mostSevereState(responses) = StateByAnswers(desiredReplicas, responses)
<1> DEFINE S == {99} \cup {assignStatePriority(r.state) : r \in Range(responses)}
<1>0. Range(responses) \subseteq PodHealthResponses
  BY RangeType
<1>1. \A r \in Range(responses) : r.state \in HealthTexts
  BY <1>0 DEF PodHealthResponses
<1>2. \A h \in HealthTexts :
         /\ assignStatePriority(h) \in {1, 2, 3, 99}
         /\ assignStatePriority(h) = 1 <=> h = "unhealthy"
         /\ assignStatePriority(h) = 2 <=> h = "degraded"
         /\ assignStatePriority(h) = 3 <=> h \in {"healthy", "Healthy"}
  BY DEF HealthTexts, assignStatePriority, ToLower
<1>3. /\ S \in SUBSET {1, 2, 3, 99} /\ 99 \in S
      /\ 1 \in S <=> \E r \in Range(responses) : r.state = "unhealthy"
      /\ 2 \in S <=> \E r \in Range(responses) : r.state = "degraded"
      /\ 3 \in S <=> \E r \in Range(responses) : r.state \in {"healthy", "Healthy"}
  BY <1>1, <1>2
<1> HIDE DEF S
<1>4. Min(S) = IF 1 \in S THEN 1 ELSE IF 2 \in S THEN 2 ELSE IF 3 \in S THEN 3 ELSE 99
  BY <1>3, MinOfPriorities
<1>5. mostSevereState(responses) =
         IF 1 \in S THEN "unhealthy" ELSE IF 2 \in S THEN "degraded"
         ELSE IF 3 \in S THEN "healthy" ELSE "unknown"
  BY <1>4 DEF mostSevereState, S
<1>6. ~(Len(responses) < desiredReplicas)
  OBVIOUS
<1>7. QED
  BY <1>3, <1>5, <1>6 DEF StateByAnswers

(* What the switch makes of any answers.                                   *)
LEMMA VerdictFacts ==
    ASSUME NEW responses \in Seq(PodHealthResponses), NEW desiredReplicas \in Nat,
           NEW unavailable \in Nat
    PROVE  /\ Verdict(desiredReplicas, responses, unavailable).state
                = StateByAnswers(desiredReplicas, responses)
           /\ Verdict(desiredReplicas, responses, unavailable).state \in AggregatedStates
           /\ Verdict(desiredReplicas, responses, unavailable).error
                \in Messages \ {"podsFailedAndFewerPods"}
<1> DEFINE v == Verdict(desiredReplicas, responses, unavailable)
<1>1. Len(responses) \in Nat /\ (responses = <<>> <=> Len(responses) = 0)
  OBVIOUS
<1>2. CASE Len(responses) = 0
  BY <1>1, <1>2 DEF Verdict, StateByAnswers, AggregatedStates, Messages
<1>3. CASE Len(responses) > 0 /\ Len(responses) < desiredReplicas
  <2>1. ~podsUnhealthy(desiredReplicas, Len(responses), unavailable)
    BY <1>1, <1>3 DEF podsUnhealthy
  <2>2. v = [state |-> "unhealthy", error |-> "fewerPods"]
    BY <1>1, <1>3, <2>1 DEF Verdict, podsFewerThanDesiredReplicas
  <2>3. QED
    BY <1>3, <2>2 DEF StateByAnswers, AggregatedStates, Messages
<1>4. CASE Len(responses) > 0 /\ ~(Len(responses) < desiredReplicas)
  <2>1. /\ v.state = mostSevereState(responses)
        /\ v.error \in {"podsFailed", NoError}
    BY <1>1, <1>4 DEF Verdict, podsFewerThanDesiredReplicas
  <2>2. mostSevereState(responses) \in AggregatedStates
    BY DEF mostSevereState, AggregatedStates
  <2>3. mostSevereState(responses) = StateByAnswers(desiredReplicas, responses)
    BY <1>1, <1>4, MostSevereStateByAnswers
  <2>4. v.error \in Messages \ {"podsFailedAndFewerPods"}
    BY <2>1 DEF Messages, NoError
  <2>5. QED
    BY <2>1, <2>2, <2>3, <2>4
<1>5. QED
  BY <1>1, <1>2, <1>3, <1>4

LEMMA PodResponseType ==
    ASSUME NEW answer \in Answers \ {NullBody}
    PROVE  getHealthCheckForPod(answer) \in PodHealthResponses
<1>1. CASE answer \in FailedAnswers
  BY <1>1 DEF getHealthCheckForPod, HealthTexts, PodHealthResponses, PodErrors
<1>2. CASE answer \in HealthTexts /\ answer \notin FailedAnswers
  BY <1>2 DEF getHealthCheckForPod, PodHealthResponses, PodErrors
<1>3. QED
  BY <1>1, <1>2 DEF Answers

-----------------------------------------------------------------------------
(* Types.                                                                  *)

(* What Report sends.                                                      *)
LEMMA StatusFacts ==
    ASSUME NEW r \in Scraping
    PROVE  LET s == ServiceStatus(r.service, r.checkTime, r.podHealthResponses,
                                  r.noOfUnavailablePods, r.noOfHealthyPods)
           IN /\ s \in ServiceStatuses
              /\ s.service = r.service
              /\ s.aggregatedState = StateByAnswers(r.service.desiredReplicas, r.podHealthResponses)
              /\ s.details.podChecks = r.podHealthResponses
              /\ s.details.healthyPods = r.noOfHealthyPods
              /\ s.details.error # "podsFailedAndFewerPods"
<1> DEFINE v == Verdict(r.service.desiredReplicas, r.podHealthResponses, r.noOfUnavailablePods)
<1>1. /\ r.service \in ServiceCopies /\ r.service.desiredReplicas \in Nat
      /\ r.checkTime \in Nat /\ r.podHealthResponses \in Seq(PodHealthResponses)
      /\ r.noOfUnavailablePods \in Nat /\ r.noOfHealthyPods \in Nat
  BY DEF Scraping
<1>2. /\ v.state = StateByAnswers(r.service.desiredReplicas, r.podHealthResponses)
      /\ v.state \in AggregatedStates
      /\ v.error \in Messages /\ v.error # "podsFailedAndFewerPods"
  BY <1>1, VerdictFacts
<1> HIDE DEF v
<1>3. ServiceStatus(r.service, r.checkTime, r.podHealthResponses,
                    r.noOfUnavailablePods, r.noOfHealthyPods)
        = [service |-> r.service, checkTime |-> r.checkTime, aggregatedState |-> v.state,
           stateSince |-> ZeroTime, previousState |-> NoState,
           details |-> [healthyPods |-> r.noOfHealthyPods,
                        podChecks |-> r.podHealthResponses, error |-> v.error]]
  BY DEF ServiceStatus, v
<1>4. QED
  BY <1>1, <1>2, <1>3 DEF ServiceStatuses, ScrapeDetails

(* One answer more.                                                        *)
LEMMA ScrapeOne ==
    ASSUME TypeOK, NEW i \in Readers, NEW answer \in PodAnswers, ScrapePod(i, answer)
    PROVE  LET response == getHealthCheckForPod(answer)
           IN /\ response \in PodHealthResponses
              /\ reader[i] \in Scraping /\ reader'[i] \in Scraping
              /\ reader' = [reader EXCEPT ![i] = reader'[i]]
              /\ reader'[i].podHealthResponses = Append(reader[i].podHealthResponses, response)
              /\ reader'[i].noOfHealthyPods + reader'[i].noOfUnavailablePods
                    = reader[i].noOfHealthyPods + reader[i].noOfUnavailablePods + 1
              /\ response.error = NoError =>
                    /\ reader'[i].noOfHealthyPods = reader[i].noOfHealthyPods + 1
                    /\ reader'[i].noOfUnavailablePods = reader[i].noOfUnavailablePods
              /\ response.error # NoError =>
                    /\ reader'[i].noOfHealthyPods = reader[i].noOfHealthyPods
                    /\ reader'[i].noOfUnavailablePods = reader[i].noOfUnavailablePods + 1
<1>1. PICK response : response = getHealthCheckForPod(answer)
  OBVIOUS
<1>2. response \in PodHealthResponses
  BY <1>1, PodResponseType DEF ScrapePod
<1>3. /\ reader[i] \in Scraping
      /\ reader[i].podHealthResponses \in Seq(PodHealthResponses)
      /\ Append(reader[i].podHealthResponses, response) \in Seq(PodHealthResponses)
      /\ reader[i].noOfUnavailablePods \in Nat /\ reader[i].noOfHealthyPods \in Nat
  BY <1>2 DEF ScrapePod, PodsLeft, TypeOK, Idle, Scraping
<1>4. PICK u \in Nat, h \in Nat :
         /\ u = reader[i].noOfUnavailablePods + (IF response.error # NoError THEN 1 ELSE 0)
         /\ h = reader[i].noOfHealthyPods + (IF response.error # NoError THEN 0 ELSE 1)
  BY <1>3
<1>5. /\ response.error = NoError =>
            h = reader[i].noOfHealthyPods + 1 /\ u = reader[i].noOfUnavailablePods
      /\ response.error # NoError =>
            h = reader[i].noOfHealthyPods /\ u = reader[i].noOfUnavailablePods + 1
      /\ h + u = reader[i].noOfHealthyPods + reader[i].noOfUnavailablePods + 1
  BY <1>3, <1>4
<1>6. PICK r : r = ScrapeOf(reader[i].service, reader[i].checkTime, reader[i].pods,
                             Append(reader[i].podHealthResponses, response), u, h)
  OBVIOUS
<1>7. /\ reader' = [reader EXCEPT ![i] = r]
      /\ reader'[i] = r
      /\ r \in Scraping
      /\ r.podHealthResponses = Append(reader[i].podHealthResponses, response)
      /\ r.noOfHealthyPods = h /\ r.noOfUnavailablePods = u
  <2>1. reader' = [reader EXCEPT ![i] = r]
    BY <1>1, <1>4, <1>6 DEF ScrapePod
  <2>2. reader'[i] = r
    BY <2>1 DEF TypeOK
  <2>3. QED
    BY <1>3, <1>6, <2>1, <2>2 DEF Scraping, ScrapeOf
<1>8. QED
  BY <1>1, <1>2, <1>3, <1>5, <1>7

LEMMA TypeOKInit == Init => TypeOK
BY DEF Init, TypeOK

LEMMA TypeOKStep == TypeOK /\ [Next]_vars => TypeOK'
<1> SUFFICES ASSUME TypeOK, [Next]_vars PROVE TypeOK'
  OBVIOUS
<1> USE DEF TypeOK
<1>1. ASSUME NEW i \in Readers, TakeService(i) PROVE TypeOK'
  BY <1>1 DEF TakeService
<1>2. ASSUME NEW i \in Readers, NEW n \in 0..MaxPods, ListPods(i, n) PROVE TypeOK'
  <2>1. reader[i].service \in ServiceCopies
    BY <1>2 DEF ListPods, Idle, Scraping
  <2>2. ScrapeOf(reader[i].service, clock, n, <<>>, 0, 0) \in Scraping
    BY <2>1 DEF Scraping, ScrapeOf
  <2>3. QED
    BY <1>2, <2>2 DEF ListPods
<1>3. ASSUME NEW i \in Readers, ListPodsFails(i) PROVE TypeOK'
  BY <1>3 DEF ListPodsFails
<1>4. ASSUME NEW i \in Readers, NEW answer \in PodAnswers, ScrapePod(i, answer) PROVE TypeOK'
  <2>1. reader'[i] \in Scraping /\ reader' = [reader EXCEPT ![i] = reader'[i]]
    BY <1>4, ScrapeOne
  <2>2. QED
    BY <1>4, <2>1 DEF ScrapePod
<1>5. ASSUME NEW i \in Readers, Report(i) PROVE TypeOK'
  <2>1. reader[i] \in Scraping
    BY <1>5 DEF Report, Idle
  <2>2. ServiceStatus(reader[i].service, reader[i].checkTime, reader[i].podHealthResponses,
                      reader[i].noOfUnavailablePods, reader[i].noOfHealthyPods)
          \in ServiceStatuses
    BY <2>1, StatusFacts
  <2>3. QED
    BY <1>5, <2>2 DEF Report
<1>6. CASE LoseMemory
  BY <1>6 DEF LoseMemory
<1>7. ASSUME NEW s \in ServiceCopies, QueueService(s) PROVE TypeOK'
  BY <1>7 DEF QueueService
<1>8. CASE TakeStatus \/ OtherError \/ LogError \/ Tick
  <2>1. CASE TakeStatus
    BY <2>1 DEF TakeStatus
  <2>2. CASE OtherError \/ LogError \/ Tick
    BY <2>2 DEF OtherError, LogError, Tick
  <2>3. QED
    BY <1>8, <2>1, <2>2
<1>9. CASE UNCHANGED vars
  BY <1>9 DEF vars
<1>10. QED
  BY <1>1, <1>2, <1>3, <1>4, <1>5, <1>6, <1>7, <1>8, <1>9
     DEF Next, Reader, Environment, PanicOnNullBody, Restart

(* The readers only ever hold and send well-typed jobs and statuses.       *)
THEOREM TypeCorrect == Spec => []TypeOK
BY TypeOKInit, TypeOKStep, PTL DEF Spec

-----------------------------------------------------------------------------
(* The gauge.                                                              *)

LEMMA BusyIsFinite == IsFiniteSet(Busy) /\ Cardinality(Busy) \in Nat
<1>1. IsFiniteSet(Busy)
  BY FS_Subset DEF Busy
<1>2. QED
  BY <1>1, FS_CardinalityType

(* The gauge follows a reader that becomes busy, and one that becomes idle.*)
LEMMA OneMoreBusy ==
    ASSUME TypeOK, InFlightCountsBusyReaders, NEW i \in Readers, reader[i] = Idle,
           NEW r, r # Idle, reader' = [reader EXCEPT ![i] = r], inFlight' = inFlight + 1
    PROVE  InFlightCountsBusyReaders'
<1>1. Busy' = Busy \cup {i} /\ i \notin Busy
  BY DEF Busy, TypeOK
<1>2. Cardinality(Busy \cup {i}) = Cardinality(Busy) + 1
  BY <1>1, BusyIsFinite, FS_AddElement
<1>3. QED
  BY <1>1, <1>2 DEF InFlightCountsBusyReaders

LEMMA OneLessBusy ==
    ASSUME TypeOK, InFlightCountsBusyReaders, NEW i \in Readers, reader[i] # Idle,
           reader' = [reader EXCEPT ![i] = Idle], inFlight' = inFlight - 1
    PROVE  InFlightCountsBusyReaders'
<1>1. Busy' = Busy \ {i} /\ i \in Busy
  BY DEF Busy, TypeOK
<1>2. Cardinality(Busy \ {i}) = Cardinality(Busy) - 1
  BY <1>1, BusyIsFinite, FS_RemoveElement
<1>3. QED
  BY <1>1, <1>2 DEF InFlightCountsBusyReaders

LEMMA AsManyBusy ==
    ASSUME InFlightCountsBusyReaders, Busy' = Busy, inFlight' = inFlight
    PROVE  InFlightCountsBusyReaders'
BY DEF InFlightCountsBusyReaders

LEMMA InFlightStep ==
    TypeOK /\ InFlightCountsBusyReaders /\ [Next]_vars => InFlightCountsBusyReaders'
<1> SUFFICES ASSUME TypeOK, InFlightCountsBusyReaders, [Next]_vars
             PROVE  InFlightCountsBusyReaders'
  OBVIOUS
<1>1. ASSUME NEW i \in Readers, TakeService(i) PROVE InFlightCountsBusyReaders'
  <2>1. [step |-> "list", service |-> Head(servicesToScrape)] # Idle
    BY DEF Idle
  <2>2. QED
    BY <1>1, <2>1, OneMoreBusy DEF TakeService
<1>2. ASSUME NEW i \in Readers, NEW n \in 0..MaxPods, ListPods(i, n)
      PROVE  InFlightCountsBusyReaders'
  <2>1. Busy' = Busy
    BY <1>2 DEF ListPods, Busy, Idle, ScrapeOf, TypeOK
  <2>2. QED
    BY <1>2, <2>1, AsManyBusy DEF ListPods
<1>3. ASSUME NEW i \in Readers, ListPodsFails(i) \/ Report(i)
      PROVE  InFlightCountsBusyReaders'
  <2>1. reader[i] # Idle
    BY <1>3 DEF ListPodsFails, Report, Idle
  <2>2. QED
    BY <1>3, <2>1, OneLessBusy DEF ListPodsFails, Report
<1>4. ASSUME NEW i \in Readers, NEW answer \in PodAnswers, ScrapePod(i, answer)
      PROVE  InFlightCountsBusyReaders'
  <2>1. /\ reader[i] \in Scraping /\ reader'[i] \in Scraping
        /\ reader' = [reader EXCEPT ![i] = reader'[i]]
    BY <1>4, ScrapeOne
  <2>2. Idle \notin Scraping
    BY DEF Scraping, Idle
  <2>3. Busy' = Busy
    BY <2>1, <2>2 DEF Busy, TypeOK
  <2>4. QED
    BY <1>4, <2>3, AsManyBusy DEF ScrapePod
<1>5. CASE LoseMemory
  <2>1. Busy' = {} /\ inFlight' = 0
    BY <1>5 DEF LoseMemory, Busy
  <2>2. QED
    BY <2>1, FS_EmptySet DEF InFlightCountsBusyReaders
<1>6. ASSUME reader' = reader, inFlight' = inFlight PROVE InFlightCountsBusyReaders'
  BY <1>6, AsManyBusy DEF Busy
<1>7. QED
  BY <1>1, <1>2, <1>3, <1>4, <1>5, <1>6
     DEF Next, Reader, Environment, PanicOnNullBody, Restart, QueueService, TakeStatus,
         OtherError, LogError, Tick, vars

(* The gauge of checks in flight is the number of busy readers, however    *)
(* many readers there are and whichever way a job ends.                    *)
THEOREM InFlightIsBusyReaders == Spec => []InFlightCountsBusyReaders
<1>1. Init => InFlightCountsBusyReaders
  <2>1. Init => Busy = {} /\ inFlight = 0
    BY DEF Init, Busy
  <2>2. QED
    BY <2>1, FS_EmptySet DEF InFlightCountsBusyReaders
<1>2. QED
  BY <1>1, InFlightStep, TypeCorrect, PTL DEF Spec

-----------------------------------------------------------------------------
(* The statuses.                                                           *)

(* What the three invariants on statuses say of one of them.               *)
Sound(s) ==
    /\ s.aggregatedState = StateByAnswers(s.service.desiredReplicas, s.details.podChecks)
    /\ s.details.healthyPods = Cardinality(Healthy(s.details.podChecks))
    /\ s.details.error # "podsFailedAndFewerPods"

StatusInv == \A s \in Range(statusResponses) : Sound(s)

LEMMA HealthyAppend ==
    ASSUME NEW seq \in Seq(PodHealthResponses), NEW x \in PodHealthResponses
    PROVE  /\ x.error # NoError => Healthy(Append(seq, x)) = Healthy(seq)
           /\ x.error = NoError => Cardinality(Healthy(Append(seq, x))) = Cardinality(Healthy(seq)) + 1
<1>1. /\ Len(seq) \in Nat /\ DOMAIN seq = 1..Len(seq)
      /\ DOMAIN Append(seq, x) = 1..(Len(seq) + 1)
      /\ \A k \in 1..Len(seq) : Append(seq, x)[k] = seq[k]
      /\ Append(seq, x)[Len(seq) + 1] = x
  OBVIOUS
<1>2. CASE x.error # NoError
  BY <1>1, <1>2 DEF Healthy
<1>3. CASE x.error = NoError
  <2>1. /\ Healthy(Append(seq, x)) = Healthy(seq) \cup {Len(seq) + 1}
        /\ Len(seq) + 1 \notin Healthy(seq)
    BY <1>1, <1>3 DEF Healthy
  <2>2. IsFiniteSet(Healthy(seq)) /\ Cardinality(Healthy(seq)) \in Nat
    <3>1. IsFiniteSet(1..Len(seq)) /\ Healthy(seq) \in SUBSET (1..Len(seq))
      BY <1>1, FS_Interval DEF Healthy
    <3>2. IsFiniteSet(Healthy(seq))
      BY <3>1, FS_Subset
    <3>3. QED
      BY <3>2, FS_CardinalityType
  <2>3. Cardinality(Healthy(seq) \cup {Len(seq) + 1}) = Cardinality(Healthy(seq)) + 1
    BY <2>1, <2>2, FS_AddElement
  <2>4. QED
    BY <1>3, <2>1, <2>3
<1>4. QED
  BY <1>2, <1>3

LEMMA ScrapeInvStep == TypeOK /\ ScrapeInv /\ [Next]_vars => ScrapeInv'
<1> SUFFICES ASSUME TypeOK, ScrapeInv, [Next]_vars PROVE ScrapeInv'
  OBVIOUS
<1>1. ASSUME NEW i \in Readers, NEW r, r.step # "scrape", reader' = [reader EXCEPT ![i] = r]
      PROVE  ScrapeInv'
  BY <1>1 DEF ScrapeInv, TypeOK
<1>2. ASSUME NEW i \in Readers, TakeService(i) \/ ListPodsFails(i) \/ Report(i) PROVE ScrapeInv'
  BY <1>1, <1>2 DEF TakeService, ListPodsFails, Report, Idle
<1>3. ASSUME NEW i \in Readers, NEW n \in 0..MaxPods, ListPods(i, n) PROVE ScrapeInv'
  <2>1. Healthy(<<>>) = {} /\ Cardinality(Healthy(<<>>)) = 0 /\ Len(<<>>) = 0
    BY FS_EmptySet DEF Healthy
  <2>2. PICK r : r = ScrapeOf(reader[i].service, clock, n, <<>>, 0, 0)
    OBVIOUS
  <2>3. /\ r.podHealthResponses = <<>>
        /\ r.noOfUnavailablePods = 0 /\ r.noOfHealthyPods = 0
    BY <2>2 DEF ScrapeOf
  <2>4. reader' = [reader EXCEPT ![i] = r]
    BY <1>3, <2>2 DEF ListPods
  <2>5. QED
    BY <2>1, <2>3, <2>4 DEF ScrapeInv, TypeOK
<1>4. ASSUME NEW i \in Readers, NEW answer \in PodAnswers, ScrapePod(i, answer) PROVE ScrapeInv'
  <2>1. PICK response \in PodHealthResponses :
           /\ reader[i] \in Scraping /\ reader'[i] \in Scraping
           /\ reader' = [reader EXCEPT ![i] = reader'[i]]
           /\ reader'[i].podHealthResponses = Append(reader[i].podHealthResponses, response)
           /\ reader'[i].noOfHealthyPods + reader'[i].noOfUnavailablePods
                 = reader[i].noOfHealthyPods + reader[i].noOfUnavailablePods + 1
           /\ response.error = NoError =>
                 /\ reader'[i].noOfHealthyPods = reader[i].noOfHealthyPods + 1
                 /\ reader'[i].noOfUnavailablePods = reader[i].noOfUnavailablePods
           /\ response.error # NoError =>
                 /\ reader'[i].noOfHealthyPods = reader[i].noOfHealthyPods
                 /\ reader'[i].noOfUnavailablePods = reader[i].noOfUnavailablePods + 1
    BY <1>4, ScrapeOne
  <2>2. /\ reader[i].podHealthResponses \in Seq(PodHealthResponses)
        /\ reader[i].noOfHealthyPods \in Nat /\ reader[i].noOfUnavailablePods \in Nat
        /\ reader[i].noOfHealthyPods = Cardinality(Healthy(reader[i].podHealthResponses))
        /\ reader[i].noOfHealthyPods + reader[i].noOfUnavailablePods
              = Len(reader[i].podHealthResponses)
    BY <2>1 DEF Scraping, ScrapeInv
  <2>3. Len(Append(reader[i].podHealthResponses, response)) = Len(reader[i].podHealthResponses) + 1
    BY <2>2
  <2>4. /\ reader'[i].noOfHealthyPods = Cardinality(Healthy(reader'[i].podHealthResponses))
        /\ reader'[i].noOfHealthyPods + reader'[i].noOfUnavailablePods
              = Len(reader'[i].podHealthResponses)
    <3> DEFINE p == reader[i].podHealthResponses
    <3>1. /\ response.error # NoError => Healthy(Append(p, response)) = Healthy(p)
          /\ response.error = NoError =>
                Cardinality(Healthy(Append(p, response))) = Cardinality(Healthy(p)) + 1
      BY <2>2, HealthyAppend
    <3>2. Len(p) \in Nat
      BY <2>2
    <3> HIDE DEF p
    <3>3. reader'[i].podHealthResponses = Append(p, response)
      BY <2>1 DEF p
    <3>4. /\ reader[i].noOfHealthyPods = Cardinality(Healthy(p))
          /\ reader[i].noOfHealthyPods + reader[i].noOfUnavailablePods = Len(p)
          /\ Len(Append(p, response)) = Len(p) + 1
      BY <2>2, <2>3 DEF p
    <3>5. reader'[i].noOfHealthyPods = Cardinality(Healthy(Append(p, response)))
      BY <2>1, <3>1, <3>4
    <3>6. reader'[i].noOfHealthyPods + reader'[i].noOfUnavailablePods = Len(Append(p, response))
      BY <2>1, <3>4
    <3>7. QED
      BY <3>3, <3>5, <3>6
  <2>5. \A j \in Readers : j # i => reader'[j] = reader[j]
    BY <2>1 DEF TypeOK
  <2>6. QED
    BY <2>4, <2>5 DEF ScrapeInv
<1>5. CASE LoseMemory
  BY <1>5 DEF LoseMemory, ScrapeInv, Idle
<1>6. CASE reader' = reader
  BY <1>6 DEF ScrapeInv
<1>7. QED
  BY <1>2, <1>3, <1>4, <1>5, <1>6
     DEF Next, Reader, Environment, PanicOnNullBody, Restart, QueueService, TakeStatus,
         OtherError, LogError, Tick, vars

LEMMA StatusInvStep == TypeOK /\ ScrapeInv /\ StatusInv /\ [Next]_vars => StatusInv'
<1> SUFFICES ASSUME TypeOK, ScrapeInv, StatusInv, [Next]_vars PROVE StatusInv'
  OBVIOUS
<1>1. ASSUME NEW i \in Readers, Report(i) PROVE StatusInv'
  <2>1. PICK s : s = ServiceStatus(reader[i].service, reader[i].checkTime,
                        reader[i].podHealthResponses,
                        reader[i].noOfUnavailablePods, reader[i].noOfHealthyPods)
    OBVIOUS
  <2>2. reader[i] \in Scraping
    BY <1>1 DEF Report, TypeOK, Idle
  <2>3. s \in ServiceStatuses /\ Sound(s)
    BY <1>1, <2>1, <2>2, StatusFacts DEF Sound, Report, ScrapeInv
  <2>4. statusResponses' = Append(statusResponses, s)
    BY <1>1, <2>1 DEF Report
  <2>5. Range(statusResponses') \subseteq Range(statusResponses) \cup {s}
    BY <2>3, <2>4, RangeAppend DEF TypeOK
  <2>6. QED
    BY <2>3, <2>5 DEF StatusInv
<1>2. CASE TakeStatus
  <2>1. Range(statusResponses') \subseteq Range(statusResponses)
    BY <1>2, RangeTail DEF TakeStatus, TypeOK
  <2>2. QED
    BY <2>1 DEF StatusInv
<1>3. CASE LoseMemory
  BY <1>3 DEF LoseMemory, StatusInv, Range
<1>4. CASE statusResponses' = statusResponses
  BY <1>4 DEF StatusInv
<1>5. QED
  BY <1>1, <1>2, <1>3, <1>4
     DEF Next, Reader, Environment, PanicOnNullBody, Restart, QueueService, TakeService, ListPods,
         ListPodsFails, ScrapePod, OtherError, LogError, Tick, vars

LEMMA StatusInvariant == Spec => [](ScrapeInv /\ StatusInv)
<1>1. Init => ScrapeInv /\ StatusInv
  BY DEF Init, ScrapeInv, StatusInv, Idle, Range
<1>2. QED
  BY <1>1, ScrapeInvStep, StatusInvStep, TypeCorrect, PTL DEF Spec

(* The two counters of a scrape split the answers so far, for any number   *)
(* of pods: every one is counted once, as it counts in the end.            *)
THEOREM CountersAlwaysSplit == Spec => []ScrapeInv
BY StatusInvariant, PTL

(* Every status says what the pods' answers say, for any number of pods    *)
(* and replicas and in any interleaving of the readers.                    *)
THEOREM VerdictsAlwaysMatch == Spec => []VerdictMatchesAnswers
<1>1. StatusInv => VerdictMatchesAnswers
  BY DEF StatusInv, Sound, VerdictMatchesAnswers
<1>2. QED
  BY <1>1, StatusInvariant, PTL

(* The count of healthy pods in every status is that of its pod checks.    *)
THEOREM CountsAlwaysMatch == Spec => []HealthyPodsMatchPodChecks
<1>1. StatusInv => HealthyPodsMatchPodChecks
  BY DEF StatusInv, Sound, HealthyPodsMatchPodChecks
<1>2. QED
  BY <1>1, StatusInvariant, PTL

(* No status ever carries both messages: an arm of the switch is dead.     *)
THEOREM BothMessagesAreDead == Spec => []NeverBothMessages
<1>1. StatusInv => NeverBothMessages
  BY DEF StatusInv, Sound, NeverBothMessages
<1>2. QED
  BY <1>1, StatusInvariant, PTL
=============================================================================
