--------------------------- MODULE PodAggregation ---------------------------
(***************************************************************************)
(* How the answers of a service's pods become one verdict on the service:  *)
(* the pure part of internal/checks/checks.go (getHealthCheckForPod,       *)
(* assignStatePriority, mostSevereState and the messages and the switch at *)
(* the end of a reader's loop body).                                       *)
(*                                                                         *)
(* A pod's answer to the scrape is one of a handful of kinds.  Only what   *)
(* the code tells apart is kept: which step of the request failed, or the  *)
(* "health" text of the JSON body, in lower case or not.                   *)
(***************************************************************************)
EXTENDS Integers, Sequences, FiniteSetsExt, Functions

(* The request does not end in a parsed body (checks.go:195-232).          *)
FailedAnswers == {"badRequest", "unreachable", "non200", "unreadable", "unparsable"}

(* The "health" texts of parsed bodies: the three of the operational       *)
(* health specification, one in another case, and any other text.          *)
HealthTexts == {"healthy", "Healthy", "degraded", "unhealthy", "other"}

(* The body is the JSON value null: Unmarshal succeeds and leaves a nil    *)
(* pointer, whose first use (checks.go:234) panics.                        *)
NullBody == "nullBody"

Answers == FailedAnswers \cup HealthTexts \cup {NullBody}

AggregatedStates == {"healthy", "degraded", "unhealthy", "unknown"}

PodErrors == FailedAnswers \cup {"failingChecks"}
NoError == ""

PodHealthResponses ==
    [state : HealthTexts, statusCode : {0, 200, 500}, error : PodErrors \cup {NoError}]

(* The response kept for a pod.  Its error is NoError exactly when the     *)
(* function returns a nil error: a body is a success only when its health  *)
(* is the exact text "healthy".                                            *)
getHealthCheckForPod(answer) ==
    IF answer \in FailedAnswers
      THEN [state |-> "unhealthy",
            statusCode |-> IF answer \in {"badRequest", "unreachable"} THEN 0
                           ELSE IF answer = "non200" THEN 500 ELSE 200,
            error |-> answer]
      ELSE [state |-> answer, statusCode |-> 200,
            error |-> IF answer = "healthy" THEN NoError ELSE "failingChecks"]

ToLower(health) == IF health = "Healthy" THEN "healthy" ELSE health

(* Mutation of assignStatePriority: the case of the text matters.          *)
CaseSensitivePriority(health) ==
    IF health = "unhealthy" THEN 1
    ELSE IF health = "degraded" THEN 2
    ELSE IF health = "healthy" THEN 3
    ELSE 99

assignStatePriority(health) ==
    IF ToLower(health) = "unhealthy" THEN 1
    ELSE IF ToLower(health) = "degraded" THEN 2
    ELSE IF ToLower(health) = "healthy" THEN 3
    ELSE 99

(* Mutation of mostSevereState: nothing recognised leaves the state empty. *)
MostSevereOrEmpty(responses) ==
    IF \A r \in Range(responses) : assignStatePriority(r.state) = 99 THEN "" ELSE "healthy"

(* The loop keeps the least priority seen, starting from 99.               *)
mostSevereState(responses) ==
    LET mostSevere == Min({99} \cup {assignStatePriority(r.state) : r \in Range(responses)})
    IN IF mostSevere = 1 THEN "unhealthy"
       ELSE IF mostSevere = 2 THEN "degraded"
       ELSE IF mostSevere = 3 THEN "healthy"
       ELSE "unknown"

(***************************************************************************)
(* The two messages of checks.go:120-130, as conditions, and the text a    *)
(* status carries, named for the sentence it holds.                        *)
(***************************************************************************)
podsFewerThanDesiredReplicas(desiredReplicas, pods) == desiredReplicas > pods

(* Mutation of podsUnhealthy: what its comment says.                       *)
SomePodUnavailable(desiredReplicas, pods, noOfUnavailablePods) == noOfUnavailablePods > 0

podsUnhealthy(desiredReplicas, pods, noOfUnavailablePods) ==
    pods - noOfUnavailablePods > desiredReplicas

Messages == {NoError, "noPods", "fewerPods", "podsFailed", "podsFailedAndFewerPods"}

(* Every arm of the switch at checks.go:132-149, and the early return of   *)
(* line 84: state and message of the status that is sent.                  *)
Verdict(desiredReplicas, responses, noOfUnavailablePods) ==
    LET pods == Len(responses)
        fewer == podsFewerThanDesiredReplicas(desiredReplicas, pods)
        failed == podsUnhealthy(desiredReplicas, pods, noOfUnavailablePods)
    IN IF pods = 0 THEN [state |-> "unhealthy", error |-> "noPods"]
       ELSE IF fewer /\ failed THEN [state |-> "unhealthy", error |-> "podsFailedAndFewerPods"]
       ELSE IF fewer THEN [state |-> "unhealthy", error |-> "fewerPods"]
       ELSE [state |-> mostSevereState(responses),
             error |-> IF failed THEN "podsFailed" ELSE NoError]
=============================================================================
