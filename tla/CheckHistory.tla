---------------------------- MODULE CheckHistory ----------------------------
(***************************************************************************)
(* The collection of checks: InsertHealthcheckResponses, the only writer,  *)
(* which looks up a service's latest check before it inserts the next one, *)
(* and RemoveChecksOlderThan, which deletes old checks at the same time    *)
(* (internal/db/repository.go).  Each collection operation is one step:    *)
(* between the lookup and the insert the deletion goes on.                 *)
(*                                                                         *)
(* Statuses reach the inserter in the order the readers sent them, which   *)
(* is not the order of their check times: a status may be older than one   *)
(* already stored.                                                         *)
(***************************************************************************)
EXTENDS Integers, Sequences, FiniteSets

CONSTANTS
    ServiceCopies,   \* the service documents a status may hold: records with
                     \* at least a namespace and a name
    States,          \* the aggregated states
    Details,         \* the rest of a status: pod checks, count and message
    StatusCap,       \* capacity of the channel statusResponses (1000)
    Retention,       \* age at which a check may be deleted (removeAfterDays)
    MaxTime,         \* bound: the clock stops here
    MaxChecks        \* bound: the most checks inserted or waiting to be

ZeroTime == -1       \* Go's zero time
NoState == ""        \* the empty string, no state

ASSUME StatesAssumption == NoState \notin States
ASSUME StatusCapAssumption == StatusCap \in Nat \ {0}
ASSUME RetentionAssumption == Retention \in Nat
ASSUME BoundsAssumption == MaxTime \in Nat /\ MaxChecks \in Nat

VARIABLES
    statusResponses,   \* channel of statuses
    inserter,          \* where the goroutine inserting checks is
    checks,            \* the collection
    tidy,              \* where the goroutine deleting old checks is
    clock,             \* time.Now()
    inserted,          \* history: every check inserted into this database
    disturbed          \* history: services whose order or lookups went wrong in it

vars == <<statusResponses, inserter, checks, tidy, clock, inserted, disturbed>>

(* A status before it is inserted has the zero time and no previous state. *)
ServiceStatuses ==
    [service : ServiceCopies, checkTime : Nat, aggregatedState : States,
     stateSince : {ZeroTime}, previousState : {NoState}, details : Details]

Checks ==
    [service : ServiceCopies, checkTime : Nat, aggregatedState : States,
     stateSince : Nat \cup {ZeroTime}, previousState : States \cup {NoState}, details : Details]

(* What identifies a service across the copies of its document.            *)
Key(service) == <<service.namespace, service.name>>

(* Mutation of ChecksOf: the namespace is left out of the query.           *)
ChecksByName(service) == {c \in checks : c.service.name = service.name}

ChecksOf(service) == {c \in checks : Key(c.service) = Key(service)}

(* Mutation of LatestChecks: the sort order is ascending.                  *)
OldestChecks(service) ==
    {c \in ChecksOf(service) : \A d \in ChecksOf(service) : d.checkTime >= c.checkTime}

(* Sort("-checkTime").Limit(1): one of the checks with the latest time.    *)
LatestChecks(service) ==
    {c \in ChecksOf(service) : \A d \in ChecksOf(service) : d.checkTime <= c.checkTime}

(* Mutation of NotFound: a name for no state at all.                       *)
NotFoundNamed == [aggregatedState |-> "none", stateSince |-> ZeroTime, previousState |-> NoState]

(* The zero ServiceStatus, which Find leaves when it returns an error.     *)
NotFound == [aggregatedState |-> NoState, stateSince |-> ZeroTime, previousState |-> NoState]

(* Mutation of WithHistory: the state of the check found is always kept.   *)
WithLastState(r, prevCheckResponse) ==
    [r EXCEPT !.stateSince = IF prevCheckResponse.aggregatedState # r.aggregatedState
                               THEN r.checkTime ELSE prevCheckResponse.stateSince,
              !.previousState = prevCheckResponse.aggregatedState]

WithHistory(r, prevCheckResponse) ==
    IF prevCheckResponse.aggregatedState # r.aggregatedState
      THEN [r EXCEPT !.stateSince = r.checkTime,
                     !.previousState = prevCheckResponse.aggregatedState]
      ELSE [r EXCEPT !.stateSince = prevCheckResponse.stateSince,
                     !.previousState = prevCheckResponse.previousState]

Receiving == [step |-> "receive"]
Expired(cutoff) == {c \in checks : c.checkTime < cutoff}

Init ==
    /\ statusResponses = <<>>
    /\ inserter = Receiving
    /\ checks = {}
    /\ tidy = [step |-> "wait"]
    /\ clock = 0
    /\ inserted = {}
    /\ disturbed = {}

-----------------------------------------------------------------------------
(* InsertHealthcheckResponses.                                             *)

(* r := range statusResponses.  History: a status no newer than one of its *)
(* service that was already inserted disturbs the order.                   *)
Receive ==
    /\ inserter = Receiving
    /\ statusResponses # <<>>
    /\ LET r == Head(statusResponses)
       IN /\ inserter' = [step |-> "lookup", status |-> r]
          /\ disturbed' = IF \E c \in inserted : /\ Key(c.service) = Key(r.service)
                                                 /\ r.checkTime <= c.checkTime
                            THEN disturbed \cup {Key(r.service)} ELSE disturbed
    /\ statusResponses' = Tail(statusResponses)
    /\ UNCHANGED <<checks, tidy, clock, inserted>>

Lookup ==
    /\ inserter.step = "lookup"
    /\ LET r == inserter.status
           latest == LatestChecks(r.service)
       IN \/ /\ latest = {}
             /\ inserter' = [step |-> "insert", status |-> WithHistory(r, NotFound)]
          \/ \E c \in latest :
                inserter' = [step |-> "insert", status |-> WithHistory(r, c)]
    /\ UNCHANGED <<statusResponses, checks, tidy, clock, inserted, disturbed>>

(* The lookup fails: logged, and then treated as if nothing was found.     *)
LookupFails ==
    /\ inserter.step = "lookup"
    /\ inserter' = [step |-> "insert", status |-> WithHistory(inserter.status, NotFound)]
    /\ disturbed' = disturbed \cup {Key(inserter.status.service)}
    /\ UNCHANGED <<statusResponses, checks, tidy, clock, inserted>>

Insert ==
    /\ inserter.step = "insert"
    /\ checks' = checks \cup {inserter.status}
    /\ inserted' = inserted \cup {inserter.status}
    /\ inserter' = Receiving
    /\ UNCHANGED <<statusResponses, tidy, clock, disturbed>>

(* The insert fails: logged, the status is dropped.                        *)
InsertFails ==
    /\ inserter.step = "insert"
    /\ inserter' = Receiving
    /\ UNCHANGED <<statusResponses, checks, tidy, clock, inserted, disturbed>>

Inserter == Receive \/ Lookup \/ LookupFails \/ Insert \/ InsertFails

-----------------------------------------------------------------------------
(* RemoveChecksOlderThan: the cutoff is computed once, the server deletes  *)
(* one document after another.                                             *)

(* Mutation of StartTidy: the days are added.                              *)
StartTidyAhead ==
    /\ tidy.step = "wait"
    /\ tidy' = [step |-> "remove", cutoff |-> clock + Retention]
    /\ UNCHANGED <<statusResponses, inserter, checks, clock, inserted, disturbed>>

StartTidy ==
    /\ tidy.step = "wait"
    /\ tidy' = [step |-> "remove", cutoff |-> clock - Retention]
    /\ UNCHANGED <<statusResponses, inserter, checks, clock, inserted, disturbed>>

RemoveOne ==
    /\ tidy.step = "remove"
    /\ \E c \in Expired(tidy.cutoff) : checks' = checks \ {c}
    /\ UNCHANGED <<statusResponses, inserter, tidy, clock, inserted, disturbed>>

(* All are gone, or the operation failed half way.                         *)
EndTidy ==
    /\ tidy.step = "remove"
    /\ tidy' = [step |-> "wait"]
    /\ UNCHANGED <<statusResponses, inserter, checks, clock, inserted, disturbed>>

Tidier == StartTidy \/ RemoveOne \/ EndTidy

-----------------------------------------------------------------------------
(* The rest of the program, and time.                                      *)

(* A reader sends a status, of a check it began now or at any time before. *)
Arrive(service, checkTime, state, details) ==
    /\ Len(statusResponses) < StatusCap
    /\ Cardinality(inserted) + Len(statusResponses) < MaxChecks
    /\ statusResponses' = Append(statusResponses,
            [service |-> service, checkTime |-> checkTime, aggregatedState |-> state,
             stateSince |-> ZeroTime, previousState |-> NoState, details |-> details])
    /\ UNCHANGED <<inserter, checks, tidy, clock, inserted, disturbed>>

(* The process dies and starts again; a deletion the server has begun goes *)
(* on or is broken off.  The start drops the database if it is told to:    *)
(* the collection is empty then, and its history begins anew.              *)
Restart ==
    /\ statusResponses' = <<>>
    /\ inserter' = Receiving
    /\ tidy' \in {tidy, [step |-> "wait"]}
    /\ \/ UNCHANGED <<checks, inserted, disturbed>>
       \/ checks' = {} /\ inserted' = {} /\ disturbed' = {}
    /\ UNCHANGED clock

Tick ==
    /\ clock < MaxTime
    /\ clock' = clock + 1
    /\ UNCHANGED <<statusResponses, inserter, checks, tidy, inserted, disturbed>>

Environment ==
    \/ \E service \in ServiceCopies, checkTime \in 0..clock, state \in States, details \in Details :
            Arrive(service, checkTime, state, details)
    \/ Restart
    \/ Tick

Next == Inserter \/ Tidier \/ Environment

Spec == Init /\ [][Next]_vars
-----------------------------------------------------------------------------
(* Properties.                                                             *)

(* Every variable holds values of the program's types: a status on its way *)
(* carries no history, a stored check carries whatever the inserter wrote. *)
TypeOK ==
    /\ statusResponses \in Seq(ServiceStatuses)
    /\ inserter \in {Receiving} \cup [step : {"lookup"}, status : ServiceStatuses]
                               \cup [step : {"insert"}, status : Checks]
    /\ checks \subseteq Checks
    /\ tidy \in [step : {"wait"}] \cup [step : {"remove"}, cutoff : Int]
    /\ clock \in Nat
    /\ inserted \subseteq Checks
    /\ disturbed \subseteq {Key(s) : s \in ServiceCopies}

(* A stored check never names its own state as the one the service had     *)
(* before: previousState always tells a change, also after failed lookups, *)
(* late statuses and deletions (repository.go:238-244).                    *)
PreviousStateDiffers == \A c \in checks : c.previousState # c.aggregatedState

(* The deletion has not yet had a right to remove the check.               *)
Kept(c) == c.checkTime >= clock - Retention

(* What an observer shows as the state of a service, its latest check, was *)
(* never in that state since a moment after the check itself, although an  *)
(* older check may be stored with a stateSince later than its own time.    *)
LatestStateSinceNotInFuture ==
    \A c \in checks :
        Kept(c) /\ c \in LatestChecks(c.service) => c.stateSince <= c.checkTime

(* Some inserted check began the run that c says it belongs to.            *)
RunBegan(c) ==
    \E d \in inserted :
        /\ Key(d.service) = Key(c.service)
        /\ d.checkTime = c.stateSince /\ d.stateSince = d.checkTime
        /\ d.aggregatedState = c.aggregatedState /\ d.previousState = c.previousState

(* The moment a check says its state began is the time of a check of the   *)
(* same service that was inserted with the same state, the same previous   *)
(* state and that very moment as the beginning: no failure, late status or *)
(* deletion makes the inserter invent the start of a run.                  *)
StateSinceIsARealCheck == \A c \in checks : RunBegan(c)

(* b is the check stored before c.                                         *)
Precedes(b, c) ==
    /\ Key(b.service) = Key(c.service)
    /\ b.checkTime < c.checkTime
    /\ \A d \in ChecksOf(c.service) : d.checkTime <= b.checkTime \/ d.checkTime >= c.checkTime

(* What c should say of its run, when b is the check before it.            *)
Continues(b, c) ==
    IF b.aggregatedState = c.aggregatedState
      THEN c.stateSince = b.stateSince /\ c.previousState = b.previousState
      ELSE c.stateSince = c.checkTime /\ c.previousState = b.aggregatedState

(* While a service's statuses come in order and its lookups succeed, its   *)
(* stored checks form exact runs: a check continues the run of the check   *)
(* before it or begins one where the state changes, whatever old checks    *)
(* are being deleted between the lookup and the insert.                    *)
RunsAreExact ==
    \A b, c \in checks :
        Precedes(b, c) /\ Kept(b) /\ Key(c.service) \notin disturbed => Continues(b, c)

(* A check that was inserted is there for as long as it is younger than    *)
(* the retention, unless a start drops the whole database: neither a       *)
(* process that dies in the middle of a deletion nor a cutoff computed     *)
(* long ago removes it (repository.go:387, main.go:179-186).               *)
KeptChecksAreStored == \A c \in inserted : Kept(c) => c \in checks

(* A run's beginning is either old enough to have been deleted or no later *)
(* than a check of the service that is still stored.                       *)
Witnessed(c) ==
    \/ c.stateSince < clock - Retention
    \/ \E d \in ChecksOf(c.service) : c.stateSince <= d.checkTime

(* The inductive strengthening of the invariants above: what the inserter  *)
(* holds between its lookup and its insert stays true of the collection,   *)
(* whatever is deleted in between (repository.go:228-246, 387).            *)
HistoryInv ==
    /\ \A c \in checks :
          Witnessed(c) /\ RunBegan(c) /\ c.previousState # c.aggregatedState
    /\ inserter.step = "insert" =>
          LET r == inserter.status
          IN /\ Witnessed(r) \/ r.stateSince <= r.checkTime
             /\ RunBegan(r) \/ r.stateSince = r.checkTime
             /\ r.previousState # r.aggregatedState
    /\ tidy.step = "remove" => tidy.cutoff <= clock - Retention
    /\ KeptChecksAreStored
=============================================================================
