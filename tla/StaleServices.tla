--------------------------- MODULE StaleServices ----------------------------
(***************************************************************************)
(* How services stay in the collection and leave it, in time: reloads      *)
(* refresh the updatedAt of the services of the cluster, and               *)
(* RemoveServicesNotReloadedRecently deletes those that were not refreshed *)
(* (internal/db/repository.go).  Both run on tickers of main.go that are   *)
(* made at the same moment, so both are due in the same tick of this       *)
(* module's time, in either order.  A ticker first fires one interval      *)
(* after the process started.                                              *)
(*                                                                         *)
(* A tick is a number of minutes: a database operation takes less than a   *)
(* tick, a reload takes at most ScanTime ticks.  The capacity of the       *)
(* channel Services and reloads that overlap are left to ConfigReload.     *)
(***************************************************************************)
EXTENDS Integers, FiniteSets

CONSTANTS
    Services,                     \* services of the cluster, gone or not
    Namespaces,
    NamespaceOf,                  \* the namespace of each service
    ReloadServicesIntervalMins,   \* between reloads, and between deletions (60)
    safetyMarginMinutes,          \* 20
    ScanTime,                     \* the most a reload takes
    MaxAge,                       \* bound: ages are counted up to this
    MaxUpdaters,                  \* bound: upserting goroutines are counted up to this
    MaxBegun,                     \* bound: begun is counted up to this
    MaxFailures                   \* bound: failures is counted up to this

ASSUME NamespaceAssumption == NamespaceOf \in [Services -> Namespaces]
ASSUME IntervalAssumption ==
    /\ ReloadServicesIntervalMins \in Nat \ {0}
    /\ safetyMarginMinutes \in Nat
    /\ ScanTime \in 0..(ReloadServicesIntervalMins - 1)
ASSUME BoundsAssumption ==
    /\ MaxAge \in Nat
    /\ MaxAge > 2 * ReloadServicesIntervalMins + safetyMarginMinutes
    /\ MaxUpdaters \in Nat \ {0}
    /\ MaxBegun \in Nat /\ MaxFailures \in Nat

VARIABLES
    cluster,      \* services that a reload would find now
    stored,       \* services with a document in the collection
    age,          \* minutes since the document's updatedAt
    begun,        \* history: reloads that began since then
    up,           \* is the process running?
    untilTick,    \* until the tickers fire
    reloadDue, tidyDue,   \* the tickers have fired
    scan,         \* the reload
    queued,       \* services listed by a reload and not yet upserted
    updaters,     \* goroutines upserting services
    tidy,         \* the deletion of stale services
    update,       \* the deployment updater, between its read and its write
    failures      \* history: how many reloads have failed since one succeeded

docVars == <<stored, age, begun>>
tickerVars == <<untilTick, reloadDue, tidyDue>>
reloadVars == <<scan, queued, updaters, failures>>
vars == <<cluster, docVars, up, tickerVars, reloadVars, tidy, update>>

Waiting == [step |-> "wait"]
Most(a, b) == IF a < b THEN a ELSE b

(* The document of a service that has none, so that equal states are equal.*)
Forget(s) == age' = [age EXCEPT ![s] = 0] /\ begun' = [begun EXCEPT ![s] = 0]

(* updatedAt > now - 80 minutes.                                           *)
RecentlyUpdated(s) == s \in stored /\ age[s] < ReloadServicesIntervalMins + safetyMarginMinutes

(* Mutation of Stale: one interval is not doubled.                         *)
StaleAfterOneInterval(s) ==
    s \in stored /\ age[s] > ReloadServicesIntervalMins + safetyMarginMinutes

(* updatedAt < now - 140 minutes.                                          *)
Stale(s) == s \in stored /\ age[s] > 2 * ReloadServicesIntervalMins + safetyMarginMinutes

Init ==
    /\ cluster \in SUBSET Services
    /\ stored = {}
    /\ age = [s \in Services |-> 0]
    /\ begun = [s \in Services |-> 0]
    /\ up = TRUE
    /\ untilTick = ReloadServicesIntervalMins
    /\ reloadDue = FALSE /\ tidyDue = FALSE
    /\ scan = Waiting
    /\ queued = {}
    /\ updaters = 0
    /\ tidy = Waiting
    /\ update = Waiting
    /\ failures = 0

-----------------------------------------------------------------------------
(* Reloads.                                                                *)

(* The ticker's request is taken, goroutines are started that upsert       *)
(* services, and one that scans the cluster.                               *)
StartReload ==
    /\ up /\ reloadDue
    /\ scan = Waiting
    /\ reloadDue' = FALSE
    /\ scan' = [step |-> "scan", left |-> Namespaces, time |-> 0]
    /\ updaters' = Most(updaters + 1, MaxUpdaters)
    /\ begun' = [s \in Services |-> IF s \in stored THEN Most(begun[s] + 1, MaxBegun) ELSE 0]
    /\ update' = IF update = Waiting THEN update
                 ELSE [update EXCEPT !.begun = Most(@ + 1, MaxBegun)]
    /\ UNCHANGED <<cluster, stored, age, up, untilTick, tidyDue, queued, tidy, failures>>

(* Mutation of ScanNamespace: a service needs no deployment.               *)
ScanNamespaceBlindly(n) ==
    /\ scan.step = "scan"
    /\ n \in scan.left
    /\ scan' = [scan EXCEPT !.left = @ \ {n}]
    /\ queued' = queued \cup {s \in Services : NamespaceOf[s] = n}
    /\ UNCHANGED <<cluster, docVars, up, tickerVars, updaters, failures, tidy, update>>

(* A namespace's services with a deployment are sent to be upserted.       *)
ScanNamespace(n) ==
    /\ scan.step = "scan"
    /\ n \in scan.left
    /\ scan' = [scan EXCEPT !.left = @ \ {n}]
    /\ queued' = queued \cup {s \in cluster : NamespaceOf[s] = n}
    /\ UNCHANGED <<cluster, docVars, up, tickerVars, updaters, failures, tidy, update>>

(* Its deployments cannot be listed: it is as if it had none.              *)
SkipNamespace(n) ==
    /\ scan.step = "scan"
    /\ n \in scan.left
    /\ scan' = [scan EXCEPT !.left = @ \ {n}]
    /\ UNCHANGED <<cluster, docVars, up, tickerVars, queued, updaters, failures, tidy, update>>

(* The namespaces, or a namespace's services, cannot be listed: the rest   *)
(* is not looked at.                                                       *)
ScanFails ==
    /\ scan.step = "scan"
    /\ scan.left # {}
    /\ scan' = Waiting
    /\ failures' = Most(failures + 1, MaxFailures)
    /\ UNCHANGED <<cluster, docVars, up, tickerVars, queued, updaters, tidy, update>>

EndScan ==
    /\ scan.step = "scan"
    /\ scan.left = {}
    /\ scan' = Waiting
    /\ failures' = 0
    /\ UNCHANGED <<cluster, docVars, up, tickerVars, queued, updaters, tidy, update>>

(* A reload that was asked for through the API finds some services.        *)
PostReload(found) ==
    /\ up
    /\ queued' = queued \cup found
    /\ updaters' = Most(updaters + 1, MaxUpdaters)
    /\ UNCHANGED <<cluster, docVars, up, tickerVars, scan, failures, tidy, update>>

(* Mutation of Upsert: a document that is not there is not made.           *)
UpdateOnly(s) ==
    /\ s \in queued /\ updaters > 0
    /\ queued' = queued \ {s}
    /\ Forget(s)
    /\ UNCHANGED <<cluster, stored, up, tickerVars, scan, updaters, failures, tidy, update>>

(* Mutation of Upsert: updatedAt is left as it was.                        *)
UpsertKeepingUpdatedAt(s) ==
    /\ s \in queued /\ updaters > 0
    /\ queued' = queued \ {s}
    /\ stored' = stored \cup {s}
    /\ begun' = [begun EXCEPT ![s] = 0]
    /\ UNCHANGED <<cluster, age, up, tickerVars, scan, updaters, failures, tidy, update>>

(* updatedAt becomes now.  Two copies of a service in the channel have the *)
(* effect of the later one.                                                *)
Upsert(s) ==
    /\ s \in queued /\ updaters > 0
    /\ queued' = queued \ {s}
    /\ stored' = stored \cup {s}
    /\ Forget(s)
    /\ UNCHANGED <<cluster, up, tickerVars, scan, updaters, failures, tidy, update>>

(* An upsert fails: the goroutine returns, its service is lost.            *)
UpsertFails(s) ==
    /\ s \in queued /\ updaters > 0
    /\ queued' = queued \ {s}
    /\ updaters' = updaters - 1
    /\ UNCHANGED <<cluster, docVars, up, tickerVars, scan, failures, tidy, update>>

-----------------------------------------------------------------------------
(* RemoveServicesNotReloadedRecently.                                      *)

CountRecent ==
    /\ up /\ tidyDue
    /\ tidy = Waiting
    /\ \E s \in Services : RecentlyUpdated(s)
    /\ tidyDue' = FALSE
    /\ tidy' = [step |-> "remove"]
    /\ UNCHANGED <<cluster, docVars, up, untilTick, reloadDue, reloadVars, update>>

(* Nothing was updated recently, or the count failed.                      *)
SkipTidy ==
    /\ up /\ tidyDue
    /\ tidy = Waiting
    /\ tidyDue' = FALSE
    /\ UNCHANGED <<cluster, docVars, up, untilTick, reloadDue, reloadVars, tidy, update>>

RemoveStale(s) ==
    /\ tidy.step = "remove"
    /\ Stale(s)
    /\ stored' = stored \ {s}
    /\ Forget(s)
    /\ UNCHANGED <<cluster, up, tickerVars, reloadVars, tidy, update>>

(* No stale service is left, or the deletion failed half way.              *)
EndTidy ==
    /\ tidy.step = "remove"
    /\ tidy' = Waiting
    /\ UNCHANGED <<cluster, docVars, up, tickerVars, reloadVars, update>>

-----------------------------------------------------------------------------
(* updateDeployment, for a change of a service's replicas: the document is *)
(* read and the whole of it is written, with the updatedAt it had.         *)

ReadDocument(s) ==
    /\ up
    /\ update = Waiting
    /\ s \in stored
    /\ update' = [step |-> "write", service |-> s, age |-> age[s], begun |-> begun[s]]
    /\ UNCHANGED <<cluster, docVars, up, tickerVars, reloadVars, tidy>>

WriteDocument ==
    /\ update.step = "write"
    /\ stored' = stored \cup {update.service}
    /\ age' = [age EXCEPT ![update.service] = update.age]
    /\ begun' = [begun EXCEPT ![update.service] = update.begun]
    /\ update' = Waiting
    /\ UNCHANGED <<cluster, up, tickerVars, reloadVars, tidy>>

WriteFails ==
    /\ update.step = "write"
    /\ update' = Waiting
    /\ UNCHANGED <<cluster, docVars, up, tickerVars, reloadVars, tidy>>

-----------------------------------------------------------------------------
(* The cluster, the process, and time.                                     *)

Deploy(s) ==
    /\ cluster' = cluster \cup {s}
    /\ UNCHANGED <<docVars, up, tickerVars, reloadVars, tidy, update>>

Undeploy(s) ==
    /\ cluster' = cluster \ {s}
    /\ UNCHANGED <<docVars, up, tickerVars, reloadVars, tidy, update>>

(* A deletion that the server has begun goes on or is broken off.  After a *)
(* crash the reloads that a document has missed are no longer counted.     *)
Crash ==
    /\ up
    /\ up' = FALSE
    /\ untilTick' = ReloadServicesIntervalMins
    /\ reloadDue' = FALSE /\ tidyDue' = FALSE
    /\ scan' = Waiting
    /\ queued' = {}
    /\ updaters' = 0
    /\ tidy' \in {tidy, Waiting}
    /\ update' = Waiting
    /\ begun' = [s \in Services |-> IF s \in stored THEN MaxBegun ELSE 0]
    /\ failures' = IF scan = Waiting THEN failures ELSE Most(failures + 1, MaxFailures)
    /\ UNCHANGED <<cluster, stored, age>>

Start ==
    /\ ~up
    /\ up' = TRUE
    /\ UNCHANGED <<cluster, docVars, tickerVars, reloadVars, tidy, update>>

(* The process may be told to drop the database as it starts.              *)
StartOnDroppedDatabase ==
    /\ ~up
    /\ up' = TRUE
    /\ stored' = {}
    /\ age' = [s \in Services |-> 0]
    /\ begun' = [s \in Services |-> 0]
    /\ UNCHANGED <<cluster, tickerVars, reloadVars, tidy, update>>

(* What has to be done within a tick is done, and a reload that can go on  *)
(* has not taken its time.                                                 *)
Settled ==
    /\ ~reloadDue /\ ~tidyDue
    /\ tidy = Waiting
    /\ update = Waiting
    /\ scan # Waiting => scan.time < ScanTime
    /\ scan = Waiting => queued = {} \/ updaters = 0

(* Mutation of Tick: the tickers fire a tick late.                         *)
TickLate ==
    /\ Settled
    /\ age' = [s \in Services |-> IF s \in stored THEN Most(age[s] + 1, MaxAge) ELSE 0]
    /\ IF ~up THEN UNCHANGED tickerVars
       ELSE IF untilTick > 0 THEN untilTick' = untilTick - 1 /\ UNCHANGED <<reloadDue, tidyDue>>
       ELSE untilTick' = ReloadServicesIntervalMins /\ reloadDue' = TRUE /\ tidyDue' = TRUE
    /\ scan' = IF scan = Waiting THEN scan ELSE [scan EXCEPT !.time = @ + 1]
    /\ UNCHANGED <<cluster, stored, begun, up, queued, updaters, failures, tidy, update>>

Tick ==
    /\ Settled
    /\ age' = [s \in Services |-> IF s \in stored THEN Most(age[s] + 1, MaxAge) ELSE 0]
    /\ IF ~up THEN UNCHANGED tickerVars
       ELSE IF untilTick > 1 THEN untilTick' = untilTick - 1 /\ UNCHANGED <<reloadDue, tidyDue>>
       ELSE untilTick' = ReloadServicesIntervalMins /\ reloadDue' = TRUE /\ tidyDue' = TRUE
    /\ scan' = IF scan = Waiting THEN scan ELSE [scan EXCEPT !.time = @ + 1]
    /\ UNCHANGED <<cluster, stored, begun, up, queued, updaters, failures, tidy, update>>

Reload ==
    \/ StartReload
    \/ \E n \in Namespaces : ScanNamespace(n) \/ SkipNamespace(n)
    \/ ScanFails \/ EndScan
    \/ \E s \in Services : Upsert(s) \/ UpsertFails(s)

Tidy == CountRecent \/ SkipTidy \/ (\E s \in Services : RemoveStale(s)) \/ EndTidy

Update == (\E s \in Services : ReadDocument(s)) \/ WriteDocument \/ WriteFails

Environment ==
    \/ \E s \in Services : Deploy(s) \/ Undeploy(s)
    \/ \E found \in SUBSET cluster : PostReload(found)
    \/ Crash \/ Start \/ StartOnDroppedDatabase

Next == Reload \/ Tidy \/ Update \/ Environment \/ Tick

(* Time does not stand still: only finitely much happens in a tick.  A     *)
(* process that died is started again, and a goroutine that can run does.  *)
(* The API server and the database do not fail every time they are asked:  *)
(* a scan, an upsert, a count or a deletion that is tried again and again  *)
(* succeeds in the end.                                                    *)
Fairness ==
    /\ []<><<Tick>>_vars
    /\ WF_vars(Start \/ StartOnDroppedDatabase)
    /\ WF_vars(StartReload \/ ScanFails \/ EndScan) /\ WF_vars(SkipTidy \/ EndTidy)
    /\ WF_vars(WriteDocument \/ WriteFails)
    /\ \A n \in Namespaces : SF_vars(ScanNamespace(n))
    /\ \A s \in Services : SF_vars(Upsert(s)) /\ SF_vars(RemoveStale(s))
    /\ SF_vars(CountRecent)

SafeSpec == Init /\ [][Next]_vars
Spec == SafeSpec /\ Fairness
-----------------------------------------------------------------------------
(* Properties.                                                             *)

(* Every variable holds values of the program's types.                     *)
TypeOK ==
    /\ cluster \subseteq Services /\ stored \subseteq Services /\ queued \subseteq Services
    /\ age \in [Services -> 0..MaxAge]
    /\ begun \in [Services -> 0..MaxBegun]
    /\ up \in BOOLEAN
    /\ untilTick \in 1..ReloadServicesIntervalMins
    /\ reloadDue \in BOOLEAN /\ tidyDue \in BOOLEAN
    /\ scan \in {Waiting} \cup [step : {"scan"}, left : SUBSET Namespaces, time : 0..ScanTime]
    /\ updaters \in 0..MaxUpdaters
    /\ tidy \in [step : {"wait", "remove"}]
    /\ update \in {Waiting} \cup
          [step : {"write"}, service : Services, age : 0..MaxAge, begun : 0..MaxBegun]
    /\ failures \in 0..MaxFailures

(* Reloads that began and ended since the document of s was last made: the *)
(* one that is running may still refresh it.                               *)
Missed(s) == IF scan = Waiting THEN begun[s] ELSE begun[s] - 1

(* A service that loses its document was missed by two reloads in a row,   *)
(* each of which had its chance, or the process was restarted, be it on a  *)
(* dropped database: one failed reload, a deletion that overtakes the      *)
(* reload of the same tick, or an updater writing an old document back     *)
(* never costs a service its place (repository.go:402, 414; main.go:149,   *)
(* 159).                                                                   *)
OneMissedReloadIsTolerated ==
    [][\A s \in stored \ stored' : Missed(s) >= 2]_vars

(* The age of a document with n reloads begun since its updatedAt, one     *)
(* more due or not, and so much time left until the tickers fire.          *)
Allowed(n, due, left) ==
    (n + IF due THEN 1 ELSE 0) * ReloadServicesIntervalMins + (ReloadServicesIntervalMins - left)

(* What the above rests on: a document, in the collection or in the hands  *)
(* of the updater, is no older than the reloads that began since it was    *)
(* refreshed allow; a reload ends before the next one is due; and a        *)
(* process that is down counts nothing and holds nothing                   *)
(* (main.go:148-165, repository.go:74, 188-202).                           *)
AgeInv ==
    /\ \A s \in stored : begun[s] < MaxBegun => age[s] <= Allowed(begun[s], reloadDue, untilTick)
    /\ update # Waiting /\ update.begun < MaxBegun =>
            update.age <= Allowed(update.begun, reloadDue, untilTick)
    /\ reloadDue \/ tidyDue \/ tidy # Waiting => untilTick = ReloadServicesIntervalMins
    /\ scan # Waiting => ~reloadDue /\ scan.time = ReloadServicesIntervalMins - untilTick
    /\ ~up => /\ scan = Waiting /\ update = Waiting /\ queued = {}
              /\ \A s \in stored : begun[s] = MaxBegun

(* A service that has left the cluster for good leaves the collection for  *)
(* good, whatever reloads fail, as long as some service is refreshed again *)
(* and again and the process stays up (repository.go:410-420).             *)
GoneServicesAreRemoved ==
    \A s \in Services :
        /\ <>[](up /\ s \notin cluster /\ update = Waiting)
        /\ []<>(\E t \in stored : age[t] = 0)
        => <>[](s \notin stored)

(* A service of the cluster that has lost its document, deleted as stale   *)
(* after reloads that failed or never stored, gets one from a later reload *)
(* (discovery.go:203-270, repository.go:69-79).                            *)
LiveServicesAreStored ==
    \A s \in Services : <>[](up /\ s \in cluster) => []<>(s \in stored)

(* What the comment at repository.go:410 says: "we don't want to delete    *)
(* services if the most recent reload did not succeed".  It is of the      *)
(* deletions of a running process: what a start drops does not count.      *)
NoDeletionAfterFailedReload ==
    [][stored \subseteq stored' \/ failures = 0 \/ ~up]_vars
=============================================================================
