--------------------------- MODULE DeploymentSync ---------------------------
(***************************************************************************)
(* How the number of replicas of a deployment reaches the collection of    *)
(* services: WatchDeployments receives Kubernetes' events, compares them   *)
(* with its map ServicesState and forwards what changed; UpdateDeployments *)
(* hands that on (internal/discovery/discovery.go); DoUpdates reads the    *)
(* service's document and writes it back (internal/db/repository.go).  A   *)
(* reload stores the replicas it saw when it listed the deployments, on a  *)
(* way of its own, and the deletion of stale services takes documents out  *)
(* of the same collection.  Of a document only the replicas are kept here. *)
(***************************************************************************)
EXTENDS Integers, FiniteSets, SequencesExt

CONSTANTS
    Services,
    Deployments,
    App,                 \* the service named by a deployment's label "app"
    DeploymentOf,        \* the deployment that has a service's name
    NamespaceOf,         \* the namespace of a deployment
    WatchedNamespaces,   \* restrictToNamespaces, in its order
    Replicas,            \* the replicas a deployment may be given
    EventsCap,           \* capacity of K8sWatchEvents (10)
    UpdatesCap,          \* capacity of UpdatesQueue (10)
    MaxChanges,          \* bound: the most changes of a deployment and
                         \* deletions of a stale document there are together
    MaxRestarts, MaxReloads   \* bounds: the most there are of each

Gone == -1               \* a deployment, a document or an entry that is not there

ASSUME ReplicasAssumption == Replicas \subseteq Nat /\ Replicas # {}
ASSUME LabelsAssumption ==
    App \in [Deployments -> Services] /\ DeploymentOf \in [Services -> Deployments]
ASSUME DeploymentsAssumption == IsFiniteSet(Deployments)
ASSUME CapacityAssumption == {EventsCap, UpdatesCap} \subseteq Nat \ {0}
ASSUME BoundsAssumption == {MaxChanges, MaxRestarts, MaxReloads} \subseteq Nat

VARIABLES
    cluster,          \* the replicas of each deployment in Kubernetes
    watch,            \* which namespace is watched, and whether the stream is open
    stream,           \* events sent by Kubernetes and not yet received
    servicesState,    \* ServicesState: the replicas of each service, as last seen
    watchEvents,      \* the channel K8sWatchEvents
    forwarder,        \* the goroutine in UpdateDeployments
    updatesQueue,     \* the channel UpdatesQueue
    updater,          \* the goroutine in DoUpdates
    stored,           \* the replicas in the document of each service
    reload,           \* services listed by a reload and not yet upserted
    changes, restarts, reloads,   \* how many there have been
    lost,             \* history: services an update of which failed since the start
    deleted,          \* history: services of which a removal was last forwarded since the start
    overwritten,      \* history: services a reload has stored since the start
    removed           \* history: services deleted as stale since the start

watchVars == <<watch, stream, servicesState, watchEvents>>
updateVars == <<forwarder, updatesQueue, updater>>
historyVars == <<lost, deleted, overwritten, removed>>
vars == <<cluster, watchVars, updateVars, stored, reload, changes, restarts, reloads, historyVars>>

Idle == [step |-> "idle"]
Event(type, d, n) == [type |-> type, deployment |-> d, replicas |-> n]

Init ==
    /\ cluster \in [Deployments -> Replicas]
    /\ watch = [index |-> 1, step |-> "opening"]
    /\ stream = <<>>
    /\ stored \in [Services -> Replicas \cup {Gone}]
    /\ servicesState = stored
    /\ watchEvents = <<>> /\ forwarder = Idle /\ updatesQueue = <<>> /\ updater = Idle
    /\ reload = [s \in Services |-> Gone]
    /\ changes = 0 /\ restarts = 0 /\ reloads = 0
    /\ lost = {} /\ deleted = {} /\ overwritten = {} /\ removed = {}

Watching(d) ==
    /\ watch.step = "open"
    /\ NamespaceOf[d] = WatchedNamespaces[watch.index]

-----------------------------------------------------------------------------
(* WatchDeployments: one namespace after the other.                        *)

(* The stream begins with what the namespace has, in any order.            *)
OpenWatch ==
    /\ watch.step = "opening"
    /\ watch.index <= Len(WatchedNamespaces)
    /\ LET present == {d \in Deployments :
                          NamespaceOf[d] = WatchedNamespaces[watch.index] /\ cluster[d] # Gone}
       IN \E order \in SetToSeqs({Event("ADDED", d, cluster[d]) : d \in present}) : stream' = order
    /\ watch' = [watch EXCEPT !.step = "open"]
    /\ UNCHANGED <<cluster, servicesState, watchEvents, updateVars, stored, reload,
                   changes, restarts, reloads, historyVars>>

(* The API server ends the stream, as it does after some time.             *)
CloseStream ==
    /\ watch.step = "open"
    /\ watch' = [watch EXCEPT !.step = "closed"]
    /\ UNCHANGED <<cluster, stream, servicesState, watchEvents, updateVars, stored, reload,
                   changes, restarts, reloads, historyVars>>

(* The range over the stream ends: on to the next namespace.               *)
NextNamespace ==
    /\ watch.step = "closed"
    /\ stream = <<>>
    /\ watch' = [index |-> watch.index + 1, step |-> "opening"]
    /\ UNCHANGED <<cluster, stream, servicesState, watchEvents, updateVars, stored, reload,
                   changes, restarts, reloads, historyVars>>

(* Mutation of HandleEvent: the map is not brought up to date.             *)
HandleForgetfully ==
    /\ stream # <<>>
    /\ LET event == Head(stream)
           s == App[event.deployment]
       IN IF servicesState[s] = Gone \/ servicesState[s] = event.replicas
            THEN UNCHANGED <<servicesState, watchEvents, deleted>>
            ELSE /\ Len(watchEvents) < EventsCap
                 /\ watchEvents' = Append(watchEvents,
                        [type |-> event.type, service |-> s, replicas |-> event.replicas])
                 /\ deleted' = IF event.type = "DELETED" THEN deleted \cup {s} ELSE deleted \ {s}
                 /\ UNCHANGED servicesState
    /\ stream' = Tail(stream)
    /\ UNCHANGED <<cluster, watch, updateVars, stored, reload, changes, restarts, reloads,
                   lost, overwritten, removed>>

(* An event of a service that is not in the map, or with the replicas that *)
(* are there, is passed over, whatever its type.  Any other is forwarded,  *)
(* once the channel has room.                                              *)
HandleEvent ==
    /\ stream # <<>>
    /\ LET event == Head(stream)
           s == App[event.deployment]
       IN IF servicesState[s] = Gone \/ servicesState[s] = event.replicas
            THEN UNCHANGED <<servicesState, watchEvents, deleted>>
            ELSE /\ Len(watchEvents) < EventsCap
                 /\ servicesState' = [servicesState EXCEPT ![s] = event.replicas]
                 /\ watchEvents' = Append(watchEvents,
                        [type |-> event.type, service |-> s, replicas |-> event.replicas])
                 /\ deleted' = IF event.type = "DELETED" THEN deleted \cup {s} ELSE deleted \ {s}
    /\ stream' = Tail(stream)
    /\ UNCHANGED <<cluster, watch, updateVars, stored, reload, changes, restarts, reloads,
                   lost, overwritten, removed>>

Watcher == OpenWatch \/ NextNamespace \/ HandleEvent

-----------------------------------------------------------------------------
(* UpdateDeployments: from one channel to the other.                       *)

ReceiveEvent ==
    /\ forwarder = Idle
    /\ watchEvents # <<>>
    /\ forwarder' = [step |-> "forward", item |-> Head(watchEvents)]
    /\ watchEvents' = Tail(watchEvents)
    /\ UNCHANGED <<cluster, watch, stream, servicesState, updatesQueue, updater, stored, reload,
                   changes, restarts, reloads, historyVars>>

ForwardEvent ==
    /\ forwarder.step = "forward"
    /\ Len(updatesQueue) < UpdatesCap
    /\ updatesQueue' = Append(updatesQueue, forwarder.item)
    /\ forwarder' = Idle
    /\ UNCHANGED <<cluster, watchVars, updater, stored, reload, changes, restarts, reloads, historyVars>>

-----------------------------------------------------------------------------
(* DoUpdates: processDeployment and updateDeployment.                      *)

(* Mutation of TakeUpdate: the document is to be removed.                  *)
TakeRemoval ==
    /\ updater = Idle
    /\ updatesQueue # <<>>
    /\ LET item == Head(updatesQueue)
       IN updater' = [step |-> "find", service |-> item.service,
                      desiredReplicas |-> IF item.type = "DELETED" THEN Gone ELSE item.replicas]
    /\ updatesQueue' = Tail(updatesQueue)
    /\ UNCHANGED <<cluster, watchVars, forwarder, stored, reload, changes, restarts, reloads, historyVars>>

TakeUpdate ==
    /\ updater = Idle
    /\ updatesQueue # <<>>
    /\ LET item == Head(updatesQueue)
       IN updater' = [step |-> "find", service |-> item.service,
                      desiredReplicas |-> IF item.type = "DELETED" THEN 0 ELSE item.replicas]
    /\ updatesQueue' = Tail(updatesQueue)
    /\ UNCHANGED <<cluster, watchVars, forwarder, stored, reload, changes, restarts, reloads, historyVars>>

FindService ==
    /\ updater.step = "find"
    /\ stored[updater.service] # Gone
    /\ updater' = [updater EXCEPT !.step = "write"]
    /\ UNCHANGED <<cluster, watchVars, forwarder, updatesQueue, stored, reload,
                   changes, restarts, reloads, historyVars>>

WriteService ==
    /\ updater.step = "write"
    /\ stored' = [stored EXCEPT ![updater.service] = updater.desiredReplicas]
    /\ updater' = Idle
    /\ UNCHANGED <<cluster, watchVars, forwarder, updatesQueue, reload,
                   changes, restarts, reloads, historyVars>>

(* The document is not found, or an operation fails: logged, and given up. *)
UpdateFails ==
    /\ updater # Idle
    /\ lost' = lost \cup {updater.service}
    /\ updater' = Idle
    /\ UNCHANGED <<cluster, watchVars, forwarder, updatesQueue, stored, reload,
                   changes, restarts, reloads, deleted, overwritten, removed>>

Updater == TakeUpdate \/ FindService \/ WriteService \/ UpdateFails

-----------------------------------------------------------------------------
(* A reload, as far as it stores replicas.                                 *)

ReloadLists(s) ==
    /\ reloads < MaxReloads
    /\ cluster[DeploymentOf[s]] # Gone
    /\ reload[s] = Gone
    /\ reload' = [reload EXCEPT ![s] = cluster[DeploymentOf[s]]]
    /\ reloads' = reloads + 1
    /\ UNCHANGED <<cluster, watchVars, updateVars, stored, changes, restarts, historyVars>>

ReloadStores(s) ==
    /\ reload[s] # Gone
    /\ stored' = [stored EXCEPT ![s] = reload[s]]
    /\ reload' = [reload EXCEPT ![s] = Gone]
    /\ overwritten' = overwritten \cup {s}
    /\ UNCHANGED <<cluster, watchVars, updateVars, changes, restarts, reloads, lost, deleted, removed>>

(* RemoveServicesNotReloadedRecently deletes the document.  When it may is *)
(* StaleServices' subject, so here it may at any time.                     *)
RemoveStale(s) ==
    /\ changes < MaxChanges
    /\ stored[s] # Gone
    /\ stored' = [stored EXCEPT ![s] = Gone]
    /\ changes' = changes + 1
    /\ removed' = removed \cup {s}
    /\ UNCHANGED <<cluster, watchVars, updateVars, reload, restarts, reloads,
                   lost, deleted, overwritten>>

-----------------------------------------------------------------------------
(* The cluster and the process.                                            *)

(* A deployment is made, scaled or deleted; Kubernetes says so to whoever  *)
(* watches its namespace.                                                  *)
Change(d, n) ==
    /\ changes < MaxChanges
    /\ n # cluster[d]
    /\ cluster' = [cluster EXCEPT ![d] = n]
    /\ changes' = changes + 1
    /\ stream' = IF ~Watching(d) THEN stream
                 ELSE Append(stream, IF n = Gone THEN Event("DELETED", d, cluster[d])
                                     ELSE IF cluster[d] = Gone THEN Event("ADDED", d, n)
                                     ELSE Event("MODIFIED", d, n))
    /\ UNCHANGED <<watch, servicesState, watchEvents, updateVars, stored, reload,
                   restarts, reloads, historyVars>>

(* The collection of a database that has been dropped.                     *)
Dropped == [s \in Services |-> Gone]

(* Mutation of Restart: the map is not loaded, but kept from before.       *)
RestartKeepingState ==
    /\ restarts < MaxRestarts
    /\ restarts' = restarts + 1
    /\ stored' \in {stored, Dropped}
    /\ watch' = [index |-> 1, step |-> "opening"]
    /\ stream' = <<>>
    /\ watchEvents' = <<>> /\ forwarder' = Idle /\ updatesQueue' = <<>> /\ updater' = Idle
    /\ reload' = [s \in Services |-> Gone]
    /\ lost' = {} /\ deleted' = {} /\ overwritten' = {} /\ removed' = {}
    /\ UNCHANGED <<cluster, servicesState, changes, reloads>>

(* The process ends, as it does on an event that is an error, and starts   *)
(* again: the database is dropped if the program is told to, and the map   *)
(* is loaded from the collection.                                          *)
Restart ==
    /\ restarts < MaxRestarts
    /\ restarts' = restarts + 1
    /\ stored' \in {stored, Dropped}
    /\ servicesState' = stored'
    /\ watch' = [index |-> 1, step |-> "opening"]
    /\ stream' = <<>>
    /\ watchEvents' = <<>> /\ forwarder' = Idle /\ updatesQueue' = <<>> /\ updater' = Idle
    /\ reload' = [s \in Services |-> Gone]
    /\ lost' = {} /\ deleted' = {} /\ overwritten' = {} /\ removed' = {}
    /\ UNCHANGED <<cluster, changes, reloads>>

Next ==
    \/ Watcher \/ CloseStream
    \/ ReceiveEvent \/ ForwardEvent
    \/ Updater
    \/ \E s \in Services : ReloadLists(s) \/ ReloadStores(s) \/ RemoveStale(s)
    \/ \E d \in Deployments, n \in Replicas \cup {Gone} : Change(d, n)
    \/ Restart

(* Goroutines that can run do, and Kubernetes delivers its events; nobody  *)
(* has to scale, to restart, or to end a stream.                           *)
Fairness ==
    /\ WF_vars(Watcher)
    /\ WF_vars(ReceiveEvent) /\ WF_vars(ForwardEvent)
    /\ WF_vars(Updater)
    /\ \A s \in Services : WF_vars(ReloadStores(s))

SafeSpec == Init /\ [][Next]_vars
Spec == SafeSpec /\ Fairness
-----------------------------------------------------------------------------
(* Properties.                                                             *)

EventTypes == {"ADDED", "MODIFIED", "DELETED"}
Events == [type : EventTypes, deployment : Deployments, replicas : Replicas]
Items == [type : EventTypes, service : Services, replicas : Replicas]

(* Every variable holds values of the program's types.                     *)
TypeOK ==
    /\ cluster \in [Deployments -> Replicas \cup {Gone}]
    /\ watch \in [index : Nat, step : {"opening", "open", "closed"}]
    /\ stream \in Seq(Events)
    /\ servicesState \in [Services -> Replicas \cup {0, Gone}]
    /\ watchEvents \in Seq(Items) /\ updatesQueue \in Seq(Items)
    /\ forwarder \in {Idle} \cup [step : {"forward"}, item : Items]
    /\ updater \in {Idle} \cup [step : {"find", "write"}, service : Services,
                                desiredReplicas : Replicas \cup {0}]
    /\ stored \in [Services -> Replicas \cup {0, Gone}]
    /\ reload \in [Services -> Replicas \cup {Gone}]
    /\ changes \in Nat /\ restarts \in Nat /\ reloads \in Nat
    /\ lost \subseteq Services /\ deleted \subseteq Services
    /\ overwritten \subseteq Services /\ removed \subseteq Services

(* An update of the service is on its way.                                 *)
UnderWay(s) ==
    \/ \E item \in ToSet(watchEvents) \cup ToSet(updatesQueue) : item.service = s
    \/ forwarder # Idle /\ forwarder.item.service = s
    \/ updater # Idle /\ updater.service = s

(* The watcher's map, which decides what is forwarded, agrees with the     *)
(* collection it never reads again, once nothing is on its way between     *)
(* them: through two channels and three goroutines, whichever deployments  *)
(* share a label, updates arrive in order, and after a restart those that  *)
(* were lost are not remembered as made (discovery.go:138-145,             *)
(* repository.go:184-202, main.go:114).  The map keeps the entry of a      *)
(* document that is deleted as stale (repository.go:394-426): only such a  *)
(* document is missing from the collection, and one that an update on its  *)
(* way at the time has put back agrees with the map again.                 *)
StateMatchesStore ==
    \A s \in Services \ (lost \cup overwritten) :
        ~UnderWay(s) /\ servicesState[s] # Gone =>
            \/ stored[s] = Gone /\ s \in removed
            \/ stored[s] = IF s \in deleted THEN 0 ELSE servicesState[s]

LabelledAs(s) == {d \in Deployments : App[d] = s}

(* All deployments labelled with s have n replicas, its document and entry *)
(* in the map are there, and no update of it has failed.                   *)
ScaledTo(s, n) ==
    /\ LabelledAs(s) # {} /\ \A d \in LabelledAs(s) : cluster[d] = n
    /\ stored[s] # Gone /\ servicesState[s] # Gone
    /\ s \notin lost

(* The replicas of a service that was known when the process started reach *)
(* its document, whatever is lost in a restart on the way, while its       *)
(* namespace is being watched and no reload stores it.  Left out is one    *)
(* that a removal was the last to write: the map keeps the replicas the    *)
(* removed deployment had, so the next one with as many is passed over and *)
(* the document keeps its 0 (discovery.go:110-147, repository.go:137-212). *)
ScaleChangesArePickedUp ==
    \A s \in Services, n \in Replicas :
        <>[](/\ ScaledTo(s, n) /\ \A d \in LabelledAs(s) : Watching(d)
             /\ s \notin overwritten /\ s \notin deleted)
        => <>[](stored[s] = n)

(* What the comment at discovery.go:96 says: WatchDeployments "sets up     *)
(* Kubernetes API watchers which listen for changes to objects within a    *)
(* list of provided namespaces".                                           *)
EveryNamespaceIsWatched ==
    \A s \in Services, n \in Replicas :
        /\ <>[]ScaledTo(s, n) /\ [](s \notin overwritten)
        /\ \A d \in LabelledAs(s) : NamespaceOf[d] \in ToSet(WatchedNamespaces)
        => <>[](stored[s] = n)
=============================================================================
