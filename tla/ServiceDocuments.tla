-------------------------- MODULE ServiceDocuments --------------------------
(***************************************************************************)
(* The documents of one namespace's services, which two goroutines write:  *)
(* a reload stores annotations, port and replicas, and the deployment      *)
(* updater reads a whole document and writes the whole of it back with     *)
(* other replicas.  The deletion of stale services removes documents, a    *)
(* start may drop the database, the watcher knows only the services that   *)
(* were stored when the process started, and the scheduler scrapes what    *)
(* the documents say.                                                      *)
(*                                                                         *)
(* Reloads are those of NamespaceReload, the channels between the          *)
(* watcher and the updater to DeploymentSync, and time to StaleServices:   *)
(* here a document is old enough to be deleted once two reloads missed it. *)
(***************************************************************************)
EXTENDS HealthAnnotations, Queries

CONSTANTS
    Services,           \* the names of the services
    Objects,            \* what Kubernetes may hold of a service and its deployment
    NamespaceObjects,   \* the annotations the namespace may have
    Namespace,          \* its name
    MaxUpdates,         \* bound: the most updates on their way to the updater
    MaxChanges,         \* bound: the most changes of the cluster
    MaxCrashes          \* bound: the most ends of the process

Gone == [exists |-> FALSE, replicas |-> None]   \* no such service, or none with a deployment

ASSUME ServicesAssumption == IsFiniteSet(Services)
ASSUME ObjectsAssumption ==
    /\ Objects \subseteq {o \in ServiceObject : o.exists /\ o.replicas # None}
    /\ NamespaceObjects \subseteq NamespaceObject
ASSUME BoundsAssumption == {MaxUpdates, MaxChanges, MaxCrashes} \subseteq Nat

VARIABLES
    annotated,       \* Kubernetes' namespace
    cluster,         \* Kubernetes' services
    documents,       \* the collection, by name
    missed,          \* reloads that began since a document's updatedAt, up to 2
    up,              \* is the process running?
    restrictToNamespaces,   \* the namespaces it scrapes and watches, or none
    servicesState,   \* the watcher's map: replicas by name
    watch,           \* the watcher: off, opening or open
    updates,         \* updates on their way to the updater
    updater,         \* the updater, between its read and its write
    reload,          \* the scan of a reload
    queued,          \* what it has sent to be upserted
    changes, crashes,
    changed,         \* history: services changed since the last reload began
    confirmed        \* history: services a reload has stored as they are now

clusterVars == <<annotated, cluster, changes, changed>>
storeVars == <<documents, missed, confirmed>>
watchVars == <<servicesState, watch, updates>>
reloadVars == <<reload, queued>>
process == <<up, restrictToNamespaces, crashes>>
vars == <<clusterVars, storeVars, watchVars, reloadVars, updater, process>>

Reload == INSTANCE NamespaceReload

Idle == Reload!Idle

Init ==
    /\ annotated \in NamespaceObjects
    /\ cluster \in [Services -> Objects \cup {Gone}]
    /\ documents = <<>> /\ missed = [s \in Services |-> 0]
    /\ up = FALSE /\ restrictToNamespaces = {}
    /\ servicesState = <<>> /\ watch = "off" /\ updates = <<>> /\ updater = Idle
    /\ reload = Idle /\ queued = {}
    /\ changes = 0 /\ crashes = 0
    /\ changed = Services /\ confirmed = {}

-----------------------------------------------------------------------------
(* The process.                                                            *)

(* Started with DROP_DB, which is done before anything that may panic.     *)
DropDB ==
    /\ ~up
    /\ documents' = <<>> /\ missed' = [s \in Services |-> 0] /\ confirmed' = {}
    /\ UNCHANGED <<clusterVars, watchVars, reloadVars, updater, process>>

(* The map is loaded from the collection.  Without a list of namespaces    *)
(* none is watched.                                                        *)
Start ==
    /\ ~up
    /\ up' = TRUE
    /\ restrictToNamespaces' \in SUBSET {Namespace}
    /\ servicesState' = [s \in DOMAIN documents |-> documents[s].replicas]
    /\ watch' = IF Namespace \in restrictToNamespaces' THEN "opening" ELSE "off"
    /\ UNCHANGED <<clusterVars, storeVars, reloadVars, updates, updater, crashes>>

(* Any time may pass before the next start.                                *)
Crash ==
    /\ up /\ crashes < MaxCrashes
    /\ up' = FALSE /\ restrictToNamespaces' = {} /\ crashes' = crashes + 1
    /\ servicesState' = <<>> /\ watch' = "off" /\ updates' = <<>> /\ updater' = Idle
    /\ reload' = Idle /\ queued' = {}
    /\ missed' = [s \in Services |-> IF s \in DOMAIN documents THEN 2 ELSE 0]
    /\ UNCHANGED <<clusterVars, documents, confirmed>>

-----------------------------------------------------------------------------
(* A reload.                                                               *)

StartReload ==
    /\ up
    /\ Reload!Begin
    /\ missed' = [s \in Services |-> IF s \in DOMAIN documents /\ missed[s] < 2
                                       THEN missed[s] + 1 ELSE missed[s]]
    /\ updater' = IF updater = Idle \/ updater.missed = 2 THEN updater
                  ELSE [updater EXCEPT !.missed = @ + 1]
    /\ changed' = {}
    /\ UNCHANGED <<changes, confirmed, watchVars, process>>

untouched == <<changes, changed, missed, confirmed, watchVars, updater, process>>
ListServices == Reload!ListServices /\ UNCHANGED untouched
ListDeployments == Reload!ListDeployments /\ UNCHANGED untouched
ScanFails == Reload!ScanFails /\ UNCHANGED untouched
UpsertFails == Reload!UpsertFails /\ UNCHANGED untouched

(* The document is new now, and an update that read it before is late.     *)
Upsert(s) ==
    /\ Reload!Upsert(s)
    /\ missed' = [missed EXCEPT ![s] = 0]
    /\ confirmed' = IF s \in changed THEN confirmed \ {s} ELSE confirmed \cup {s}
    /\ updater' = IF updater # Idle /\ updater.service = s
                    THEN [updater EXCEPT !.overtaken = TRUE] ELSE updater
    /\ UNCHANGED <<changes, changed, watchVars, process>>

(* RemoveServicesNotReloadedRecently.                                      *)
RemoveStale(s) ==
    /\ s \in DOMAIN documents /\ missed[s] = 2
    /\ documents' = [t \in DOMAIN documents \ {s} |-> documents[t]]
    /\ missed' = [missed EXCEPT ![s] = 0]
    /\ confirmed' = confirmed \ {s}
    /\ UNCHANGED <<clusterVars, watchVars, reloadVars, updater, process>>

-----------------------------------------------------------------------------
(* The watcher and the updater.                                            *)

News(s, n) == s \in DOMAIN servicesState /\ servicesState[s] # n

(* The stream begins with what is there, in any order.                     *)
OpenWatch ==
    /\ watch = "opening"
    /\ watch' = "open"
    /\ LET fresh == {s \in Services : cluster[s] # Gone /\ News(s, cluster[s].replicas)}
       IN /\ \E order \in SetToSeqs({[service |-> s, replicas |-> cluster[s].replicas] : s \in fresh}) :
                updates' = order
          /\ servicesState' = [s \in DOMAIN servicesState |->
                                  IF s \in fresh THEN cluster[s].replicas ELSE servicesState[s]]
    /\ UNCHANGED <<clusterVars, storeVars, reloadVars, updater, process>>

(* Another namespace is watched from now on.                               *)
EndWatch ==
    /\ watch = "open"
    /\ watch' = "off"
    /\ UNCHANGED <<clusterVars, storeVars, servicesState, updates, reloadVars, updater, process>>

(* A service is made, changed, scaled or removed.  The event of a removal  *)
(* carries the replicas that the map has already.                          *)
Change(s, object) ==
    /\ changes < MaxChanges /\ object # cluster[s]
    /\ changes' = changes + 1
    /\ cluster' = [cluster EXCEPT ![s] = object]
    /\ changed' = changed \cup {s} /\ confirmed' = confirmed \ {s}
    /\ IF watch = "open" /\ object # Gone /\ News(s, object.replicas)
         THEN /\ Len(updates) < MaxUpdates
              /\ updates' = Append(updates, [service |-> s, replicas |-> object.replicas])
              /\ servicesState' = [servicesState EXCEPT ![s] = object.replicas]
         ELSE UNCHANGED <<updates, servicesState>>
    /\ UNCHANGED <<annotated, documents, missed, watch, reloadVars, updater, process>>

Annotate(object) ==
    /\ changes < MaxChanges /\ object # annotated
    /\ changes' = changes + 1
    /\ annotated' = object
    /\ changed' = Services /\ confirmed' = {}
    /\ UNCHANGED <<cluster, documents, missed, watchVars, reloadVars, updater, process>>

(* Mutation of Updated: the annotations are left out.                      *)
WithoutAnnotations(document, n) ==
    [document EXCEPT !.replicas = n, !.annotations = DefaultAnnotations]

Updated(document, n) == [document EXCEPT !.replicas = n]

ReadDocument ==
    /\ updater = Idle /\ updates # <<>>
    /\ updates' = Tail(updates)
    /\ LET u == Head(updates)
       IN /\ u.service \in DOMAIN documents
          /\ updater' = [step |-> "write", service |-> u.service, missed |-> missed[u.service],
                         document |-> Updated(documents[u.service], u.replicas), overtaken |-> FALSE]
    /\ UNCHANGED <<clusterVars, storeVars, servicesState, watch, reloadVars, process>>

(* There is no document, or it cannot be read.                             *)
ReadFails ==
    /\ updater = Idle /\ updates # <<>>
    /\ updates' = Tail(updates)
    /\ UNCHANGED <<clusterVars, storeVars, servicesState, watch, reloadVars, updater, process>>

(* The whole document is written, if need be as a new one.                 *)
WriteDocument ==
    /\ updater # Idle
    /\ Reload!Stored(updater.service, updater.document)
    /\ missed' = [missed EXCEPT ![updater.service] = updater.missed]
    /\ confirmed' = IF updater.overtaken THEN confirmed \ {updater.service} ELSE confirmed
    /\ updater' = Idle
    /\ UNCHANGED <<clusterVars, watchVars, reloadVars, process>>

WriteFails ==
    /\ updater # Idle
    /\ updater' = Idle
    /\ UNCHANGED <<clusterVars, storeVars, watchVars, reloadVars, process>>

Update == ReadDocument \/ ReadFails \/ WriteDocument \/ WriteFails

Next ==
    \/ DropDB \/ Start \/ Crash
    \/ StartReload \/ ListServices \/ ListDeployments \/ ScanFails \/ UpsertFails
    \/ \E s \in Services : Upsert(s) \/ RemoveStale(s)
    \/ OpenWatch \/ EndWatch \/ Update
    \/ \E s \in Services, object \in Objects \cup {Gone} : Change(s, object)
    \/ \E object \in NamespaceObjects : Annotate(object)

(* The process is started again, the ticker asks for reloads for ever, and *)
(* the goroutines run.  A scan that is tried again and again comes through *)
(* in the end, and so does an upsert.                                      *)
Fairness ==
    /\ WF_vars(Start) /\ WF_vars(StartReload)
    /\ WF_vars(ListServices \/ ListDeployments \/ ScanFails)
    /\ SF_vars(ListServices) /\ SF_vars(ListDeployments)
    /\ \A s \in Services : SF_vars(Upsert(s))
    /\ WF_vars(OpenWatch) /\ WF_vars(Update)

Spec == Init /\ [][Next]_vars /\ Fairness
-----------------------------------------------------------------------------
(* Properties.                                                             *)

Items ==
    {i \in {ServiceItem(s, o, NamespaceAnnotations(a), p.replicas) :
              s \in Services, o \in Objects, a \in NamespaceObjects, p \in Objects} : ~i.failed}

(* Every variable holds values of the program's types.  Of the services    *)
(* whose port is no number only those without ports are stored or on their *)
(* way there (discovery.go:345-359).                                       *)
TypeOK ==
    /\ annotated \in NamespaceObjects /\ cluster \in [Services -> Objects \cup {Gone}]
    /\ DOMAIN documents \subseteq Services
    /\ \A s \in DOMAIN documents : documents[s] \in Items /\ documents[s].service = s
    /\ missed \in [Services -> 0..2]
    /\ up \in BOOLEAN /\ restrictToNamespaces \subseteq {Namespace} /\ watch \in {"off", "opening", "open"}
    /\ servicesState \in [DOMAIN servicesState -> Nat] /\ DOMAIN servicesState \subseteq Services
    /\ updates \in Seq([service : Services, replicas : Nat])
    /\ updater # Idle => updater.document \in Items /\ updater.missed \in 0..2
    /\ reload.step \in {"wait", "services", "deployments"}
    /\ queued \subseteq Items
    /\ changes \in 0..MaxChanges /\ crashes \in 0..MaxCrashes
    /\ changed \subseteq Services /\ confirmed \subseteq Services

(* The configuration of a service, by the README's words on annotations.   *)
Annotations(s) == Effective(cluster[s], annotated)
Port(s) == getAppPortForService(cluster[s].ports, Annotations(s).port)

(* Annotations and port that a reload has stored after they last changed   *)
(* stay in the document, whatever the updater writes: but for an update    *)
(* whose read came before the reload's upsert and whose write comes after  *)
(* it (repository.go:74, 188-202).                                         *)
StoredAnnotationsStay ==
    \A s \in confirmed :
        /\ s \in DOMAIN documents
        /\ documents[s].annotations = Annotations(s)
        /\ documents[s].appPort = Port(s).appPort

(* An int32 can hold it.                                                   *)
Fits(port) == Int32(port) = port

(* Where pods are scraped, however late: at the target of a port of their  *)
(* service that has the number the README's annotations ask for, and at    *)
(* the annotation's own text if none has a target.  If that is no number,  *)
(* the service has no ports; what a number too wide for a port matches is  *)
(* left open (discovery.go:333-359).                                       *)
AppPortIsTheTarget ==
    \A s \in confirmed :
        LET asked == Annotations(s).port
            ports == Range(cluster[s].ports)
            targets == {TargetText(p.target) :
                           p \in {q \in ports : q.port = asked /\ HasTarget(q.target)}}
        IN /\ asked # Unset /\ (asked = Malformed => ports = {})
           /\ Fits(asked) => documents[s].appPort \in IF targets = {} THEN {PortText(asked)} ELSE targets

Scraped ==
    LET services == {Service(Namespace, s, documents[s].annotations.enableScrape,
                             documents[s].replicas) : s \in DOMAIN documents}
    IN {d.name : d \in FindAllServicesWithHealthScrapeEnabled(services, restrictToNamespaces)}

AsInTheCluster(s) ==
    /\ cluster[s] # Gone
    /\ documents[s].annotations = Annotations(s)
    /\ documents[s].appPort = Port(s).appPort
    /\ documents[s].replicas = cluster[s].replicas
    /\ s \in Scraped <=>
          /\ Annotations(s).enableScrape = "true"
          /\ restrictToNamespaces = {} \/ cluster[s].replicas > 0

(* Once the cluster has come to rest, every service that it has and that   *)
(* can be stored is stored again and again, after each deletion and on a   *)
(* dropped database too, and documents and what is scraped come to follow  *)
(* the cluster for good, also those of services that the watcher does not  *)
(* know, whose updates were lost, or which an update had set back: later   *)
(* reloads see to it (discovery.go:130, 188-270, repository.go:64-80,      *)
(* 184-212, 311-327).                                                      *)
DocumentsFollowTheCluster ==
    <>[][UNCHANGED <<annotated, cluster>>]_vars =>
        \A s \in Services :
            <>[](up /\ cluster[s] # Gone /\ ~Port(s).failed)
                => /\ []<>(s \in DOMAIN documents)
                   /\ <>[](s \in DOMAIN documents => AsInTheCluster(s))
=============================================================================
