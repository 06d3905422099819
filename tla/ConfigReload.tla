---------------------------- MODULE ConfigReload ----------------------------
(***************************************************************************)
(* KubeDiscoveryService.ReloadServiceConfigs and the goroutines it starts  *)
(* for every request (internal/discovery/discovery.go): one scans the      *)
(* cluster and sends what it finds to the channels Namespaces and          *)
(* Services, two upsert what they receive (internal/db/repository.go).     *)
(* All requests share the two channels, and the upserting goroutines of    *)
(* earlier requests never end unless an upsert fails: the scan of one      *)
(* request is stored by the goroutines of all.                             *)
(*                                                                         *)
(* A collection is a sequence of documents.  It has no unique index, so an *)
(* upsert that finds nothing to replace inserts in a later step.           *)
(***************************************************************************)
EXTENDS HealthAnnotations, FiniteSets, Functions

CONSTANTS
    Services,          \* records with a namespace and a name
    Namespaces,
    ServiceObjects,    \* what Kubernetes may hold of a service and its deployment
    NamespaceObjects,  \* the annotations a namespace may have
    ChannelCap,        \* capacity of the channels Namespaces and Services (10)
    Requests,          \* bound: the requests that are made, in their order
    MaxChanges,        \* bound: the most changes of the cluster
    MayOverlap         \* bound: are requests made while earlier ones are at work?

ASSUME ServicesAssumption == \A s \in Services : s.namespace \in Namespaces
ASSUME ObjectsAssumption ==
    ServiceObjects \subseteq ServiceObject /\ NamespaceObjects \subseteq NamespaceObject
ASSUME BoundsAssumption == ChannelCap \in Nat \ {0} /\ Requests \in Nat /\ MaxChanges \in Nat
                           /\ MayOverlap \in BOOLEAN

VARIABLES
    cluster,           \* Kubernetes' services, with their deployments
    annotated,         \* Kubernetes' namespaces
    requests,          \* requests taken from reloadQueue so far
    scan,              \* the scanning goroutine of each request
    namespaceChannel, serviceChannel,       \* the channels Namespaces and Services
    namespaceUpdater, serviceUpdater,       \* the upserting goroutines of each request
    namespaces, services,                   \* the collections
    changes,           \* changes of the cluster so far
    changed,           \* history: objects changed since the last request
    faulty             \* history: a scan or an upsert failed since the last request (kept unless MayOverlap)

clusterVars == <<cluster, annotated, changes, changed>>
vars == <<clusterVars, requests, scan, namespaceChannel, serviceChannel,
          namespaceUpdater, serviceUpdater, namespaces, services, faulty>>

Reloads == 1..Requests
Receiving == [step |-> "receive"]
NotStarted == [step |-> "none"]
Returned == [step |-> "returned"]

Init ==
    /\ cluster \in [Services -> ServiceObjects]
    /\ annotated \in [Namespaces -> NamespaceObjects]
    /\ requests = 0
    /\ scan = [r \in Reloads |-> NotStarted]
    /\ namespaceChannel = <<>> /\ serviceChannel = <<>>
    /\ namespaceUpdater = [r \in Reloads |-> NotStarted]
    /\ serviceUpdater = [r \in Reloads |-> NotStarted]
    /\ namespaces = <<>> /\ services = <<>>
    /\ changes = 0
    /\ changed = {}
    /\ faulty = FALSE

(* Nothing of any request is under way.                                    *)
Quiet ==
    /\ namespaceChannel = <<>> /\ serviceChannel = <<>>
    /\ \A r \in Reloads :
          /\ scan[r] \in {NotStarted, Returned}
          /\ namespaceUpdater[r] \in {NotStarted, Receiving, Returned}
          /\ serviceUpdater[r] \in {NotStarted, Receiving, Returned}

-----------------------------------------------------------------------------
(* The scan: GetClusterHealthcheckConfig.                                  *)

(* Mutation of StartReload: no goroutine receives the namespaces.          *)
StartWithoutNamespaceUpdater ==
    /\ requests < Requests
    /\ MayOverlap \/ Quiet
    /\ LET r == requests + 1
       IN /\ requests' = r
          /\ scan' = [scan EXCEPT ![r] = [step |-> "list"]]
          /\ serviceUpdater' = [serviceUpdater EXCEPT ![r] = Receiving]
    /\ changed' = {} /\ faulty' = FALSE
    /\ UNCHANGED <<cluster, annotated, changes, namespaceUpdater, namespaceChannel, serviceChannel,
                   namespaces, services>>

(* A request is taken; the goroutine for the errors has no part here.      *)
StartReload ==
    /\ requests < Requests
    /\ MayOverlap \/ Quiet
    /\ LET r == requests + 1
       IN /\ requests' = r
          /\ scan' = [scan EXCEPT ![r] = [step |-> "list"]]
          /\ namespaceUpdater' = [namespaceUpdater EXCEPT ![r] = Receiving]
          /\ serviceUpdater' = [serviceUpdater EXCEPT ![r] = Receiving]
    /\ changed' = {} /\ faulty' = FALSE
    /\ UNCHANGED <<cluster, annotated, changes, namespaceChannel, serviceChannel, namespaces, services>>

storeVars == <<requests, namespaceUpdater, serviceUpdater, namespaces, services>>

(* The namespaces are listed, with their annotations.                      *)
ListNamespaces(r) ==
    /\ scan[r].step = "list"
    /\ scan' = [scan EXCEPT ![r] = [step |-> "next", left |-> annotated]]
    /\ UNCHANGED <<clusterVars, storeVars, namespaceChannel, serviceChannel, faulty>>

(* Send the next namespace, once the channel has room.                     *)
SendNamespace(r) ==
    /\ scan[r].step = "next"
    /\ Len(namespaceChannel) < ChannelCap
    /\ \E n \in DOMAIN scan[r].left :
          LET annotations == NamespaceAnnotations(scan[r].left[n])
          IN /\ namespaceChannel' = Append(namespaceChannel, [name |-> n, annotations |-> annotations])
             /\ scan' = [scan EXCEPT ![r] =
                    [step |-> "services", namespace |-> n, annotations |-> annotations,
                     left |-> Restrict(@.left, DOMAIN @.left \ {n})]]
    /\ UNCHANGED <<clusterVars, storeVars, serviceChannel, faulty>>

(* Mutation of ListServices: those of every namespace are listed.          *)
ListAllServices(r) ==
    /\ scan[r].step = "services"
    /\ LET found == {s \in Services : cluster[s].exists}
       IN scan' = [scan EXCEPT ![r] =
            [step |-> "deployments", namespace |-> @.namespace, annotations |-> @.annotations,
             left |-> @.left, found |-> [s \in found |-> cluster[s]]]]
    /\ UNCHANGED <<clusterVars, storeVars, namespaceChannel, serviceChannel, faulty>>

ListServices(r) ==
    /\ scan[r].step = "services"
    /\ LET found == {s \in Services : s.namespace = scan[r].namespace /\ cluster[s].exists}
       IN scan' = [scan EXCEPT ![r] =
            [step |-> "deployments", namespace |-> @.namespace, annotations |-> @.annotations,
             left |-> @.left, found |-> [s \in found |-> cluster[s]]]]
    /\ UNCHANGED <<clusterVars, storeVars, namespaceChannel, serviceChannel, faulty>>

(* Mutation of ListDeployments: a malformed port does not matter.          *)
KeepMalformed(r) ==
    /\ scan[r].step = "deployments"
    /\ LET found == scan[r].found
           items == {ServiceItem(s, found[s], scan[r].annotations, cluster[s].replicas) :
                        s \in {t \in DOMAIN found : cluster[t].replicas # None}}
       IN scan' = [scan EXCEPT ![r] = [step |-> "send", left |-> @.left, items |-> items]]
    /\ UNCHANGED <<clusterVars, storeVars, namespaceChannel, serviceChannel, faulty>>

(* The deployments are listed; a service is kept if one has its name.      *)
ListDeployments(r) ==
    /\ scan[r].step = "deployments"
    /\ LET found == scan[r].found
           items == {ServiceItem(s, found[s], scan[r].annotations, cluster[s].replicas) :
                        s \in {t \in DOMAIN found : cluster[t].replicas # None}}
       IN scan' = [scan EXCEPT ![r] =
            [step |-> "send", left |-> @.left, items |-> {i \in items : ~i.failed}]]
    /\ UNCHANGED <<clusterVars, storeVars, namespaceChannel, serviceChannel, faulty>>

(* The list fails, which is logged: the namespace is as if without any.    *)
ListDeploymentsFails(r) ==
    /\ scan[r].step = "deployments"
    /\ scan' = [scan EXCEPT ![r] = [step |-> "send", left |-> @.left, items |-> {}]]
    /\ faulty' = ~MayOverlap
    /\ UNCHANGED <<clusterVars, storeVars, namespaceChannel, serviceChannel>>

SendService(r) ==
    /\ scan[r].step = "send"
    /\ Len(serviceChannel) < ChannelCap
    /\ \E i \in scan[r].items :
          /\ serviceChannel' = Append(serviceChannel, i)
          /\ scan' = [scan EXCEPT ![r] = [step |-> "send", left |-> @.left, items |-> @.items \ {i}]]
    /\ UNCHANGED <<clusterVars, storeVars, namespaceChannel, faulty>>

NextNamespace(r) ==
    /\ scan[r].step = "send"
    /\ scan[r].items = {}
    /\ scan' = [scan EXCEPT ![r] = [step |-> "next", left |-> @.left]]
    /\ UNCHANGED <<clusterVars, storeVars, namespaceChannel, serviceChannel, faulty>>

EndScan(r) ==
    /\ scan[r].step = "next"
    /\ DOMAIN scan[r].left = {}
    /\ scan' = [scan EXCEPT ![r] = Returned]
    /\ UNCHANGED <<clusterVars, storeVars, namespaceChannel, serviceChannel, faulty>>

(* The namespaces, or a namespace's services, cannot be listed.            *)
ScanFails(r) ==
    /\ scan[r].step \in {"list", "services"}
    /\ scan' = [scan EXCEPT ![r] = Returned]
    /\ faulty' = ~MayOverlap
    /\ UNCHANGED <<clusterVars, storeVars, namespaceChannel, serviceChannel>>

-----------------------------------------------------------------------------
(* The goroutines that upsert services: UpsertServiceConfigs.              *)

scanVars == <<clusterVars, requests, scan>>

(* Mutation of SameService: the namespace is left out of the selector.     *)
SameName(i, j) == i.service.name = j.service.name

SameService(i, j) == i.service = j.service

ReceiveService(r) ==
    /\ serviceUpdater[r] = Receiving
    /\ serviceChannel # <<>>
    /\ serviceUpdater' = [serviceUpdater EXCEPT ![r] =
            [step |-> "upsert", item |-> Head(serviceChannel)]]
    /\ serviceChannel' = Tail(serviceChannel)
    /\ UNCHANGED <<scanVars, namespaceChannel, namespaceUpdater, namespaces, services, faulty>>

(* Mutation of ReplaceService: the document is always inserted.            *)
AlwaysInsert(r) ==
    /\ serviceUpdater[r].step = "upsert"
    /\ serviceUpdater' = [serviceUpdater EXCEPT ![r] = [step |-> "insert", item |-> @.item]]
    /\ UNCHANGED <<scanVars, namespaceChannel, serviceChannel, namespaceUpdater, namespaces, services, faulty>>

(* A document of the service is replaced, or none is found.                *)
ReplaceService(r) ==
    /\ serviceUpdater[r].step = "upsert"
    /\ LET item == serviceUpdater[r].item
           same == {k \in DOMAIN services : SameService(services[k], item)}
       IN \/ \E k \in same :
                /\ services' = [services EXCEPT ![k] = item]
                /\ serviceUpdater' = [serviceUpdater EXCEPT ![r] = Receiving]
          \/ /\ same = {}
             /\ serviceUpdater' = [serviceUpdater EXCEPT ![r] = [step |-> "insert", item |-> @.item]]
             /\ UNCHANGED services
    /\ UNCHANGED <<scanVars, namespaceChannel, serviceChannel, namespaceUpdater, namespaces, faulty>>

InsertService(r) ==
    /\ serviceUpdater[r].step = "insert"
    /\ services' = Append(services, serviceUpdater[r].item)
    /\ serviceUpdater' = [serviceUpdater EXCEPT ![r] = Receiving]
    /\ UNCHANGED <<scanVars, namespaceChannel, serviceChannel, namespaceUpdater, namespaces, faulty>>

(* The upsert fails: the goroutine returns and its service is lost.        *)
UpsertServiceFails(r) ==
    /\ serviceUpdater[r].step \in {"upsert", "insert"}
    /\ serviceUpdater' = [serviceUpdater EXCEPT ![r] = Returned]
    /\ faulty' = ~MayOverlap
    /\ UNCHANGED <<scanVars, namespaceChannel, serviceChannel, namespaceUpdater, namespaces, services>>

-----------------------------------------------------------------------------
(* The goroutines that upsert namespaces: UpsertNamespaceConfigs.          *)

ReceiveNamespace(r) ==
    /\ namespaceUpdater[r] = Receiving
    /\ namespaceChannel # <<>>
    /\ namespaceUpdater' = [namespaceUpdater EXCEPT ![r] =
            [step |-> "upsert", item |-> Head(namespaceChannel)]]
    /\ namespaceChannel' = Tail(namespaceChannel)
    /\ UNCHANGED <<scanVars, serviceChannel, serviceUpdater, namespaces, services, faulty>>

ReplaceNamespace(r) ==
    /\ namespaceUpdater[r].step = "upsert"
    /\ LET item == namespaceUpdater[r].item
           same == {k \in DOMAIN namespaces : namespaces[k].name = item.name}
       IN \/ \E k \in same :
                /\ namespaces' = [namespaces EXCEPT ![k] = item]
                /\ namespaceUpdater' = [namespaceUpdater EXCEPT ![r] = Receiving]
          \/ /\ same = {}
             /\ namespaceUpdater' = [namespaceUpdater EXCEPT ![r] = [step |-> "insert", item |-> @.item]]
             /\ UNCHANGED namespaces
    /\ UNCHANGED <<scanVars, namespaceChannel, serviceChannel, serviceUpdater, services, faulty>>

InsertNamespace(r) ==
    /\ namespaceUpdater[r].step = "insert"
    /\ namespaces' = Append(namespaces, namespaceUpdater[r].item)
    /\ namespaceUpdater' = [namespaceUpdater EXCEPT ![r] = Receiving]
    /\ UNCHANGED <<scanVars, namespaceChannel, serviceChannel, serviceUpdater, services, faulty>>

UpsertNamespaceFails(r) ==
    /\ namespaceUpdater[r].step \in {"upsert", "insert"}
    /\ namespaceUpdater' = [namespaceUpdater EXCEPT ![r] = Returned]
    /\ faulty' = ~MayOverlap
    /\ UNCHANGED <<scanVars, namespaceChannel, serviceChannel, serviceUpdater, namespaces, services>>

-----------------------------------------------------------------------------
(* kubectl.                                                                *)

Change ==
    /\ changes < MaxChanges
    /\ changes' = changes + 1
    /\ \/ \E s \in Services : \E object \in ServiceObjects \ {cluster[s]} :
             /\ cluster' = [cluster EXCEPT ![s] = object]
             /\ changed' = changed \cup {s}
             /\ UNCHANGED annotated
       \/ \E n \in Namespaces : \E object \in NamespaceObjects \ {annotated[n]} :
             /\ annotated' = [annotated EXCEPT ![n] = object]
             /\ changed' = changed \cup {n} \cup {s \in Services : s.namespace = n}
             /\ UNCHANGED cluster
    /\ UNCHANGED <<requests, scan, namespaceChannel, serviceChannel, namespaceUpdater,
                   serviceUpdater, namespaces, services, faulty>>

Scan(r) ==
    \/ ListNamespaces(r) \/ SendNamespace(r) \/ ListServices(r)
    \/ ListDeployments(r) \/ ListDeploymentsFails(r)
    \/ SendService(r) \/ NextNamespace(r) \/ EndScan(r) \/ ScanFails(r)

UpsertServices(r) ==
    ReceiveService(r) \/ ReplaceService(r) \/ InsertService(r) \/ UpsertServiceFails(r)

UpsertNamespaces(r) ==
    ReceiveNamespace(r) \/ ReplaceNamespace(r) \/ InsertNamespace(r) \/ UpsertNamespaceFails(r)

Next ==
    \/ StartReload
    \/ \E r \in Reloads : Scan(r) \/ UpsertServices(r) \/ UpsertNamespaces(r)
    \/ Change

Spec == Init /\ [][Next]_vars
-----------------------------------------------------------------------------
(* Properties.                                                             *)

Settings == [port : Int \ {Unset}, enableScrape : {"true", "false"}]

(* Only a service without ports keeps a malformed port, as it is.          *)
ServiceItems ==
    {i \in [failed : {FALSE}, service : Services, annotations : Settings,
            appPort : Targets, replicas : Nat] :
        i.annotations.port = Malformed => i.appPort = PortText(Malformed)}
NamespaceItems == [name : Namespaces, annotations : Settings]

UpdatersOf(items) ==
    [Reloads -> {NotStarted, Receiving, Returned} \cup [step : {"upsert", "insert"}, item : items]]

PartsOf(S, T) == UNION {[A -> T] : A \in SUBSET S}
ScanStates ==
    LET left == PartsOf(Namespaces, NamespaceObjects)
    IN {NotStarted, Returned} \cup [step : {"list"}]
       \cup [step : {"next"}, left : left]
       \cup [step : {"services"}, namespace : Namespaces, annotations : Settings, left : left]
       \cup [step : {"deployments"}, namespace : Namespaces, annotations : Settings, left : left,
             found : PartsOf(Services, ServiceObjects)]
       \cup [step : {"send"}, left : left, items : SUBSET ServiceItems]

(* Every variable holds values of the program's types: whatever is on its  *)
(* way to a collection, or in one, has every setting filled in.  A port    *)
(* need not be a number: a namespace's is stored as it is, and so is that  *)
(* of a service without ports (discovery.go:213-218, 345-359).             *)
TypeOK ==
    /\ cluster \in [Services -> ServiceObjects]
    /\ annotated \in [Namespaces -> NamespaceObjects]
    /\ requests \in 0..Requests
    /\ scan \in [Reloads -> ScanStates]
    /\ namespaceChannel \in Seq(NamespaceItems) /\ serviceChannel \in Seq(ServiceItems)
    /\ namespaceUpdater \in UpdatersOf(NamespaceItems)
    /\ serviceUpdater \in UpdatersOf(ServiceItems)
    /\ namespaces \in Seq(NamespaceItems) /\ services \in Seq(ServiceItems)
    /\ changes \in 0..MaxChanges
    /\ changed \subseteq Services \cup Namespaces
    /\ faulty \in BOOLEAN

(* What other programs find in the collections.                            *)
FindAllNamespaces == namespaces
FindAllServicesForNamespace(ns) == RestrictValues(services, LAMBDA d : d.service.namespace = ns)

(* One document of those found has the key, and says what it should.       *)
FoundOnce(found, IsKey(_), AsItShould(_)) ==
    \E k \in DOMAIN found : /\ {j \in DOMAIN found : IsKey(found[j])} = {k}
                            /\ AsItShould(found[k])

(* What an item or a document of a namespace or a service should say.      *)
NamespaceAsNow(n, d) ==
    d.annotations = Effective([enable |-> "", port |-> Unset], annotated[n])
ServiceAsNow(s, d) ==
    /\ d.annotations = Effective(cluster[s], annotated[s.namespace])
    /\ d.replicas = cluster[s].replicas

(* The services the last request had to find as they are now.              *)
Settled ==
    {s \in Services \ changed :
        /\ cluster[s].exists /\ cluster[s].replicas # None
        /\ ~getAppPortForService(cluster[s].ports, Effective(cluster[s], annotated[s.namespace]).port).failed}

(* When requests do not overlap, their work included, and nothing fails,   *)
(* every namespace and service that did not change since the last request  *)
(* is found once and as the cluster has it, by the README's words on       *)
(* annotations, whatever services share its name and however many          *)
(* goroutines share the channels (discovery.go:62-71, 203-270,             *)
(* repository.go:277-309).                                                 *)
CalmReloadsStoreTheCluster ==
    ~MayOverlap /\ Quiet /\ requests > 0 /\ ~faulty =>
        /\ \A n \in Namespaces \ changed :
              FoundOnce(FindAllNamespaces, LAMBDA d : d.name = n, LAMBDA d : NamespaceAsNow(n, d))
        /\ \A s \in Settled :
              FoundOnce(FindAllServicesForNamespace(s.namespace),
                        LAMBDA d : d.service = s, LAMBDA d : ServiceAsNow(s, d))

(* A namespace or a service is stored twice only where requests            *)
(* overlapped: two goroutines of one request cannot both insert it         *)
(* (repository.go:74, 95).                                                 *)
DuplicatesComeFromOverlap ==
    ~MayOverlap =>
        /\ \A j, k \in DOMAIN namespaces : namespaces[j].name = namespaces[k].name => j = k
        /\ \A j, k \in DOMAIN services : SameService(services[j], services[k]) => j = k

(* Every goroutine that received from a channel has ended, one of them by  *)
(* a failed upsert.                                                        *)
Stuck(updater) ==
    /\ \A r \in Reloads : updater[r] \in {NotStarted, Returned}
    /\ \E r \in Reloads : updater[r] = Returned
=============================================================================
