------------------------- MODULE ConfigReloadProofs -------------------------
(***************************************************************************)
(* Proofs about ConfigReload, for every set of services and namespaces,    *)
(* whatever Kubernetes may hold of them, every capacity of the channels    *)
(* and any number of requests.                                             *)
(***************************************************************************)
EXTENDS ReloadRefinement, WellFoundedInduction, TLAPS

USE PortAssumption, ServicesAssumption, ObjectsAssumption, BoundsAssumption

(* What CalmReloadsStoreTheCluster and DuplicatesComeFromOverlap rest on,  *)
(* where requests do not overlap.                                          *)

(* What the scan of the last request has yet to list.                      *)
Listing == Now.step \in {"services", "deployments"}
Ahead == IF Now.step = "list" THEN Namespaces
         ELSE IF Listing \/ Now.step \in {"next", "send"} THEN DOMAIN Now.left ELSE {}

NameOf == [i \in NamespaceItems |-> i.name]
ServiceOf == [i \in ServiceItems |-> i.service]

NamespacesOnTheirWay == OnTheirWay({}, namespaceChannel, namespaceUpdater)

(* No two items on their way have a key in common, nor two documents, nor  *)
(* an item that will be inserted and a document.                           *)
OneEach(key, sending, channel, updater, documents) ==
    /\ \A i, j \in sending : key[i] = key[j] => i = j
    /\ \A j, k \in DOMAIN channel : key[channel[j]] = key[channel[k]] => j = k
    /\ \A q, r \in Upserting(updater) : key[updater[q].item] = key[updater[r].item] => q = r
    /\ \A i \in sending : \A k \in DOMAIN channel : key[i] # key[channel[k]]
    /\ \A i \in sending : \A r \in Upserting(updater) : key[i] # key[updater[r].item]
    /\ \A k \in DOMAIN channel : \A r \in Upserting(updater) :
          key[channel[k]] # key[updater[r].item]
    /\ \A j, k \in DOMAIN documents : key[documents[j]] = key[documents[k]] => j = k
    /\ \A r \in Reloads : updater[r].step = "insert" =>
          \A k \in DOMAIN documents : key[documents[k]] # key[updater[r].item]

(* What has a key is as it should be, on its way; it is on its way, or     *)
(* stored as it should be.                                                 *)
Right(key, x, good, ways) == \A i \in ways : key[i] = x => i \in good
Arrives(key, x, good, ways, documents) ==
    \/ \E i \in ways : key[i] = x
    \/ \E d \in Range(documents) : key[d] = x /\ d \in good

(* Only the last request's scan may be at work.                            *)
OneScan ==
    \A r \in Reloads : /\ r < requests => scan[r] = Returned
                       /\ r = requests => scan[r] # NotStarted
                       /\ r > requests => scan[r] = NotStarted

OneNamespaceEach ==
    /\ OneEach(NameOf, {}, namespaceChannel, namespaceUpdater, namespaces)
    /\ \A i \in NamespacesOnTheirWay : i.name \notin Ahead

OneServiceEach ==
    /\ OneEach(ServiceOf, Sending, serviceChannel, serviceUpdater, services)
    /\ \A i \in ServicesOnTheirWay :
          i.service.namespace \notin Ahead /\ (Listing => i.service.namespace # Now.namespace)
    /\ Listing => Now.namespace \notin Ahead
    /\ Now.step = "deployments" => \A s \in DOMAIN Now.found : s.namespace = Now.namespace

(* Of what has not changed the scan knows what holds now, and what it has  *)
(* listed is on its way or stored.                                         *)
NamespaceNow(object) ==
    {i \in NamespaceItems : i.annotations = Effective([enable |-> "", port |-> Unset], object)}
ServiceNow(object, namespace) ==
    {i \in ServiceItems : i.annotations = Effective(object, namespace) /\ i.replicas = object.replicas}

NamespacesAreListed ==
    \A n \in Namespaces \ changed :
        /\ n \in Ahead /\ Now.step # "list" => Now.left[n] = annotated[n]
        /\ Right(NameOf, n, NamespaceNow(annotated[n]), NamespacesOnTheirWay)
        /\ \/ n \in Ahead
           \/ Arrives(NameOf, n, NamespaceNow(annotated[n]), NamespacesOnTheirWay, namespaces)

ServicesAreListed ==
    \A s \in Services \ changed :
        /\ s.namespace \in Ahead /\ Now.step # "list" => Now.left[s.namespace] = annotated[s.namespace]
        /\ Listing /\ Now.namespace = s.namespace =>
              /\ Now.annotations = NamespaceAnnotations(annotated[s.namespace])
              /\ Now.step = "deployments" => /\ s \in DOMAIN Now.found <=> cluster[s].exists
                                             /\ cluster[s].exists => Now.found[s] = cluster[s]
        /\ Right(ServiceOf, s, ServiceNow(cluster[s], annotated[s.namespace]), ServicesOnTheirWay)
        /\ s \in Settled =>
              \/ s.namespace \in Ahead \/ (Listing /\ Now.namespace = s.namespace)
              \/ Arrives(ServiceOf, s, ServiceNow(cluster[s], annotated[s.namespace]),
                         ServicesOnTheirWay, services)

CalmInv ==
    ~MayOverlap => /\ OneScan /\ OneNamespaceEach /\ OneServiceEach
                   /\ requests > 0 /\ ~faulty => NamespacesAreListed /\ ServicesAreListed

-----------------------------------------------------------------------------
(* HealthAnnotations.                                                      *)

(* A set of positions has a first one.                                     *)
LEMMA MinIsMember ==
    ASSUME NEW S \in SUBSET Nat, S # {}
    PROVE  Min(S) \in S /\ \A k \in S : Min(S) <= k
<1> DEFINE less == {p \in Nat \X Nat : p[1] < p[2]}
<1>1. IsWellFoundedOn(less, Nat)
  BY NatLessThanWellFounded, Zenon DEF OpToRel
<1>2. PICK m \in S : \A k \in S : <<k, m>> \notin less
  <2> HIDE DEF less
  <2> QED
    BY <1>1, WFMin
<1>3. ASSUME NEW k \in S
      PROVE  m <= k
  <2>1. <<k, m>> \in Nat \X Nat
    OBVIOUS
  <2>2. ~(k < m)
    BY <1>2, <2>1
  <2>3. QED
    BY <2>2
<1>4. QED
  BY <1>3 DEF Min

LEMMA PortForService ==
    ASSUME NEW ports \in Seq(ServicePorts), NEW port \in Int
    PROVE  /\ getAppPortForService(ports, port).failed \in BOOLEAN
           /\ getAppPortForService(ports, port).appPort \in Targets
           /\ port = Malformed => getAppPortForService(ports, port).appPort = PortText(Malformed)
<1> DEFINE hits == {k \in DOMAIN ports : ports[k].port = Int32(port) /\ HasTarget(ports[k].target)}
           answer == getAppPortForService(ports, port)
<1>1. \A target \in Targets : TargetText(target) \in Targets
  BY DEF TargetText, Targets
<1>2. PortText(port) \in Targets
  BY DEF PortText, Targets
<1>3. ASSUME hits # {}
      PROVE  ports[Min(hits)].target \in Targets
  <2>1. hits \in SUBSET Nat /\ hits \subseteq DOMAIN ports
    OBVIOUS
  <2>2. Min(hits) \in DOMAIN ports
    <3> HIDE DEF hits
    <3> QED
      BY <1>3, <2>1, MinIsMember
  <2>3. ports[Min(hits)] \in ServicePorts
    <3> HIDE DEF hits
    <3> QED
      BY <2>2
  <2>4. QED
    BY <2>3 DEF ServicePorts
<1>4. /\ answer.failed = (ports # <<>> /\ port = Malformed)
      /\ answer.appPort = IF hits = {} \/ port = Malformed THEN PortText(port)
                          ELSE TargetText(ports[Min(hits)].target)
  BY Zenon DEF getAppPortForService
<1> HIDE DEF hits, answer
<1>5. /\ answer.failed \in BOOLEAN /\ answer.appPort \in Targets
      /\ port = Malformed => answer.appPort = PortText(Malformed)
  BY <1>1, <1>2, <1>3, <1>4
<1>6. QED
  BY <1>5 DEF answer

(* Overriding the defaults leaves nothing unsaid.                          *)
LEMMA SettingsType ==
    ASSUME NEW object \in NamespaceObject, NEW parent \in Settings
    PROVE  overrideParentAnnotations(getHealthAnnotations(object), parent) \in Settings
BY DEF overrideParentAnnotations, getHealthAnnotations, NamespaceObject, EnableTexts, SilentTexts,
   Settings

LEMMA NamespaceSettings ==
    ASSUME NEW object \in NamespaceObject
    PROVE  NamespaceAnnotations(object) \in Settings
BY SettingsType DEF NamespaceAnnotations, DefaultAnnotations, Settings, Unset

LEMMA FirstOfThree ==
    ASSUME NEW a, NEW b, NEW c, NEW silent, c \notin silent
    PROVE  FirstSaid(<<a, b, c>>, silent)
              = IF a \notin silent THEN a ELSE IF b \notin silent THEN b ELSE c
<1> DEFINE texts == <<a, b, c>>
           said == {k \in DOMAIN texts : texts[k] \notin silent}
<1>1. said \in SUBSET Nat /\ said \subseteq 1..3 /\ 3 \in said
  OBVIOUS
<1>2. Min(said) \in said /\ \A k \in said : Min(said) <= k
  <2> HIDE DEF said
  <2> QED
    BY <1>1, MinIsMember
<1>3. FirstSaid(texts, silent) = texts[Min(said)]
  BY DEF FirstSaid
<1>4. QED
  BY <1>1, <1>2, <1>3

(* The code's overriding of one level after the other is what the README   *)
(* says: the service's words, else the namespace's, else the defaults.     *)
LEMMA OverridingIsEffective ==
    ASSUME NEW service \in ServiceObject, NEW namespace \in NamespaceObject
    PROVE  overrideParentAnnotations(getHealthAnnotations(service), NamespaceAnnotations(namespace))
              = Effective(service, namespace)
<1>1. FirstSaid(<<service.port, namespace.port, DefaultPort>>, {Unset})
         = IF service.port # Unset THEN service.port
           ELSE IF namespace.port # Unset THEN namespace.port ELSE DefaultPort
  BY FirstOfThree DEF Unset
<1>2. FirstSaid(<<service.enable, namespace.enable, "true">>, SilentTexts)
         = IF service.enable \notin SilentTexts THEN service.enable
           ELSE IF namespace.enable \notin SilentTexts THEN namespace.enable ELSE "true"
  <2>1. "true" \notin SilentTexts
    BY DEF SilentTexts
  <2>2. QED
    BY <2>1, FirstOfThree
<1>3. service.enable \in EnableTexts /\ namespace.enable \in EnableTexts
  BY DEF ServiceObject, NamespaceObject
<1>4. QED
  BY <1>1, <1>2, <1>3 DEF Effective, overrideParentAnnotations, getHealthAnnotations,
     NamespaceAnnotations, DefaultAnnotations, EnableTexts, SilentTexts

LEMMA NamespaceIsEffective ==
    ASSUME NEW namespace \in NamespaceObject
    PROVE  NamespaceAnnotations(namespace) = Effective([enable |-> "", port |-> Unset], namespace)
<1>1. FirstSaid(<<Unset, namespace.port, DefaultPort>>, {Unset})
         = IF namespace.port # Unset THEN namespace.port ELSE DefaultPort
  BY FirstOfThree DEF Unset
<1>2. FirstSaid(<<NoName, namespace.enable, "true">>, SilentTexts)
         = IF namespace.enable \notin SilentTexts THEN namespace.enable ELSE "true"
  <2>1. "true" \notin SilentTexts /\ NoName \in SilentTexts
    BY DEF SilentTexts, NoName
  <2>2. QED
    BY <2>1, FirstOfThree
<1>3. namespace.enable \in EnableTexts
  BY DEF NamespaceObject
<1>4. QED
  BY <1>1, <1>2, <1>3 DEF NoName, Effective, overrideParentAnnotations, getHealthAnnotations,
     NamespaceAnnotations, DefaultAnnotations, EnableTexts, SilentTexts

LEMMA ServiceItemType ==
    ASSUME NEW s \in Services, NEW object \in ServiceObject, NEW annotations \in Settings,
           NEW replicas \in Nat
    PROVE  LET i == ServiceItem(s, object, annotations, replicas)
           IN i.service = s /\ (~i.failed => i \in ServiceItems)
<1> DEFINE own == overrideParentAnnotations(getHealthAnnotations(object), annotations)
<1>1. own \in Settings
  BY DEF overrideParentAnnotations, getHealthAnnotations, ServiceObject, EnableTexts, SilentTexts,
     Settings
<1>2. /\ getAppPortForService(object.ports, own.port).failed \in BOOLEAN
      /\ getAppPortForService(object.ports, own.port).appPort \in Targets
      /\ own.port = Malformed =>
            getAppPortForService(object.ports, own.port).appPort = PortText(Malformed)
  BY <1>1, PortForService DEF ServiceObject, Settings
<1> DEFINE i == ServiceItem(s, object, annotations, replicas)
<1>3. i = [failed |-> getAppPortForService(object.ports, own.port).failed, service |-> s,
           annotations |-> own, appPort |-> getAppPortForService(object.ports, own.port).appPort,
           replicas |-> replicas]
  BY Zenon DEF ServiceItem
<1>4. i.service = s /\ (~i.failed => i \in ServiceItems)
  <2> HIDE DEF own, i
  <2> QED
    BY <1>1, <1>2, <1>3 DEF ServiceItems
<1>5. QED
  BY <1>4

-----------------------------------------------------------------------------
(* Types.                                                                  *)

(* What the scan keeps at its different steps.                             *)
LEMMA WhatScansKeep ==
    ASSUME NEW x \in ScanStates
    PROVE  /\ x.step \in {"next", "services", "deployments", "send"} =>
                 x.left \in PartsOf(Namespaces, NamespaceObjects)
           /\ x.step \in {"services", "deployments"} =>
                 x.namespace \in Namespaces /\ x.annotations \in Settings
           /\ x.step = "deployments" => x.found \in PartsOf(Services, ServiceObjects)
           /\ x.step = "send" => x.items \subseteq ServiceItems
BY DEF ScanStates, NotStarted, Returned

LEMMA PartsOfAre ==
    ASSUME NEW S, NEW T, NEW f \in PartsOf(S, T)
    PROVE  /\ DOMAIN f \subseteq S
           /\ \A x \in DOMAIN f : f[x] \in T
           /\ \A A \in SUBSET S : Restrict(f, DOMAIN f \ A) \in PartsOf(S, T)
<1>1. PICK A \in SUBSET S : f \in [A -> T]
  BY DEF PartsOf
<1>2. ASSUME NEW B \in SUBSET S
      PROVE  Restrict(f, DOMAIN f \ B) \in PartsOf(S, T)
  <2>1. A \ B \in SUBSET S
    OBVIOUS
  <2>2. Restrict(f, DOMAIN f \ B) \in [A \ B -> T]
    BY <1>1 DEF Restrict
  <2>3. QED
    BY <2>1, <2>2 DEF PartsOf
<1>3. QED
  BY <1>1, <1>2

LEMMA WhatUpdatersKeep ==
    ASSUME NEW items, NEW updater \in UpdatersOf(items), NEW r \in Reloads
    PROVE  /\ updater[r].step \in {"upsert", "insert"} => updater[r].item \in items
           /\ updater[r].step = "upsert" =>
                 [updater EXCEPT ![r] = [step |-> "insert", item |-> @.item]] \in UpdatersOf(items)
           /\ [updater EXCEPT ![r] = Receiving] \in UpdatersOf(items)
           /\ [updater EXCEPT ![r] = Returned] \in UpdatersOf(items)
           /\ \A i \in items : [updater EXCEPT ![r] = [step |-> "upsert", item |-> i]] \in UpdatersOf(items)
BY DEF UpdatersOf, NotStarted, Receiving, Returned

LEMMA TypeOKInit == Init => TypeOK
<1> SUFFICES ASSUME Init PROVE TypeOK
  OBVIOUS
<1>1. scan \in [Reloads -> ScanStates]
  BY DEF Init, ScanStates
<1>2. namespaceUpdater \in UpdatersOf(NamespaceItems) /\ serviceUpdater \in UpdatersOf(ServiceItems)
  BY DEF Init, UpdatersOf
<1>3. /\ cluster \in [Services -> ServiceObjects] /\ annotated \in [Namespaces -> NamespaceObjects]
      /\ requests = 0 /\ changes = 0 /\ faulty = FALSE /\ changed = {}
  BY DEF Init
<1>4. /\ namespaceChannel \in Seq(NamespaceItems) /\ serviceChannel \in Seq(ServiceItems)
      /\ namespaces \in Seq(NamespaceItems) /\ services \in Seq(ServiceItems)
  BY DEF Init
<1>5. requests \in 0..Requests /\ changes \in 0..MaxChanges
  BY DEF Init
<1>6. changed \subseteq Services \cup Namespaces /\ faulty \in BOOLEAN
  BY <1>3
<1>7. QED
  BY <1>1, <1>2, <1>3, <1>4, <1>5, <1>6 DEF TypeOK

(* A step of the scan leaves it in one of its states and sends items only. *)
LEMMA ScanTypes ==
    ASSUME TypeOK, NEW r \in Reloads, Scan(r)
    PROVE  /\ scan' \in [Reloads -> ScanStates]
           /\ namespaceChannel' \in Seq(NamespaceItems) /\ serviceChannel' \in Seq(ServiceItems)
<1> DEFINE old == scan[r]
<1>1. scan \in [Reloads -> ScanStates] /\ old \in ScanStates
      /\ namespaceChannel \in Seq(NamespaceItems) /\ serviceChannel \in Seq(ServiceItems)
      /\ cluster \in [Services -> ServiceObjects] /\ annotated \in [Namespaces -> NamespaceObjects]
  BY DEF TypeOK
<1>2. /\ old.step \in {"next", "services", "deployments", "send"} =>
            old.left \in PartsOf(Namespaces, NamespaceObjects)
      /\ old.step \in {"services", "deployments"} =>
            old.namespace \in Namespaces /\ old.annotations \in Settings
      /\ old.step = "deployments" => old.found \in PartsOf(Services, ServiceObjects)
      /\ old.step = "send" => old.items \subseteq ServiceItems
  BY <1>1, WhatScansKeep
<1>3. annotated \in PartsOf(Namespaces, NamespaceObjects)
  BY <1>1 DEF PartsOf
<1>4. ASSUME NEW n \in DOMAIN old.left, old.step = "next"
      PROVE  /\ n \in Namespaces /\ NamespaceAnnotations(old.left[n]) \in Settings
             /\ Restrict(old.left, DOMAIN old.left \ {n}) \in PartsOf(Namespaces, NamespaceObjects)
  <2>1. n \in Namespaces /\ old.left[n] \in NamespaceObjects /\ {n} \in SUBSET Namespaces
    BY <1>2, <1>4, PartsOfAre
  <2>2. QED
    BY <1>2, <1>4, <2>1, PartsOfAre, NamespaceSettings
<1>5. CASE ListNamespaces(r)
  BY <1>1, <1>3, <1>5 DEF ListNamespaces, ScanStates
<1>6. CASE SendNamespace(r)
  <2>1. PICK n \in DOMAIN old.left :
           LET annotations == NamespaceAnnotations(old.left[n])
           IN /\ namespaceChannel' = Append(namespaceChannel, [name |-> n, annotations |-> annotations])
              /\ scan' = [scan EXCEPT ![r] =
                     [step |-> "services", namespace |-> n, annotations |-> annotations,
                      left |-> Restrict(old.left, DOMAIN old.left \ {n})]]
    BY <1>6 DEF SendNamespace
  <2>2. [name |-> n, annotations |-> NamespaceAnnotations(old.left[n])] \in NamespaceItems
    BY <1>4, <1>6 DEF SendNamespace, NamespaceItems
  <2>3. [step |-> "services", namespace |-> n, annotations |-> NamespaceAnnotations(old.left[n]),
         left |-> Restrict(old.left, DOMAIN old.left \ {n})] \in ScanStates
    BY <1>4, <1>6 DEF SendNamespace, ScanStates
  <2>4. scan' \in [Reloads -> ScanStates]
    BY <1>1, <2>1, <2>3
  <2>5. namespaceChannel' \in Seq(NamespaceItems) /\ UNCHANGED serviceChannel
    BY <1>1, <1>6, <2>1, <2>2 DEF SendNamespace
  <2>6. QED
    BY <1>1, <2>4, <2>5
<1>7. CASE ListServices(r)
  <2> DEFINE found == {s \in Services : s.namespace = old.namespace /\ cluster[s].exists}
  <2>1. [s \in found |-> cluster[s]] \in PartsOf(Services, ServiceObjects)
    <3>1. found \in SUBSET Services /\ \A s \in found : cluster[s] \in ServiceObjects
      BY <1>1
    <3> HIDE DEF found
    <3>2. [s \in found |-> cluster[s]] \in [found -> ServiceObjects]
      BY <3>1
    <3>3. QED
      BY <3>1, <3>2 DEF PartsOf
  <2>2. QED
    BY <1>1, <1>2, <1>7, <2>1 DEF ListServices, ScanStates
<1>8. CASE ListDeployments(r)
  <2> DEFINE items == {ServiceItem(s, old.found[s], old.annotations, cluster[s].replicas) :
                          s \in {t \in DOMAIN old.found : cluster[t].replicas # None}}
  <2>1. ASSUME NEW i \in items, ~i.failed
        PROVE  i \in ServiceItems
    <3>1. PICK s \in DOMAIN old.found :
             /\ cluster[s].replicas # None
             /\ i = ServiceItem(s, old.found[s], old.annotations, cluster[s].replicas)
      BY <2>1
    <3>2. s \in Services /\ old.found[s] \in ServiceObjects
      BY <1>2, <1>8, PartsOfAre DEF ListDeployments
    <3>3. cluster[s].replicas \in Nat
      BY <1>1, <3>1, <3>2 DEF ServiceObject
    <3>4. QED
      BY <1>2, <1>8, <2>1, <3>1, <3>2, <3>3, ServiceItemType DEF ListDeployments
  <2>2. scan' = [scan EXCEPT ![r] =
           [step |-> "send", left |-> @.left, items |-> {i \in items : ~i.failed}]]
    BY <1>8 DEF ListDeployments
  <2> HIDE DEF items
  <2>3. QED
    BY <1>1, <1>2, <1>8, <2>1, <2>2 DEF ListDeployments, ScanStates
<1>9. CASE ListDeploymentsFails(r)
  BY <1>1, <1>2, <1>9 DEF ListDeploymentsFails, ScanStates
<1>10. CASE SendService(r)
  BY <1>1, <1>2, <1>10 DEF SendService, ScanStates
<1>11. CASE NextNamespace(r)
  BY <1>1, <1>2, <1>11 DEF NextNamespace, ScanStates
<1>12. CASE EndScan(r)
  BY <1>1, <1>12 DEF EndScan, ScanStates
<1>13. CASE ScanFails(r)
  BY <1>1, <1>13 DEF ScanFails, ScanStates
<1>14. QED
  BY <1>5, <1>6, <1>7, <1>8, <1>9, <1>10, <1>11, <1>12, <1>13 DEF Scan

(* A goroutine stores what it received, in its place or at the end.        *)
LEMMA UpsertServicesTypes ==
    ASSUME TypeOK, NEW r \in Reloads, UpsertServices(r)
    PROVE  /\ serviceUpdater' \in UpdatersOf(ServiceItems)
           /\ serviceChannel' \in Seq(ServiceItems) /\ services' \in Seq(ServiceItems)
<1>1. serviceUpdater \in UpdatersOf(ServiceItems)
      /\ serviceChannel \in Seq(ServiceItems) /\ services \in Seq(ServiceItems)
  BY DEF TypeOK
<1>7. /\ [serviceUpdater EXCEPT ![r] = Receiving] \in UpdatersOf(ServiceItems)
      /\ serviceUpdater[r].step \in {"upsert", "insert"} => serviceUpdater[r].item \in ServiceItems
      /\ serviceUpdater[r].step = "upsert" =>
            [serviceUpdater EXCEPT ![r] = [step |-> "insert", item |-> @.item]] \in UpdatersOf(ServiceItems)
  BY <1>1, WhatUpdatersKeep
<1>2. CASE ReceiveService(r)
  <2>1. Head(serviceChannel) \in ServiceItems /\ Tail(serviceChannel) \in Seq(ServiceItems)
    BY <1>1, <1>2 DEF ReceiveService
  <2>2. QED
    BY <1>1, <1>2, <2>1, WhatUpdatersKeep DEF ReceiveService
<1>3. CASE ReplaceService(r)
  <2>1. serviceUpdater[r].step = "upsert" /\ serviceUpdater[r].item \in ServiceItems
    BY <1>1, <1>3, <1>7 DEF ReplaceService
  <2>2. services' \in Seq(ServiceItems)
    BY <1>1, <2>1, <1>3 DEF ReplaceService
  <2>3. serviceUpdater' \in UpdatersOf(ServiceItems)
    BY <1>1, <1>3, <2>1, <1>7 DEF ReplaceService
  <2>4. QED
    BY <1>1, <1>3, <2>2, <2>3 DEF ReplaceService
<1>4. CASE InsertService(r)
  <2>1. serviceUpdater[r].item \in ServiceItems
    BY <1>1, <1>4, <1>7 DEF InsertService
  <2>2. QED
    BY <1>1, <1>4, <2>1, <1>7 DEF InsertService
<1>5. CASE UpsertServiceFails(r)
  BY <1>1, <1>5, WhatUpdatersKeep DEF UpsertServiceFails
<1>6. QED
  BY <1>2, <1>3, <1>4, <1>5 DEF UpsertServices

LEMMA UpsertNamespacesTypes ==
    ASSUME TypeOK, NEW r \in Reloads, UpsertNamespaces(r)
    PROVE  /\ namespaceUpdater' \in UpdatersOf(NamespaceItems)
           /\ namespaceChannel' \in Seq(NamespaceItems) /\ namespaces' \in Seq(NamespaceItems)
<1>1. namespaceUpdater \in UpdatersOf(NamespaceItems)
      /\ namespaceChannel \in Seq(NamespaceItems) /\ namespaces \in Seq(NamespaceItems)
  BY DEF TypeOK
<1>7. /\ [namespaceUpdater EXCEPT ![r] = Receiving] \in UpdatersOf(NamespaceItems)
      /\ namespaceUpdater[r].step \in {"upsert", "insert"} => namespaceUpdater[r].item \in NamespaceItems
      /\ namespaceUpdater[r].step = "upsert" =>
            [namespaceUpdater EXCEPT ![r] = [step |-> "insert", item |-> @.item]] \in UpdatersOf(NamespaceItems)
  BY <1>1, WhatUpdatersKeep
<1>2. CASE ReceiveNamespace(r)
  <2>1. Head(namespaceChannel) \in NamespaceItems /\ Tail(namespaceChannel) \in Seq(NamespaceItems)
    BY <1>1, <1>2 DEF ReceiveNamespace
  <2>2. QED
    BY <1>1, <1>2, <2>1, WhatUpdatersKeep DEF ReceiveNamespace
<1>3. CASE ReplaceNamespace(r)
  <2>1. namespaceUpdater[r].step = "upsert" /\ namespaceUpdater[r].item \in NamespaceItems
    BY <1>1, <1>3, <1>7 DEF ReplaceNamespace
  <2>2. namespaces' \in Seq(NamespaceItems)
    BY <1>1, <2>1, <1>3 DEF ReplaceNamespace
  <2>3. namespaceUpdater' \in UpdatersOf(NamespaceItems)
    BY <1>1, <1>3, <2>1, <1>7 DEF ReplaceNamespace
  <2>4. QED
    BY <1>1, <1>3, <2>2, <2>3 DEF ReplaceNamespace
<1>4. CASE InsertNamespace(r)
  <2>1. namespaceUpdater[r].item \in NamespaceItems
    BY <1>1, <1>4, <1>7 DEF InsertNamespace
  <2>2. QED
    BY <1>1, <1>4, <2>1, <1>7 DEF InsertNamespace
<1>5. CASE UpsertNamespaceFails(r)
  BY <1>1, <1>5, WhatUpdatersKeep DEF UpsertNamespaceFails
<1>6. QED
  BY <1>2, <1>3, <1>4, <1>5 DEF UpsertNamespaces

LEMMA TypeOKStep == TypeOK /\ [Next]_vars => TypeOK'
<1> SUFFICES ASSUME TypeOK, [Next]_vars PROVE TypeOK'
  OBVIOUS
<1>1. CASE StartReload
  <2>1. requests' \in Reloads /\ requests' = requests + 1
    BY <1>1 DEF StartReload, TypeOK, Reloads
  <2>2. scan' \in [Reloads -> ScanStates]
    BY <1>1, <2>1 DEF StartReload, TypeOK, ScanStates
  <2>3. namespaceUpdater' \in UpdatersOf(NamespaceItems) /\ serviceUpdater' \in UpdatersOf(ServiceItems)
    BY <1>1, <2>1, WhatUpdatersKeep DEF StartReload, TypeOK
  <2>4. requests' \in 0..Requests /\ changed' = {} /\ faulty' = FALSE
    BY <1>1, <2>1 DEF StartReload, Reloads
  <2>5. UNCHANGED <<cluster, annotated, changes, namespaceChannel, serviceChannel, namespaces, services>>
    BY <1>1 DEF StartReload
  <2>6. QED
    BY <2>2, <2>3, <2>4, <2>5 DEF TypeOK
<1>2. ASSUME NEW r \in Reloads, Scan(r)
      PROVE  TypeOK'
  <2>1. UNCHANGED <<clusterVars, storeVars>> /\ (faulty' = faulty \/ faulty' = ~MayOverlap)
    BY <1>2 DEF Scan, ListNamespaces, SendNamespace, ListServices, ListDeployments,
       ListDeploymentsFails, SendService, NextNamespace, EndScan, ScanFails
  <2>2. QED
    BY <1>2, <2>1, ScanTypes DEF TypeOK, clusterVars, storeVars
<1>3. ASSUME NEW r \in Reloads, UpsertServices(r)
      PROVE  TypeOK'
  <2>1. UNCHANGED <<scanVars, namespaceChannel, namespaceUpdater, namespaces>>
        /\ (faulty' = faulty \/ faulty' = ~MayOverlap)
    BY <1>3 DEF UpsertServices, ReceiveService, ReplaceService, InsertService, UpsertServiceFails
  <2>2. QED
    BY <1>3, <2>1, UpsertServicesTypes DEF TypeOK, scanVars, clusterVars
<1>4. ASSUME NEW r \in Reloads, UpsertNamespaces(r)
      PROVE  TypeOK'
  <2>1. UNCHANGED <<scanVars, serviceChannel, serviceUpdater, services>>
        /\ (faulty' = faulty \/ faulty' = ~MayOverlap)
    BY <1>4 DEF UpsertNamespaces, ReceiveNamespace, ReplaceNamespace, InsertNamespace,
       UpsertNamespaceFails
  <2>2. QED
    BY <1>4, <2>1, UpsertNamespacesTypes DEF TypeOK, scanVars, clusterVars
<1>5. CASE Change
  <2>1. changes' \in 0..MaxChanges
    BY <1>5 DEF Change, TypeOK
  <2>2. /\ cluster' \in [Services -> ServiceObjects] /\ annotated' \in [Namespaces -> NamespaceObjects]
        /\ changed' \subseteq Services \cup Namespaces
    BY <1>5 DEF Change, TypeOK
  <2>3. QED
    BY <1>5, <2>1, <2>2 DEF Change, TypeOK
<1>6. CASE UNCHANGED vars
  BY <1>6 DEF TypeOK, vars, clusterVars
<1>7. QED
  BY <1>1, <1>2, <1>3, <1>4, <1>5, <1>6 DEF Next

(* TypeOK: whatever reaches a channel, a goroutine or a collection has     *)
(* both settings filled in and a port that could be parsed, whatever texts *)
(* the annotations hold (discovery.go:272-360).                            *)
THEOREM TypeCorrect == Spec => []TypeOK
BY TypeOKInit, TypeOKStep, PTL DEF Spec

-----------------------------------------------------------------------------
(* The way of an item from the scan to its collection.                     *)

LEMMA ChannelElements ==
    ASSUME NEW T, NEW ch \in Seq(T)
    PROVE  /\ \A k \in DOMAIN ch : ch[k] \in T
           /\ \A i \in T : /\ Append(ch, i) \in Seq(T)
                           /\ DOMAIN Append(ch, i) = DOMAIN ch \cup {Len(ch) + 1}
                           /\ Append(ch, i)[Len(ch) + 1] = i
                           /\ \A k \in DOMAIN ch : k # Len(ch) + 1 /\ Append(ch, i)[k] = ch[k]
           /\ ch # <<>> => /\ Tail(ch) \in Seq(T)
                           /\ Head(ch) = ch[1] /\ 1 \in DOMAIN ch
                           /\ \A k \in DOMAIN Tail(ch) :
                                 k + 1 \in DOMAIN ch /\ k + 1 # 1 /\ Tail(ch)[k] = ch[k + 1]
                           /\ \A k \in DOMAIN ch : k = 1 \/ (k - 1 \in DOMAIN Tail(ch) /\ ch[k] = Tail(ch)[k - 1])
                           /\ \A j, k \in DOMAIN Tail(ch) : j + 1 = k + 1 => j = k
OBVIOUS

(* An item sent is one of the scan's no longer.                            *)
LEMMA SendKeepsOneEach ==
    ASSUME NEW T, NEW key, NEW sending, NEW ch \in Seq(T), NEW updater, NEW docs,
           OneEach(key, sending, ch, updater, docs), NEW i \in sending, i \in T
    PROVE  OneEach(key, sending \ {i}, Append(ch, i), updater, docs)
BY ChannelElements DEF OneEach

LEMMA SendKeepsOnTheirWay ==
    ASSUME NEW T, NEW sending, NEW ch \in Seq(T), NEW updater, NEW i \in T
    PROVE  OnTheirWay(sending \ {i}, Append(ch, i), updater) = OnTheirWay(sending, ch, updater) \cup {i}
BY ChannelElements DEF OnTheirWay, Range

(* A goroutine goes on with an item.                                       *)
Takes(r, step, item, updater, later) ==
    /\ \A q \in Reloads : q # r => later[q] = updater[q]
    /\ later[r].step = step /\ later[r].item = item

LEMMA RangeOfTail ==
    ASSUME NEW T, NEW ch \in Seq(T), ch # <<>>
    PROVE  Range(ch) = Range(Tail(ch)) \cup {Head(ch)}
<1>1. ASSUME NEW k \in DOMAIN ch PROVE ch[k] \in Range(Tail(ch)) \cup {Head(ch)}
  <2>1. k = 1 \/ (k - 1 \in DOMAIN Tail(ch) /\ ch[k] = Tail(ch)[k - 1])
    BY ChannelElements
  <2>2. Head(ch) = ch[1]
    BY ChannelElements
  <2>3. QED
    BY <2>1, <2>2 DEF Range
<1>2. ASSUME NEW k \in DOMAIN Tail(ch) PROVE Tail(ch)[k] \in Range(ch)
  BY ChannelElements DEF Range
<1>3. Head(ch) \in Range(ch)
  BY ChannelElements DEF Range
<1>4. QED
  BY <1>1, <1>2, <1>3 DEF Range

LEMMA ReceiveKeepsOneEach ==
    ASSUME NEW T, NEW key, NEW sending, NEW ch \in Seq(T), ch # <<>>, NEW docs,
           NEW updater \in UpdatersOf(T), NEW r \in Reloads, updater[r] = Receiving,
           NEW received, Takes(r, "upsert", Head(ch), updater, received),
           OneEach(key, sending, ch, updater, docs)
    PROVE  OneEach(key, sending, Tail(ch), received, docs)
<1>1. /\ Upserting(received) = Upserting(updater) \cup {r} /\ r \notin Upserting(updater)
      /\ \A q \in Reloads : q # r => received[q] = updater[q]
      /\ received[r].step = "upsert" /\ received[r].item = ch[1]
  BY ChannelElements DEF Takes, Upserting, UpdatersOf, Receiving
<1>2. /\ ch[1] = Head(ch) /\ 1 \in DOMAIN ch
      /\ \A k \in DOMAIN Tail(ch) : k + 1 \in DOMAIN ch /\ k + 1 # 1 /\ Tail(ch)[k] = ch[k + 1]
      /\ \A j, k \in DOMAIN Tail(ch) : j + 1 = k + 1 => j = k
  BY ChannelElements
<1>3. /\ \A j, k \in DOMAIN Tail(ch) : key[Tail(ch)[j]] = key[Tail(ch)[k]] => j = k
      /\ \A i \in sending : \A k \in DOMAIN Tail(ch) : key[i] # key[Tail(ch)[k]]
  BY <1>2 DEF OneEach
<1>4. /\ \A p, q \in Upserting(received) : key[received[p].item] = key[received[q].item] => p = q
      /\ \A i \in sending : \A q \in Upserting(received) : key[i] # key[received[q].item]
      /\ \A k \in DOMAIN Tail(ch) : \A q \in Upserting(received) :
            key[Tail(ch)[k]] # key[received[q].item]
  <2>1. \A q \in Upserting(received) :
           q = r \/ (q \in Upserting(updater) /\ received[q] = updater[q])
    BY <1>1 DEF Upserting
  <2>2. \A q \in Upserting(updater) : key[updater[q].item] # key[ch[1]]
    BY <1>2 DEF OneEach
  <2>3. QED
    BY <1>1, <1>2, <2>1, <2>2 DEF OneEach
<1>5. QED
  BY <1>1, <1>3, <1>4 DEF OneEach

LEMMA ReceiveKeepsOnTheirWay ==
    ASSUME NEW T, NEW sending, NEW ch \in Seq(T), ch # <<>>,
           NEW updater \in UpdatersOf(T), NEW r \in Reloads, updater[r] = Receiving,
           NEW received, Takes(r, "upsert", Head(ch), updater, received)
    PROVE  OnTheirWay(sending, Tail(ch), received) = OnTheirWay(sending, ch, updater)
<1>1. /\ Upserting(received) = Upserting(updater) \cup {r} /\ r \notin Upserting(updater)
      /\ \A q \in Reloads : q # r => received[q] = updater[q]
      /\ received[r].item = Head(ch)
  BY DEF Takes, Upserting, UpdatersOf, Receiving
<1>2. {received[q].item : q \in Upserting(received)}
         = {updater[q].item : q \in Upserting(updater)} \cup {Head(ch)}
  BY <1>1 DEF Upserting
<1>3. Range(ch) = Range(Tail(ch)) \cup {Head(ch)}
  BY RangeOfTail
<1>4. QED
  BY <1>2, <1>3 DEF OnTheirWay

(* What an item becomes of a goroutine is not seen by the others.          *)
LEMMA GivenUpKeepsOneEach ==
    ASSUME NEW T, NEW key, NEW sending, NEW ch \in Seq(T), NEW docs,
           NEW updater \in UpdatersOf(T), NEW r \in Reloads, NEW done \in {Receiving, Returned},
           updater[r].step \in {"upsert", "insert"},
           OneEach(key, sending, ch, updater, docs)
    PROVE  LET given == [updater EXCEPT ![r] = done]
           IN /\ OneEach(key, sending, ch, given, docs)
              /\ OnTheirWay(sending, ch, given) \subseteq OnTheirWay(sending, ch, updater)
              /\ OnTheirWay(sending, ch, updater) = OnTheirWay(sending, ch, given) \cup {updater[r].item}
<1> DEFINE given == [updater EXCEPT ![r] = done]
<1>1. /\ Upserting(given) = Upserting(updater) \ {r} /\ r \in Upserting(updater)
      /\ \A q \in Reloads : q # r => given[q] = updater[q]
      /\ given[r].step # "insert"
  BY DEF Upserting, UpdatersOf, Receiving, Returned
<1> HIDE DEF given
<1>2. OneEach(key, sending, ch, given, docs)
  BY <1>1 DEF OneEach, Upserting
<1>3. {updater[q].item : q \in Upserting(updater)} = {given[q].item : q \in Upserting(given)} \cup {updater[r].item}
  BY <1>1 DEF Upserting
<1>4. QED
  BY <1>2, <1>3 DEF OnTheirWay, given

(* A document replaced by an item of its key, or an item inserted where no *)
(* document has its key.                                                   *)
LEMMA ReplaceKeepsOneEach ==
    ASSUME NEW T, NEW key, NEW sending, NEW ch \in Seq(T), NEW docs \in Seq(T),
           NEW updater \in UpdatersOf(T), NEW r \in Reloads, updater[r].step = "upsert",
           OneEach(key, sending, ch, updater, docs),
           NEW k \in DOMAIN docs, key[docs[k]] = key[updater[r].item]
    PROVE  OneEach(key, sending, ch, [updater EXCEPT ![r] = Receiving], [docs EXCEPT ![k] = updater[r].item])
<1> DEFINE given == [updater EXCEPT ![r] = Receiving]
           stored == [docs EXCEPT ![k] = updater[r].item]
<1>1. /\ Upserting(given) = Upserting(updater) \ {r} /\ r \in Upserting(updater)
      /\ \A q \in Reloads : q # r => given[q] = updater[q]
      /\ given[r].step # "insert"
  BY DEF Upserting, UpdatersOf, Receiving
<1>2. DOMAIN stored = DOMAIN docs /\ \A j \in DOMAIN docs : key[stored[j]] = key[docs[j]]
  OBVIOUS
<1> HIDE DEF given, stored
<1>3. /\ \A i, j \in DOMAIN stored : key[stored[i]] = key[stored[j]] => i = j
      /\ \A q \in Reloads : given[q].step = "insert" =>
            \A j \in DOMAIN stored : key[stored[j]] # key[given[q].item]
  BY <1>1, <1>2 DEF OneEach
<1>4. OneEach(key, sending, ch, given, stored)
  BY <1>1, <1>3 DEF OneEach, Upserting
<1>5. QED
  BY <1>4 DEF given, stored

LEMMA InsertKeepsOneEach ==
    ASSUME NEW T, NEW key, NEW sending, NEW ch \in Seq(T), NEW docs \in Seq(T),
           NEW updater \in UpdatersOf(T), NEW r \in Reloads, updater[r].step = "insert",
           OneEach(key, sending, ch, updater, docs)
    PROVE  OneEach(key, sending, ch, [updater EXCEPT ![r] = Receiving], Append(docs, updater[r].item))
<1> DEFINE given == [updater EXCEPT ![r] = Receiving]
           stored == Append(docs, updater[r].item)
<1>1. /\ Upserting(given) = Upserting(updater) \ {r} /\ r \in Upserting(updater)
      /\ \A q \in Reloads : q # r => given[q] = updater[q]
      /\ given[r].step # "insert" /\ updater[r].item \in T
  BY DEF Upserting, UpdatersOf, NotStarted, Receiving, Returned
<1>2. /\ DOMAIN stored = DOMAIN docs \cup {Len(docs) + 1} /\ stored[Len(docs) + 1] = updater[r].item
      /\ \A j \in DOMAIN docs : stored[j] = docs[j]
  BY <1>1, ChannelElements
<1> HIDE DEF given, stored
<1>3. \A j, k \in DOMAIN stored : key[stored[j]] = key[stored[k]] => j = k
  BY <1>2 DEF OneEach
<1>4. \A q \in Reloads : given[q].step = "insert" =>
         \A k \in DOMAIN stored : key[stored[k]] # key[given[q].item]
  BY <1>1, <1>2 DEF OneEach, Upserting
<1>5. OneEach(key, sending, ch, given, stored)
  BY <1>1, <1>3, <1>4 DEF OneEach, Upserting
<1>6. QED
  BY <1>5 DEF given, stored

LEMMA NotFoundKeepsOneEach ==
    ASSUME NEW T, NEW key, NEW sending, NEW ch \in Seq(T), NEW docs \in Seq(T),
           NEW updater \in UpdatersOf(T), NEW r \in Reloads, updater[r].step = "upsert",
           OneEach(key, sending, ch, updater, docs),
           \A k \in DOMAIN docs : key[docs[k]] # key[updater[r].item],
           NEW found, Takes(r, "insert", updater[r].item, updater, found)
    PROVE  OneEach(key, sending, ch, found, docs)
<1>1. /\ Upserting(found) = Upserting(updater) /\ r \in Upserting(updater)
      /\ \A q \in Reloads : q # r => found[q] = updater[q]
      /\ found[r].item = updater[r].item
  BY DEF Takes, Upserting, UpdatersOf
<1>2. \A q \in Upserting(updater) : found[q].item = updater[q].item
  BY <1>1 DEF Upserting
<1>3. \A q \in Reloads : found[q].step = "insert" =>
          \A k \in DOMAIN docs : key[docs[k]] # key[found[q].item]
  BY <1>1 DEF OneEach
<1>4. QED
  BY <1>1, <1>2, <1>3 DEF OneEach

LEMMA NotFoundKeepsOnTheirWay ==
    ASSUME NEW T, NEW sending, NEW ch, NEW updater \in UpdatersOf(T),
           NEW r \in Reloads, updater[r].step = "upsert",
           NEW found, Takes(r, "insert", updater[r].item, updater, found)
    PROVE  OnTheirWay(sending, ch, found) = OnTheirWay(sending, ch, updater)
<1>1. /\ Upserting(found) = Upserting(updater)
      /\ \A q \in Upserting(updater) : found[q].item = updater[q].item
  BY DEF Takes, Upserting, UpdatersOf
<1>2. QED
  BY <1>1 DEF OnTheirWay

(* What arrived stays, and what was right stays right, when an item is     *)
(* stored where no other key is.                                           *)
LEMMA StoredArrives ==
    ASSUME NEW key, NEW x, NEW good, NEW ways, NEW later, NEW item, ways = later \cup {item},
           Right(key, x, good, ways), NEW docs, NEW stored,
           item \in Range(stored),
           \A d \in Range(docs) : d \in Range(stored) \/ key[d] = key[item],
           Arrives(key, x, good, ways, docs)
    PROVE  Arrives(key, x, good, later, stored)
BY DEF Right, Arrives

(* What the goroutines that upsert do to the items on their way.           *)
LEMMA NamespaceUpsertsMove ==
    ASSUME TypeOK, ~MayOverlap, NEW r \in Reloads, UpsertNamespaces(r), NEW sending,
           OneEach(NameOf, sending, namespaceChannel, namespaceUpdater, namespaces)
    PROVE  LET ways == OnTheirWay(sending, namespaceChannel, namespaceUpdater)
               later == OnTheirWay(sending, namespaceChannel', namespaceUpdater')
           IN /\ OneEach(NameOf, sending, namespaceChannel', namespaceUpdater', namespaces')
              /\ later \subseteq ways
              /\ ~faulty' =>
                    \A x, good : Right(NameOf, x, good, ways) /\ Arrives(NameOf, x, good, ways, namespaces)
                                   => Arrives(NameOf, x, good, later, namespaces')
<1> DEFINE ways == OnTheirWay(sending, namespaceChannel, namespaceUpdater)
           later == OnTheirWay(sending, namespaceChannel', namespaceUpdater')
           Goal == /\ OneEach(NameOf, sending, namespaceChannel', namespaceUpdater', namespaces')
                   /\ later \subseteq ways
                   /\ ~faulty' =>
                         \A x, good : Right(NameOf, x, good, ways) /\ Arrives(NameOf, x, good, ways, namespaces)
                                        => Arrives(NameOf, x, good, later, namespaces')
           item == namespaceUpdater[r].item
<1> SUFFICES Goal
  OBVIOUS
<1>1. /\ namespaceUpdater \in UpdatersOf(NamespaceItems)
      /\ namespaceChannel \in Seq(NamespaceItems) /\ namespaces \in Seq(NamespaceItems)
  BY DEF TypeOK
<1>2. namespaceUpdater[r].step \in {"upsert", "insert"} => item \in NamespaceItems
  BY <1>1, WhatUpdatersKeep
<1>3. CASE ReceiveNamespace(r)
  <2>1. /\ namespaceUpdater[r] = Receiving /\ namespaceChannel # <<>>
        /\ namespaceUpdater' = [namespaceUpdater EXCEPT ![r] =
                                 [step |-> "upsert", item |-> Head(namespaceChannel)]]
        /\ namespaceChannel' = Tail(namespaceChannel) /\ namespaces' = namespaces
    BY <1>3 DEF ReceiveNamespace
  <2> DEFINE taken == [namespaceUpdater EXCEPT ![r] =
                            [step |-> "upsert", item |-> Head(namespaceChannel)]]
  <2>2. Takes(r, "upsert", Head(namespaceChannel), namespaceUpdater, taken) /\ namespaceUpdater' = taken
    BY <1>1, <2>1 DEF Takes, UpdatersOf
  <2> HIDE DEF taken
  <2>3. /\ OneEach(NameOf, sending, Tail(namespaceChannel), taken, namespaces)
        /\ OnTheirWay(sending, Tail(namespaceChannel), taken) = ways
    <3>1. namespaceUpdater[r] = Receiving /\ namespaceChannel # <<>>
      BY <2>1
    <3>2. OneEach(NameOf, sending, Tail(namespaceChannel), taken, namespaces)
      BY <1>1, <2>2, <3>1, ReceiveKeepsOneEach
    <3>3. OnTheirWay(sending, Tail(namespaceChannel), taken) = ways
      BY <1>1, <2>2, <3>1, ReceiveKeepsOnTheirWay
    <3>4. QED
      BY <3>2, <3>3
  <2>4. QED
    BY <2>1, <2>2, <2>3
<1>4. CASE ReplaceNamespace(r)
  <2>1. CASE \E k \in DOMAIN namespaces : namespaces[k].name = item.name
                /\ namespaces' = [namespaces EXCEPT ![k] = item]
                /\ namespaceUpdater' = [namespaceUpdater EXCEPT ![r] = Receiving]
    <3>1. PICK k \in DOMAIN namespaces : namespaces[k].name = item.name
                /\ namespaces' = [namespaces EXCEPT ![k] = item]
                /\ namespaceUpdater' = [namespaceUpdater EXCEPT ![r] = Receiving]
      BY <2>1
    <3>2. namespaceUpdater[r].step = "upsert" /\ namespaceChannel' = namespaceChannel
      BY <1>4 DEF ReplaceNamespace
    <3>3. NameOf[namespaces[k]] = NameOf[item]
      BY <1>1, <1>2, <3>1, <3>2 DEF NameOf
    <3>4. OneEach(NameOf, sending, namespaceChannel', namespaceUpdater', namespaces')
      BY <1>1, <3>1, <3>2, <3>3, ReplaceKeepsOneEach
    <3>5. ways = later \cup {item}
      BY <1>1, <3>1, <3>2, GivenUpKeepsOneEach
    <3>6. item \in Range(namespaces') /\ \A d \in Range(namespaces) : d \in Range(namespaces') \/ NameOf[d] = NameOf[item]
      BY <1>1, <3>1, <3>3 DEF Range
    <3> HIDE DEF ways, later, item
    <3>7. ASSUME NEW x, NEW good, Right(NameOf, x, good, ways), Arrives(NameOf, x, good, ways, namespaces)
          PROVE  Arrives(NameOf, x, good, later, namespaces')
      BY <3>5, <3>6, <3>7, StoredArrives
    <3>8. QED
      BY <3>4, <3>5, <3>7
  <2>2. CASE /\ \A k \in DOMAIN namespaces : ~(namespaces[k].name = item.name)
             /\ namespaceUpdater' = [namespaceUpdater EXCEPT ![r] = [step |-> "insert", item |-> @.item]]
             /\ UNCHANGED namespaces
    <3>1. namespaceUpdater[r].step = "upsert" /\ namespaceChannel' = namespaceChannel
      BY <1>4 DEF ReplaceNamespace
    <3>2. \A k \in DOMAIN namespaces : NameOf[namespaces[k]] # NameOf[item]
      BY <1>1, <1>2, <2>2, <3>1 DEF NameOf
    <3> DEFINE found == [namespaceUpdater EXCEPT ![r] = [step |-> "insert", item |-> @.item]]
    <3>3. Takes(r, "insert", item, namespaceUpdater, found) /\ namespaceUpdater' = found
      BY <1>1, <2>2 DEF Takes, UpdatersOf
    <3> HIDE DEF found
    <3>4. /\ OneEach(NameOf, sending, namespaceChannel, found, namespaces)
          /\ OnTheirWay(sending, namespaceChannel, found) = ways
      BY <1>1, <3>1, <3>2, <3>3, NotFoundKeepsOneEach, NotFoundKeepsOnTheirWay
    <3>5. QED
      BY <2>2, <3>1, <3>3, <3>4
  <2>3. QED
    BY <1>4, <2>1, <2>2 DEF ReplaceNamespace
<1>5. CASE InsertNamespace(r)
  <2>1. /\ namespaceUpdater[r].step = "insert" /\ namespaceChannel' = namespaceChannel
        /\ namespaces' = Append(namespaces, item) /\ namespaceUpdater' = [namespaceUpdater EXCEPT ![r] = Receiving]
    BY <1>5 DEF InsertNamespace
  <2>2. OneEach(NameOf, sending, namespaceChannel', namespaceUpdater', namespaces')
    BY <1>1, <2>1, InsertKeepsOneEach
  <2>3. ways = later \cup {item}
    BY <1>1, <2>1, GivenUpKeepsOneEach
  <2>4. item \in Range(namespaces') /\ \A d \in Range(namespaces) : d \in Range(namespaces')
    BY <1>1, <1>2, <2>1, ChannelElements DEF Range
  <2> HIDE DEF ways, later, item
  <2>5. ASSUME NEW x, NEW good, Right(NameOf, x, good, ways), Arrives(NameOf, x, good, ways, namespaces)
        PROVE  Arrives(NameOf, x, good, later, namespaces')
    BY <2>3, <2>4, <2>5, StoredArrives
  <2>6. QED
    BY <2>2, <2>3, <2>5
<1>6. CASE UpsertNamespaceFails(r)
  <2>1. /\ namespaceUpdater[r].step \in {"upsert", "insert"} /\ namespaceChannel' = namespaceChannel
        /\ namespaces' = namespaces /\ namespaceUpdater' = [namespaceUpdater EXCEPT ![r] = Returned] /\ faulty'
    BY <1>6 DEF UpsertNamespaceFails
  <2>2. OneEach(NameOf, sending, namespaceChannel', namespaceUpdater', namespaces') /\ later \subseteq ways
    BY <1>1, <2>1, GivenUpKeepsOneEach
  <2>3. QED
    BY <2>1, <2>2
<1>7. QED
  BY <1>3, <1>4, <1>5, <1>6 DEF UpsertNamespaces

LEMMA ServiceUpsertsMove ==
    ASSUME TypeOK, ~MayOverlap, NEW r \in Reloads, UpsertServices(r), NEW sending,
           OneEach(ServiceOf, sending, serviceChannel, serviceUpdater, services)
    PROVE  LET ways == OnTheirWay(sending, serviceChannel, serviceUpdater)
               later == OnTheirWay(sending, serviceChannel', serviceUpdater')
           IN /\ OneEach(ServiceOf, sending, serviceChannel', serviceUpdater', services')
              /\ later \subseteq ways
              /\ ~faulty' =>
                    \A x, good : Right(ServiceOf, x, good, ways) /\ Arrives(ServiceOf, x, good, ways, services)
                                   => Arrives(ServiceOf, x, good, later, services')
<1> DEFINE ways == OnTheirWay(sending, serviceChannel, serviceUpdater)
           later == OnTheirWay(sending, serviceChannel', serviceUpdater')
           Goal == /\ OneEach(ServiceOf, sending, serviceChannel', serviceUpdater', services')
                   /\ later \subseteq ways
                   /\ ~faulty' =>
                         \A x, good : Right(ServiceOf, x, good, ways) /\ Arrives(ServiceOf, x, good, ways, services)
                                        => Arrives(ServiceOf, x, good, later, services')
           item == serviceUpdater[r].item
<1> SUFFICES Goal
  OBVIOUS
<1>1. /\ serviceUpdater \in UpdatersOf(ServiceItems)
      /\ serviceChannel \in Seq(ServiceItems) /\ services \in Seq(ServiceItems)
  BY DEF TypeOK
<1>2. serviceUpdater[r].step \in {"upsert", "insert"} => item \in ServiceItems
  BY <1>1, WhatUpdatersKeep
<1>3. CASE ReceiveService(r)
  <2>1. /\ serviceUpdater[r] = Receiving /\ serviceChannel # <<>>
        /\ serviceUpdater' = [serviceUpdater EXCEPT ![r] =
                                 [step |-> "upsert", item |-> Head(serviceChannel)]]
        /\ serviceChannel' = Tail(serviceChannel) /\ services' = services
    BY <1>3 DEF ReceiveService
  <2> DEFINE taken == [serviceUpdater EXCEPT ![r] =
                            [step |-> "upsert", item |-> Head(serviceChannel)]]
  <2>2. Takes(r, "upsert", Head(serviceChannel), serviceUpdater, taken) /\ serviceUpdater' = taken
    BY <1>1, <2>1 DEF Takes, UpdatersOf
  <2> HIDE DEF taken
  <2>3. /\ OneEach(ServiceOf, sending, Tail(serviceChannel), taken, services)
        /\ OnTheirWay(sending, Tail(serviceChannel), taken) = ways
    <3>1. serviceUpdater[r] = Receiving /\ serviceChannel # <<>>
      BY <2>1
    <3>2. OneEach(ServiceOf, sending, Tail(serviceChannel), taken, services)
      BY <1>1, <2>2, <3>1, ReceiveKeepsOneEach
    <3>3. OnTheirWay(sending, Tail(serviceChannel), taken) = ways
      BY <1>1, <2>2, <3>1, ReceiveKeepsOnTheirWay
    <3>4. QED
      BY <3>2, <3>3
  <2>4. QED
    BY <2>1, <2>2, <2>3
<1>4. CASE ReplaceService(r)
  <2>1. CASE \E k \in DOMAIN services : SameService(services[k], item)
                /\ services' = [services EXCEPT ![k] = item]
                /\ serviceUpdater' = [serviceUpdater EXCEPT ![r] = Receiving]
    <3>1. PICK k \in DOMAIN services : SameService(services[k], item)
                /\ services' = [services EXCEPT ![k] = item]
                /\ serviceUpdater' = [serviceUpdater EXCEPT ![r] = Receiving]
      BY <2>1
    <3>2. serviceUpdater[r].step = "upsert" /\ serviceChannel' = serviceChannel
      BY <1>4 DEF ReplaceService
    <3>3. ServiceOf[services[k]] = ServiceOf[item]
      BY <1>1, <1>2, <3>1, <3>2 DEF ServiceOf, SameService
    <3>4. OneEach(ServiceOf, sending, serviceChannel', serviceUpdater', services')
      BY <1>1, <3>1, <3>2, <3>3, ReplaceKeepsOneEach
    <3>5. ways = later \cup {item}
      BY <1>1, <3>1, <3>2, GivenUpKeepsOneEach
    <3>6. item \in Range(services') /\ \A d \in Range(services) : d \in Range(services') \/ ServiceOf[d] = ServiceOf[item]
      BY <1>1, <3>1, <3>3 DEF Range
    <3> HIDE DEF ways, later, item
    <3>7. ASSUME NEW x, NEW good, Right(ServiceOf, x, good, ways), Arrives(ServiceOf, x, good, ways, services)
          PROVE  Arrives(ServiceOf, x, good, later, services')
      BY <3>5, <3>6, <3>7, StoredArrives
    <3>8. QED
      BY <3>4, <3>5, <3>7
  <2>2. CASE /\ \A k \in DOMAIN services : ~(SameService(services[k], item))
             /\ serviceUpdater' = [serviceUpdater EXCEPT ![r] = [step |-> "insert", item |-> @.item]]
             /\ UNCHANGED services
    <3>1. serviceUpdater[r].step = "upsert" /\ serviceChannel' = serviceChannel
      BY <1>4 DEF ReplaceService
    <3>2. \A k \in DOMAIN services : ServiceOf[services[k]] # ServiceOf[item]
      BY <1>1, <1>2, <2>2, <3>1 DEF ServiceOf, SameService
    <3> DEFINE found == [serviceUpdater EXCEPT ![r] = [step |-> "insert", item |-> @.item]]
    <3>3. Takes(r, "insert", item, serviceUpdater, found) /\ serviceUpdater' = found
      BY <1>1, <2>2 DEF Takes, UpdatersOf
    <3> HIDE DEF found
    <3>4. /\ OneEach(ServiceOf, sending, serviceChannel, found, services)
          /\ OnTheirWay(sending, serviceChannel, found) = ways
      BY <1>1, <3>1, <3>2, <3>3, NotFoundKeepsOneEach, NotFoundKeepsOnTheirWay
    <3>5. QED
      BY <2>2, <3>1, <3>3, <3>4
  <2>3. QED
    BY <1>4, <2>1, <2>2 DEF ReplaceService
<1>5. CASE InsertService(r)
  <2>1. /\ serviceUpdater[r].step = "insert" /\ serviceChannel' = serviceChannel
        /\ services' = Append(services, item) /\ serviceUpdater' = [serviceUpdater EXCEPT ![r] = Receiving]
    BY <1>5 DEF InsertService
  <2>2. OneEach(ServiceOf, sending, serviceChannel', serviceUpdater', services')
    BY <1>1, <2>1, InsertKeepsOneEach
  <2>3. ways = later \cup {item}
    BY <1>1, <2>1, GivenUpKeepsOneEach
  <2>4. item \in Range(services') /\ \A d \in Range(services) : d \in Range(services')
    BY <1>1, <1>2, <2>1, ChannelElements DEF Range
  <2> HIDE DEF ways, later, item
  <2>5. ASSUME NEW x, NEW good, Right(ServiceOf, x, good, ways), Arrives(ServiceOf, x, good, ways, services)
        PROVE  Arrives(ServiceOf, x, good, later, services')
    BY <2>3, <2>4, <2>5, StoredArrives
  <2>6. QED
    BY <2>2, <2>3, <2>5
<1>6. CASE UpsertServiceFails(r)
  <2>1. /\ serviceUpdater[r].step \in {"upsert", "insert"} /\ serviceChannel' = serviceChannel
        /\ services' = services /\ serviceUpdater' = [serviceUpdater EXCEPT ![r] = Returned] /\ faulty'
    BY <1>6 DEF UpsertServiceFails
  <2>2. OneEach(ServiceOf, sending, serviceChannel', serviceUpdater', services') /\ later \subseteq ways
    BY <1>1, <2>1, GivenUpKeepsOneEach
  <2>3. QED
    BY <2>1, <2>2
<1>7. QED
  BY <1>3, <1>4, <1>5, <1>6 DEF UpsertServices

-----------------------------------------------------------------------------
(* The steps of the goroutines that upsert.                                *)

LEMMA UpsertServicesCalm ==
    ASSUME TypeOK, ~MayOverlap, NEW r \in Reloads, UpsertServices(r), OneServiceEach
    PROVE  OneServiceEach' /\ (~faulty' /\ ServicesAreListed => ServicesAreListed')
<1>1. UNCHANGED <<scanVars, namespaceChannel, namespaceUpdater, namespaces>>
  BY DEF UpsertServices, ReceiveService, ReplaceService, InsertService, UpsertServiceFails
<1>2. UNCHANGED <<cluster, annotated, changed, Now, Ahead, Listing, Sending, Settled>>
  BY <1>1 DEF scanVars, clusterVars, Now, Ahead, Listing, Sending, Settled
<1>3. /\ OneEach(ServiceOf, Sending, serviceChannel', serviceUpdater', services')
      /\ ServicesOnTheirWay' \subseteq ServicesOnTheirWay
      /\ ~faulty' => \A x, good :
            Right(ServiceOf, x, good, ServicesOnTheirWay)
            /\ Arrives(ServiceOf, x, good, ServicesOnTheirWay, services)
               => Arrives(ServiceOf, x, good, ServicesOnTheirWay', services')
  BY <1>2, ServiceUpsertsMove DEF OneServiceEach, ServicesOnTheirWay
<1>4. OneServiceEach'
  BY <1>2, <1>3 DEF OneServiceEach
<1>5. ASSUME ~faulty', ServicesAreListed, NEW x, NEW good,
             Right(ServiceOf, x, good, ServicesOnTheirWay)
      PROVE  /\ Right(ServiceOf, x, good, ServicesOnTheirWay')
             /\ Arrives(ServiceOf, x, good, ServicesOnTheirWay, services)
                  => Arrives(ServiceOf, x, good, ServicesOnTheirWay', services')
  BY <1>3, <1>5 DEF Right
<1>6. ASSUME ~faulty', ServicesAreListed
      PROVE  ServicesAreListed'
  BY <1>2, <1>5, <1>6 DEF ServicesAreListed
<1>7. QED
  BY <1>4, <1>6

LEMMA UpsertNamespacesCalm ==
    ASSUME TypeOK, ~MayOverlap, NEW r \in Reloads, UpsertNamespaces(r), OneNamespaceEach
    PROVE  OneNamespaceEach' /\ (~faulty' /\ NamespacesAreListed => NamespacesAreListed')
<1>1. UNCHANGED <<scanVars, serviceChannel, serviceUpdater, services>>
  BY DEF UpsertNamespaces, ReceiveNamespace, ReplaceNamespace, InsertNamespace, UpsertNamespaceFails
<1>2. UNCHANGED <<cluster, annotated, changed, Now, Ahead>>
  BY <1>1 DEF scanVars, clusterVars, Now, Ahead, Listing
<1>3. /\ OneEach(NameOf, {}, namespaceChannel', namespaceUpdater', namespaces')
      /\ NamespacesOnTheirWay' \subseteq NamespacesOnTheirWay
      /\ ~faulty' => \A x, good :
            Right(NameOf, x, good, NamespacesOnTheirWay)
            /\ Arrives(NameOf, x, good, NamespacesOnTheirWay, namespaces)
               => Arrives(NameOf, x, good, NamespacesOnTheirWay', namespaces')
  BY NamespaceUpsertsMove DEF OneNamespaceEach, NamespacesOnTheirWay
<1>4. OneNamespaceEach'
  BY <1>2, <1>3 DEF OneNamespaceEach
<1>5. ASSUME ~faulty', NEW x, NEW good, Right(NameOf, x, good, NamespacesOnTheirWay)
      PROVE  /\ Right(NameOf, x, good, NamespacesOnTheirWay')
             /\ Arrives(NameOf, x, good, NamespacesOnTheirWay, namespaces)
                  => Arrives(NameOf, x, good, NamespacesOnTheirWay', namespaces')
  BY <1>3, <1>5 DEF Right
<1>6. ASSUME ~faulty', NamespacesAreListed
      PROVE  NamespacesAreListed'
  BY <1>2, <1>5, <1>6 DEF NamespacesAreListed
<1>7. QED
  BY <1>4, <1>6

(* The other collection is not concerned.                                  *)
LEMMA ServicesFrame ==
    UNCHANGED <<requests, scan, serviceChannel, serviceUpdater, services, cluster, annotated, changed>>
    => /\ OneServiceEach => OneServiceEach'
       /\ ServicesAreListed => ServicesAreListed'
<1> SUFFICES ASSUME UNCHANGED <<requests, scan, serviceChannel, serviceUpdater, services,
                                cluster, annotated, changed>>
             PROVE  /\ OneServiceEach => OneServiceEach'
                    /\ ServicesAreListed => ServicesAreListed'
  OBVIOUS
<1>1. UNCHANGED <<Now, Ahead, Listing, Sending, Settled, ServicesOnTheirWay>>
  BY DEF Now, Ahead, Listing, Sending, Settled, ServicesOnTheirWay
<1>2. QED
  BY <1>1 DEF OneServiceEach, ServicesAreListed

LEMMA NamespacesFrame ==
    UNCHANGED <<requests, scan, namespaceChannel, namespaceUpdater, namespaces, annotated, changed>>
    => /\ OneNamespaceEach => OneNamespaceEach'
       /\ NamespacesAreListed => NamespacesAreListed'
<1> SUFFICES ASSUME UNCHANGED <<requests, scan, namespaceChannel, namespaceUpdater, namespaces,
                                annotated, changed>>
             PROVE  /\ OneNamespaceEach => OneNamespaceEach'
                    /\ NamespacesAreListed => NamespacesAreListed'
  OBVIOUS
<1>1. UNCHANGED <<Now, Ahead, NamespacesOnTheirWay>>
  BY DEF Now, Ahead, Listing, NamespacesOnTheirWay
<1>2. QED
  BY <1>1 DEF OneNamespaceEach, NamespacesAreListed

-----------------------------------------------------------------------------
(* The steps of the scan.                                                  *)

LEMMA ScanIsNow ==
    ASSUME TypeOK, ~MayOverlap, OneScan, NEW r \in Reloads, Scan(r)
    PROVE  /\ r = requests /\ requests > 0 /\ Now = scan[r] /\ Now' = scan'[r] /\ Now \in ScanStates
           /\ OneScan' /\ UNCHANGED <<clusterVars, storeVars>>
<1>1. scan \in [Reloads -> ScanStates] /\ requests \in Nat
  BY DEF TypeOK
<1>2. scan[r].step \in {"list", "next", "services", "deployments", "send"}
  BY DEF Scan, ListNamespaces, SendNamespace, ListServices, ListDeployments,
     ListDeploymentsFails, SendService, NextNamespace, EndScan, ScanFails
<1>3. r = requests /\ requests > 0
  BY <1>1, <1>2 DEF OneScan, Returned, NotStarted, Reloads
<1>4. UNCHANGED <<clusterVars, storeVars>>
  BY DEF Scan, ListNamespaces, SendNamespace, ListServices, ListDeployments,
     ListDeploymentsFails, SendService, NextNamespace, EndScan, ScanFails
<1>5. \E x : scan' = [scan EXCEPT ![r] = x] /\ x.step # "none"
  BY DEF Scan, ListNamespaces, SendNamespace, ListServices, ListDeployments,
     ListDeploymentsFails, SendService, NextNamespace, EndScan, ScanFails, Returned
<1>6. OneScan'
  BY <1>1, <1>3, <1>4, <1>5 DEF OneScan, storeVars, NotStarted
<1>7. QED
  BY <1>1, <1>3, <1>4, <1>6 DEF Now, storeVars

(* A namespace is sent once, as it was listed.                             *)
LEMMA SendNamespaceCalm ==
    ASSUME TypeOK, ~MayOverlap, OneScan, NEW r \in Reloads, SendNamespace(r), OneNamespaceEach
    PROVE  OneNamespaceEach' /\ (NamespacesAreListed => NamespacesAreListed')
<1>1. /\ Now = scan[r] /\ Now' = scan'[r] /\ Now \in ScanStates
      /\ UNCHANGED <<clusterVars, storeVars>>
  BY ScanIsNow DEF Scan
<1>2. Now.step = "next" /\ Ahead = DOMAIN Now.left
      /\ Now.left \in PartsOf(Namespaces, NamespaceObjects)
  BY <1>1, WhatScansKeep DEF SendNamespace, Ahead
<1>3. scan \in [Reloads -> ScanStates] /\ namespaceChannel \in Seq(NamespaceItems)
      /\ namespaceUpdater \in UpdatersOf(NamespaceItems)
  BY DEF TypeOK
<1>4. PICK n \in DOMAIN Now.left :
         LET i == [name |-> n, annotations |-> NamespaceAnnotations(Now.left[n])]
         IN /\ namespaceChannel' = Append(namespaceChannel, i)
            /\ scan' = [scan EXCEPT ![r] =
                   [step |-> "services", namespace |-> n, annotations |-> i.annotations,
                    left |-> Restrict(Now.left, DOMAIN Now.left \ {n})]]
  BY <1>1 DEF SendNamespace
<1> DEFINE i == [name |-> n, annotations |-> NamespaceAnnotations(Now.left[n])]
<1>5. /\ Now'.step = "services" /\ Ahead' = Ahead \ {n} /\ n \in Ahead
      /\ \A m \in Ahead' : Now'.left[m] = Now.left[m]
  BY <1>1, <1>2, <1>3, <1>4 DEF Ahead, Listing, Restrict
<1>6. n \in Namespaces /\ Now.left[n] \in NamespaceObject
  BY <1>2, PartsOfAre
<1>7. i \in NamespaceItems /\ i.name = n /\ NameOf[i] = n
  BY <1>6, NamespaceSettings DEF NamespaceItems, NameOf
<1>8. i.annotations = Effective([enable |-> "", port |-> Unset], Now.left[n])
  BY <1>6, NamespaceIsEffective
<1>9. namespaceChannel' = Append(namespaceChannel, i)
  BY <1>4
<1> HIDE DEF i
<1>10. NamespacesOnTheirWay' = NamespacesOnTheirWay \cup {i}
  <2>1. {i} \ {i} = {} /\ OnTheirWay({i}, namespaceChannel, namespaceUpdater) = NamespacesOnTheirWay \cup {i}
    BY DEF OnTheirWay, NamespacesOnTheirWay
  <2>2. OnTheirWay({i} \ {i}, Append(namespaceChannel, i), namespaceUpdater)
           = OnTheirWay({i}, namespaceChannel, namespaceUpdater) \cup {i}
    <3> DEFINE one == {i}
    <3> HIDE DEF one
    <3>1. OnTheirWay(one \ {i}, Append(namespaceChannel, i), namespaceUpdater)
             = OnTheirWay(one, namespaceChannel, namespaceUpdater) \cup {i}
      BY <1>3, <1>7, SendKeepsOnTheirWay
    <3>2. QED
      BY <3>1, Zenon DEF one
  <2>3. QED
    BY <1>1, <1>9, <2>1, <2>2 DEF NamespacesOnTheirWay, storeVars
<1>11. NamespacesOnTheirWay \subseteq NamespaceItems
  <2>1. Range(namespaceChannel) \subseteq NamespaceItems
    BY <1>3 DEF Range
  <2>2. \A q \in Upserting(namespaceUpdater) : namespaceUpdater[q].item \in NamespaceItems
    BY <1>3, WhatUpdatersKeep DEF Upserting
  <2>3. QED
    BY <2>1, <2>2 DEF NamespacesOnTheirWay, OnTheirWay
<1>12. \A j \in NamespacesOnTheirWay : NameOf[j] = j.name /\ j.name # n
  BY <1>5, <1>11 DEF OneNamespaceEach, NameOf
<1>13. OneEach(NameOf, {i} \ {i}, Append(namespaceChannel, i), namespaceUpdater, namespaces)
  <2>1. \A k \in DOMAIN namespaceChannel : NameOf[namespaceChannel[k]] # NameOf[i]
    BY <1>7, <1>12 DEF NamespacesOnTheirWay, OnTheirWay, Range
  <2>2. \A q \in Upserting(namespaceUpdater) : NameOf[namespaceUpdater[q].item] # NameOf[i]
    BY <1>7, <1>12 DEF NamespacesOnTheirWay, OnTheirWay
  <2>3. OneEach(NameOf, {i}, namespaceChannel, namespaceUpdater, namespaces)
    BY <2>1, <2>2 DEF OneNamespaceEach, OneEach
  <2>4. QED
    BY <1>3, <1>7, <2>3, SendKeepsOneEach
<1>14. OneNamespaceEach'
  <2>1. {i} \ {i} = {}
    OBVIOUS
  <2>2. OneEach(NameOf, {}, namespaceChannel', namespaceUpdater', namespaces')
    BY <1>1, <1>9, <1>13, <2>1 DEF storeVars
  <2>3. \A j \in NamespacesOnTheirWay' : j.name \notin Ahead'
    BY <1>5, <1>7, <1>10 DEF OneNamespaceEach
  <2>4. QED
    BY <2>2, <2>3 DEF OneNamespaceEach
<1>15. ASSUME NamespacesAreListed
       PROVE  NamespacesAreListed'
  <2>1. UNCHANGED <<annotated, changed, namespaces>>
    BY <1>1 DEF clusterVars, storeVars
  <2>2. ASSUME NEW m \in Namespaces \ changed
        PROVE  /\ m \in Ahead' => Now'.left[m] = annotated[m]
               /\ Right(NameOf, m, NamespaceNow(annotated[m]), NamespacesOnTheirWay')
               /\ m \in Ahead' \/ Arrives(NameOf, m, NamespaceNow(annotated[m]), NamespacesOnTheirWay', namespaces)
    <3>1. /\ m \in Ahead => Now.left[m] = annotated[m]
          /\ Right(NameOf, m, NamespaceNow(annotated[m]), NamespacesOnTheirWay)
          /\ m \in Ahead \/ Arrives(NameOf, m, NamespaceNow(annotated[m]), NamespacesOnTheirWay, namespaces)
      BY <1>2, <1>15 DEF NamespacesAreListed
    <3>2. m = n => i \in NamespaceNow(annotated[m])
      BY <1>5, <1>7, <1>8, <3>1 DEF NamespaceNow
    <3>3. Right(NameOf, m, NamespaceNow(annotated[m]), NamespacesOnTheirWay')
      BY <1>7, <1>10, <3>1, <3>2 DEF Right
    <3>4. m \in Ahead' \/ Arrives(NameOf, m, NamespaceNow(annotated[m]), NamespacesOnTheirWay', namespaces)
      BY <1>5, <1>7, <1>10, <3>1 DEF Arrives
    <3>5. QED
      BY <1>5, <3>1, <3>3, <3>4
  <2>3. QED
    BY <2>1, <2>2 DEF NamespacesAreListed
<1>16. QED
  BY <1>14, <1>15

LEMMA ScanNamespacesCalm ==
    ASSUME TypeOK, ~MayOverlap, OneScan, NEW r \in Reloads, Scan(r), OneNamespaceEach
    PROVE  OneNamespaceEach' /\ (~faulty' /\ NamespacesAreListed => NamespacesAreListed')
<1>1. /\ Now = scan[r] /\ Now' = scan'[r] /\ Now \in ScanStates /\ scan \in [Reloads -> ScanStates]
      /\ UNCHANGED <<clusterVars, storeVars>> /\ DOMAIN annotated = Namespaces
  BY ScanIsNow DEF TypeOK
<1>2. CASE SendNamespace(r)
  BY <1>2, SendNamespaceCalm
<1>3. ASSUME ~SendNamespace(r)
      PROVE  /\ UNCHANGED namespaceChannel /\ Ahead' \subseteq Ahead
             /\ ~faulty' => /\ Ahead' = Ahead
                            /\ Now'.step = "list" => Now.step = "list"
                            /\ Now.step = "list" => Now'.left = annotated
                            /\ Now.step # "list" => \A n \in Ahead : Now'.left[n] = Now.left[n]
  <2>1. CASE ListNamespaces(r)
    BY <1>1, <2>1 DEF ListNamespaces, Ahead, Listing
  <2>2. CASE ListServices(r)
    BY <1>1, <2>2 DEF ListServices, Ahead, Listing
  <2>3. CASE ListDeployments(r)
    BY <1>1, <2>3 DEF ListDeployments, Ahead, Listing
  <2>4. CASE ListDeploymentsFails(r)
    BY <1>1, <2>4 DEF ListDeploymentsFails, Ahead, Listing
  <2>5. CASE SendService(r)
    BY <1>1, <2>5 DEF SendService, Ahead, Listing
  <2>6. CASE NextNamespace(r)
    BY <1>1, <2>6 DEF NextNamespace, Ahead, Listing
  <2>7. CASE EndScan(r)
    BY <1>1, <2>7 DEF EndScan, Ahead, Listing, Returned
  <2>8. CASE ScanFails(r)
    BY <1>1, <2>8 DEF ScanFails, Ahead, Listing, Returned
  <2>9. QED
    BY <1>3, <2>1, <2>2, <2>3, <2>4, <2>5, <2>6, <2>7, <2>8 DEF Scan
<1>4. CASE ~SendNamespace(r)
  <2>1. UNCHANGED <<NamespacesOnTheirWay, namespaceChannel, namespaceUpdater, namespaces,
                    annotated, changed>>
    BY <1>1, <1>3, <1>4 DEF NamespacesOnTheirWay, storeVars, clusterVars
  <2>2. OneNamespaceEach'
    BY <1>3, <1>4, <2>1 DEF OneNamespaceEach
  <2>3. ASSUME ~faulty', NamespacesAreListed
        PROVE  NamespacesAreListed'
    BY <1>3, <1>4, <2>1, <2>3 DEF NamespacesAreListed
  <2>4. QED
    BY <2>2, <2>3
<1>5. QED
  BY <1>2, <1>4

LEMMA SentAreItems ==
    ASSUME TypeOK, Now \in ScanStates
    PROVE  Sending \subseteq ServiceItems /\ ServicesOnTheirWay \subseteq ServiceItems
<1>1. serviceChannel \in Seq(ServiceItems) /\ serviceUpdater \in UpdatersOf(ServiceItems)
  BY DEF TypeOK
<1>2. Sending \subseteq ServiceItems
  BY WhatScansKeep DEF Sending
<1>3. Range(serviceChannel) \subseteq ServiceItems
  BY <1>1 DEF Range
<1>4. \A q \in Upserting(serviceUpdater) : serviceUpdater[q].item \in ServiceItems
  BY <1>1, WhatUpdatersKeep DEF Upserting
<1>5. QED
  BY <1>2, <1>3, <1>4 DEF ServicesOnTheirWay, OnTheirWay

(* The services of a namespace are sent once each, as they are: they were  *)
(* listed before their deployments, and have not changed since.            *)
LEMMA ListDeploymentsCalm ==
    ASSUME TypeOK, ~MayOverlap, OneScan, NEW r \in Reloads, ListDeployments(r), OneServiceEach
    PROVE  OneServiceEach' /\ (ServicesAreListed => ServicesAreListed')
<1>1. /\ Now = scan[r] /\ Now' = scan'[r] /\ Now \in ScanStates /\ scan \in [Reloads -> ScanStates]
      /\ UNCHANGED <<clusterVars, storeVars, serviceChannel>>
  BY ScanIsNow DEF Scan, TypeOK, ListDeployments
<1> DEFINE found == Now.found
           kept == {t \in DOMAIN found : cluster[t].replicas # None}
           ItemOf(s) == ServiceItem(s, found[s], Now.annotations, cluster[s].replicas)
           items == {ItemOf(s) : s \in kept}
<1>2. Now.step = "deployments" /\ Listing /\ Sending = {} /\ Ahead = DOMAIN Now.left
  BY <1>1 DEF ListDeployments, Listing, Sending, Ahead
<1>3. /\ found \in PartsOf(Services, ServiceObjects) /\ Now.annotations \in Settings
      /\ Now.namespace \in Namespaces
  BY <1>1, <1>2, WhatScansKeep
<1>4. Now' = [step |-> "send", left |-> Now.left, items |-> {i \in items : ~i.failed}]
  BY <1>1 DEF ListDeployments
<1>5. /\ Now'.step = "send" /\ ~Listing' /\ Ahead' = Ahead /\ Now'.left = Now.left
      /\ Sending' = {i \in items : ~i.failed}
  <2> HIDE DEF items
  <2> QED
    BY <1>2, <1>4 DEF Listing, Sending, Ahead
<1>6. ASSUME NEW s \in kept
      PROVE  /\ s \in Services /\ s.namespace = Now.namespace /\ found[s] \in ServiceObject
             /\ ItemOf(s).service = s
             /\ ~ItemOf(s).failed => ItemOf(s) \in ServiceItems
  <2>1. s \in Services /\ found[s] \in ServiceObjects
    BY <1>3, PartsOfAre
  <2>2. cluster[s].replicas \in Nat
    BY <2>1 DEF TypeOK, ServiceObject
  <2>3. s.namespace = Now.namespace
    BY <1>2 DEF OneServiceEach
  <2>4. QED
    BY <1>3, <2>1, <2>2, <2>3, ServiceItemType
<1>7. ASSUME NEW i \in Sending'
      PROVE  /\ i \in ServiceItems /\ i.service \in kept /\ i = ItemOf(i.service)
             /\ i.service.namespace = Now.namespace /\ ServiceOf[i] = i.service
  <2>1. PICK s \in kept : i = ItemOf(s) /\ ~i.failed
    BY <1>5
  <2> HIDE DEF kept, ItemOf
  <2>2. QED
    BY <1>6, <2>1 DEF ServiceOf
<1>8. ServicesOnTheirWay' = ServicesOnTheirWay \cup Sending'
  BY <1>1, <1>2 DEF ServicesOnTheirWay, OnTheirWay, storeVars
<1>9. \A j \in ServicesOnTheirWay : /\ ServiceOf[j] = j.service /\ j.service.namespace # Now.namespace
                                   /\ j.service.namespace \notin Ahead
  BY <1>1, <1>2, SentAreItems DEF OneServiceEach, ServiceOf
<1>10. OneServiceEach'
  <2> HIDE DEF kept, ItemOf, items
  <2>1. \A i, j \in Sending' : ServiceOf[i] = ServiceOf[j] => i = j
    BY <1>7
  <2>2. \A i \in Sending' : \A j \in ServicesOnTheirWay : ServiceOf[i] # ServiceOf[j]
    BY <1>7, <1>9
  <2>3. /\ \A k \in DOMAIN serviceChannel : serviceChannel[k] \in ServicesOnTheirWay
        /\ \A q \in Upserting(serviceUpdater) : serviceUpdater[q].item \in ServicesOnTheirWay
    BY DEF ServicesOnTheirWay, OnTheirWay, Range
  <2>4. OneEach(ServiceOf, Sending', serviceChannel, serviceUpdater, services)
    BY <2>1, <2>2, <2>3 DEF OneServiceEach, OneEach
  <2>5. \A i \in ServicesOnTheirWay' : i.service.namespace \notin Ahead'
    BY <1>2, <1>5, <1>7, <1>8, <1>9 DEF OneServiceEach
  <2>6. QED
    BY <1>1, <1>5, <2>4, <2>5 DEF OneServiceEach, storeVars
<1>11. ASSUME ServicesAreListed
       PROVE  ServicesAreListed'
  <2> DEFINE good(s) == ServiceNow(cluster[s], annotated[s.namespace])
  <2>1. UNCHANGED <<cluster, annotated, changed, services, Settled>>
    BY <1>1 DEF clusterVars, storeVars, Settled
  <2>2. ASSUME NEW s \in Services \ changed, s.namespace = Now.namespace
        PROVE  /\ s \in DOMAIN found <=> cluster[s].exists
               /\ s \in DOMAIN found => ItemOf(s).annotations = Effective(cluster[s], annotated[s.namespace])
               /\ s \in DOMAIN found => ItemOf(s).replicas = cluster[s].replicas
               /\ s \in Settled => s \in kept /\ ~ItemOf(s).failed
    <3>1. /\ Now.annotations = NamespaceAnnotations(annotated[s.namespace])
          /\ s \in DOMAIN found <=> cluster[s].exists
          /\ cluster[s].exists => found[s] = cluster[s]
      BY <1>2, <1>11, <2>2 DEF ServicesAreListed
    <3>2. cluster[s] \in ServiceObject /\ annotated[s.namespace] \in NamespaceObject
      BY DEF TypeOK
    <3>3. overrideParentAnnotations(getHealthAnnotations(cluster[s]), NamespaceAnnotations(annotated[s.namespace]))
             = Effective(cluster[s], annotated[s.namespace])
      BY <3>2, OverridingIsEffective
    <3>4. s \in DOMAIN found =>
             /\ ItemOf(s).annotations = Effective(cluster[s], annotated[s.namespace])
             /\ ItemOf(s).replicas = cluster[s].replicas
             /\ ItemOf(s).failed = getAppPortForService(cluster[s].ports,
                                       Effective(cluster[s], annotated[s.namespace]).port).failed
      BY <3>1, <3>3 DEF ServiceItem
    <3>5. QED
      BY <3>1, <3>4 DEF Settled
  <2>3. ASSUME NEW s \in Services \ changed
        PROVE  Right(ServiceOf, s, good(s), ServicesOnTheirWay')
    <3>1. Right(ServiceOf, s, good(s), ServicesOnTheirWay)
      BY <1>11 DEF ServicesAreListed
    <3>2. ASSUME NEW i \in Sending', ServiceOf[i] = s
          PROVE  i \in good(s)
      <4>1. i.service = s /\ s \in kept /\ i = ItemOf(s) /\ i \in ServiceItems /\ s.namespace = Now.namespace
        BY <1>7, <3>2
      <4>2. QED
        BY <2>2, <4>1 DEF ServiceNow
    <3>3. QED
      BY <1>8, <3>1, <3>2 DEF Right
  <2>4. ASSUME NEW s \in Settled, s \notin changed
        PROVE  s.namespace \in Ahead' \/ Arrives(ServiceOf, s, good(s), ServicesOnTheirWay', services)
    <3>1. CASE s.namespace = Now.namespace
      <4>1. s \in kept /\ ~ItemOf(s).failed
        BY <2>2, <2>4, <3>1 DEF Settled
      <4>2. ItemOf(s) \in Sending'
        BY <1>5, <4>1
      <4> HIDE DEF ItemOf, kept, items
      <4>3. ServiceOf[ItemOf(s)] = s
        BY <1>6, <1>7, <4>1, <4>2
      <4>4. QED
        BY <1>8, <4>2, <4>3 DEF Arrives
    <3>2. CASE s.namespace # Now.namespace
      <4>1. s.namespace \in Ahead \/ Arrives(ServiceOf, s, good(s), ServicesOnTheirWay, services)
        BY <1>11, <2>4, <3>2 DEF ServicesAreListed, Settled
      <4>2. QED
        BY <1>5, <1>8, <4>1 DEF Arrives
    <3>3. QED
      BY <3>1, <3>2
  <2>5. ASSUME NEW s \in Services \ changed, s.namespace \in Ahead'
        PROVE  Now'.left[s.namespace] = annotated[s.namespace]
    BY <1>2, <1>5, <1>11, <2>5 DEF ServicesAreListed
  <2>6. QED
    BY <1>5, <2>1, <2>3, <2>4, <2>5 DEF ServicesAreListed
<1>12. QED
  BY <1>10, <1>11

(* A service sent is one that was to be sent.                              *)
LEMMA SendServiceCalm ==
    ASSUME TypeOK, ~MayOverlap, OneScan, NEW r \in Reloads, SendService(r), OneServiceEach
    PROVE  OneServiceEach' /\ (ServicesAreListed => ServicesAreListed')
<1>1. /\ Now = scan[r] /\ Now' = scan'[r] /\ Now \in ScanStates /\ scan \in [Reloads -> ScanStates]
      /\ UNCHANGED <<clusterVars, storeVars>> /\ serviceChannel \in Seq(ServiceItems)
  BY ScanIsNow DEF Scan, TypeOK
<1>2. PICK i \in Now.items :
         /\ serviceChannel' = Append(serviceChannel, i)
         /\ scan' = [scan EXCEPT ![r] = [step |-> "send", left |-> Now.left, items |-> Now.items \ {i}]]
  BY <1>1 DEF SendService
<1>3. Now.step = "send" /\ ~Listing /\ Sending = Now.items /\ Ahead = DOMAIN Now.left
  BY <1>1 DEF SendService, Listing, Sending, Ahead
<1>4. /\ Now'.step = "send" /\ ~Listing' /\ Sending' = Sending \ {i} /\ Ahead' = Ahead
      /\ Now'.left = Now.left
  BY <1>1, <1>2, <1>3 DEF Listing, Sending, Ahead
<1>5. i \in Sending /\ i \in ServiceItems /\ i \in ServicesOnTheirWay
  BY <1>1, <1>2, <1>3, SentAreItems DEF ServicesOnTheirWay, OnTheirWay
<1>6. ServicesOnTheirWay' = ServicesOnTheirWay
  <2>1. OnTheirWay(Sending \ {i}, Append(serviceChannel, i), serviceUpdater)
           = OnTheirWay(Sending, serviceChannel, serviceUpdater) \cup {i}
    BY <1>1, <1>5, SendKeepsOnTheirWay
  <2>2. OnTheirWay(Sending', serviceChannel', serviceUpdater') = ServicesOnTheirWay \cup {i}
    BY <1>1, <1>2, <1>4, <2>1 DEF ServicesOnTheirWay, storeVars
  <2>3. QED
    BY <1>5, <2>2 DEF ServicesOnTheirWay
<1>7. OneEach(ServiceOf, Sending', serviceChannel', serviceUpdater', services')
  <2>1. OneEach(ServiceOf, Sending \ {i}, Append(serviceChannel, i), serviceUpdater, services)
    BY <1>1, <1>5, SendKeepsOneEach DEF OneServiceEach
  <2>2. QED
    BY <1>1, <1>2, <1>4, <2>1 DEF storeVars
<1>8. OneServiceEach'
  BY <1>3, <1>4, <1>6, <1>7 DEF OneServiceEach
<1>9. ASSUME ServicesAreListed
      PROVE  ServicesAreListed'
  <2>1. UNCHANGED <<cluster, annotated, changed, services, Settled>>
    BY <1>1 DEF clusterVars, storeVars, Settled
  <2>2. QED
    BY <1>3, <1>4, <1>6, <1>9, <2>1 DEF ServicesAreListed
<1>10. QED
  BY <1>8, <1>9

LEMMA ScanServicesCalm ==
    ASSUME TypeOK, ~MayOverlap, OneScan, NEW r \in Reloads, Scan(r), OneServiceEach
    PROVE  OneServiceEach' /\ (~faulty' /\ ServicesAreListed => ServicesAreListed')
<1>1. /\ Now = scan[r] /\ Now' = scan'[r] /\ Now \in ScanStates /\ scan \in [Reloads -> ScanStates]
      /\ UNCHANGED <<clusterVars, storeVars>> /\ DOMAIN annotated = Namespaces
  BY ScanIsNow DEF TypeOK
<1>2. CASE ListDeployments(r)
  BY <1>2, ListDeploymentsCalm
<1>3. CASE SendService(r)
  BY <1>3, SendServiceCalm
<1> DEFINE Others == ~ListDeployments(r) /\ ~SendService(r)
<1>4. ASSUME Others
      PROVE  /\ UNCHANGED serviceChannel /\ Sending = {} /\ Sending' = {}
             /\ Ahead' \subseteq Ahead
             /\ Listing' => /\ Now'.namespace \in Namespaces /\ Now'.namespace \notin Ahead'
                            /\ (Listing /\ Now'.namespace = Now.namespace) \/ Now'.namespace \in Ahead
  <2>1. CASE ListNamespaces(r)
    BY <1>1, <2>1 DEF ListNamespaces, Ahead, Listing, Sending
  <2>2. CASE ListServices(r)
    BY <1>1, <2>2, WhatScansKeep DEF ListServices, Ahead, Listing, Sending, OneServiceEach
  <2>3. CASE SendNamespace(r)
    <3>1. Now.left \in PartsOf(Namespaces, NamespaceObjects)
      BY <1>1, <2>3, WhatScansKeep DEF SendNamespace
    <3>2. QED
      BY <1>1, <2>3, <3>1, PartsOfAre DEF SendNamespace, Ahead, Listing, Sending, Restrict
  <2>4. CASE ListDeploymentsFails(r)
    BY <1>1, <2>4 DEF ListDeploymentsFails, Ahead, Listing, Sending
  <2>5. CASE NextNamespace(r)
    BY <1>1, <2>5 DEF NextNamespace, Ahead, Listing, Sending
  <2>6. CASE EndScan(r)
    BY <1>1, <2>6 DEF EndScan, Ahead, Listing, Sending, Returned
  <2>7. CASE ScanFails(r)
    BY <1>1, <2>7 DEF ScanFails, Ahead, Listing, Sending, Returned
  <2>8. QED
    BY <1>4, <2>1, <2>2, <2>3, <2>4, <2>5, <2>6, <2>7 DEF Scan
<1>5. ASSUME Others
      PROVE  Now'.step = "deployments" =>
               /\ Listing /\ Now.step = "services" /\ Now'.namespace = Now.namespace
               /\ Now'.annotations = Now.annotations
               /\ Now'.found = [s \in {t \in Services : t.namespace = Now.namespace /\ cluster[t].exists}
                                   |-> cluster[s]]
  <2>1. CASE ListServices(r)
    <3> DEFINE listed == {t \in Services : t.namespace = Now.namespace /\ cluster[t].exists}
    <3>1. Now' = [step |-> "deployments", namespace |-> Now.namespace, annotations |-> Now.annotations,
                  left |-> Now.left, found |-> [s \in listed |-> cluster[s]]]
      BY <1>1, <2>1 DEF ListServices
    <3>2. Now.step = "services" /\ Listing
      BY <1>1, <2>1 DEF ListServices, Listing
    <3> HIDE DEF listed
    <3>3. QED
      BY <3>1, <3>2 DEF listed
  <2>2. CASE ~ListServices(r)
    <3>1. ListNamespaces(r) => Now'.step # "deployments"
      BY <1>1 DEF ListNamespaces
    <3>2. SendNamespace(r) => Now'.step # "deployments"
      BY <1>1 DEF SendNamespace
    <3>3. ListDeploymentsFails(r) \/ NextNamespace(r) => Now'.step # "deployments"
      BY <1>1 DEF ListDeploymentsFails, NextNamespace
    <3>4. EndScan(r) \/ ScanFails(r) => Now'.step # "deployments"
      BY <1>1 DEF EndScan, ScanFails, Returned
    <3>5. QED
      BY <1>5, <2>2, <3>1, <3>2, <3>3, <3>4 DEF Scan
  <2>3. QED
    BY <2>1, <2>2
<1>6. ASSUME Others, ~faulty'
      PROVE  /\ Now'.step # "list"
             /\ Now.step = "list" => Now'.left = annotated
             /\ Now.step # "list" => \A n \in Ahead' : Now'.left[n] = Now.left[n]
             /\ Listing => Listing' /\ Now'.namespace = Now.namespace /\ Now'.annotations = Now.annotations
             /\ \A n \in Ahead : n \in Ahead' \/ (Listing' /\ Now'.namespace = n)
             /\ Listing' /\ ~Listing =>
                   /\ Now'.namespace \in Ahead /\ Now.step # "list"
                   /\ Now'.annotations = NamespaceAnnotations(Now.left[Now'.namespace])
  <2>1. CASE ListNamespaces(r)
    BY <1>1, <2>1 DEF ListNamespaces, Ahead, Listing
  <2>2. CASE ListServices(r)
    BY <1>1, <2>2 DEF ListServices, Ahead, Listing
  <2>3. CASE SendNamespace(r)
    BY <1>1, <2>3 DEF SendNamespace, Ahead, Listing, Restrict
  <2>4. CASE ListDeploymentsFails(r)
    BY <1>6, <2>4 DEF ListDeploymentsFails
  <2>5. CASE NextNamespace(r)
    BY <1>1, <2>5 DEF NextNamespace, Ahead, Listing
  <2>6. CASE EndScan(r)
    BY <1>1, <2>6 DEF EndScan, Ahead, Listing, Returned
  <2>7. CASE ScanFails(r)
    BY <1>6, <2>7 DEF ScanFails
  <2>8. QED
    BY <1>6, <2>1, <2>2, <2>3, <2>4, <2>5, <2>6, <2>7 DEF Scan
<1>7. CASE Others
  <2>1. UNCHANGED <<ServicesOnTheirWay, serviceChannel, serviceUpdater, services, cluster,
                    annotated, changed, Settled>>
    BY <1>1, <1>4, <1>7 DEF ServicesOnTheirWay, storeVars, clusterVars, Settled
  <2>2. OneServiceEach'
    <3>1. OneEach(ServiceOf, Sending', serviceChannel', serviceUpdater', services')
      BY <1>4, <1>7, <2>1 DEF OneServiceEach
    <3>2. \A i \in ServicesOnTheirWay' :
             i.service.namespace \notin Ahead' /\ (Listing' => i.service.namespace # Now'.namespace)
      BY <1>4, <1>7, <2>1 DEF OneServiceEach
    <3>3. Now'.step = "deployments" => \A s \in DOMAIN Now'.found : s.namespace = Now'.namespace
      BY <1>5, <1>7
    <3>4. QED
      BY <1>4, <1>7, <3>1, <3>2, <3>3 DEF OneServiceEach
  <2>3. ASSUME ~faulty', ServicesAreListed, NEW s \in Services \ changed
        PROVE  /\ s.namespace \in Ahead' => Now'.left[s.namespace] = annotated[s.namespace]
               /\ Listing' /\ Now'.namespace = s.namespace =>
                     /\ Now'.annotations = NamespaceAnnotations(annotated[s.namespace])
                     /\ Now'.step = "deployments" => /\ s \in DOMAIN Now'.found <=> cluster[s].exists
                                                     /\ cluster[s].exists => Now'.found[s] = cluster[s]
               /\ s.namespace \in Ahead \/ (Listing /\ Now.namespace = s.namespace)
                   => s.namespace \in Ahead' \/ (Listing' /\ Now'.namespace = s.namespace)
    <3>1. /\ s.namespace \in Ahead /\ Now.step # "list" => Now.left[s.namespace] = annotated[s.namespace]
          /\ Listing /\ Now.namespace = s.namespace =>
                Now.annotations = NamespaceAnnotations(annotated[s.namespace])
      BY <2>3 DEF ServicesAreListed
    <3>2. s.namespace \in Ahead' => Now'.left[s.namespace] = annotated[s.namespace]
      BY <1>4, <1>6, <1>7, <2>3, <3>1
    <3>3. Listing' /\ Now'.namespace = s.namespace =>
             Now'.annotations = NamespaceAnnotations(annotated[s.namespace])
      BY <1>6, <1>7, <2>3, <3>1
    <3>4. Now'.namespace = s.namespace /\ Now'.step = "deployments" =>
             /\ s \in DOMAIN Now'.found <=> cluster[s].exists
             /\ cluster[s].exists => Now'.found[s] = cluster[s]
      BY <1>5, <1>7, <2>3
    <3>5. QED
      BY <1>6, <1>7, <2>3, <3>2, <3>3, <3>4
  <2>4. ASSUME ~faulty', ServicesAreListed
        PROVE  ServicesAreListed'
    BY <2>1, <2>3, <2>4 DEF ServicesAreListed
  <2>5. QED
    BY <2>2, <2>4
<1>8. QED
  BY <1>2, <1>3, <1>7

-----------------------------------------------------------------------------
(* The invariant and what follows from it.                                 *)

LEMMA NothingOnItsWay ==
    ASSUME TypeOK, Quiet
    PROVE  /\ Upserting(namespaceUpdater) = {} /\ Upserting(serviceUpdater) = {}
           /\ NamespacesOnTheirWay = {} /\ ServicesOnTheirWay = {}
           /\ Ahead = {} /\ ~Listing /\ Sending = {}
<1>1. Upserting(namespaceUpdater) = {} /\ Upserting(serviceUpdater) = {}
  BY DEF Quiet, Upserting, NotStarted, Receiving, Returned
<1>2. Now \in {NotStarted, Returned}
  BY DEF Quiet, Now, TypeOK, Reloads
<1>3. Ahead = {} /\ ~Listing /\ Sending = {}
  BY <1>2 DEF Ahead, Listing, Sending, NotStarted, Returned
<1>4. Range(namespaceChannel) = {} /\ Range(serviceChannel) = {}
  BY DEF Quiet, Range
<1>5. QED
  BY <1>1, <1>3, <1>4 DEF NamespacesOnTheirWay, ServicesOnTheirWay, OnTheirWay

(* With nothing under way the next request begins with everything ahead.   *)
LEMMA StartReloadCalm ==
    ASSUME TypeOK, ~MayOverlap, StartReload, OneScan, OneNamespaceEach, OneServiceEach
    PROVE  OneScan' /\ OneNamespaceEach' /\ OneServiceEach' /\ NamespacesAreListed' /\ ServicesAreListed'
<1>1. Quiet /\ requests' = requests + 1 /\ requests' \in Reloads /\ requests \in Nat
  BY DEF StartReload, TypeOK, Reloads
<1>2. /\ scan' = [scan EXCEPT ![requests'] = [step |-> "list"]]
      /\ namespaceUpdater' = [namespaceUpdater EXCEPT ![requests'] = Receiving]
      /\ serviceUpdater' = [serviceUpdater EXCEPT ![requests'] = Receiving]
      /\ UNCHANGED <<cluster, annotated, namespaceChannel, serviceChannel, namespaces, services>>
  BY <1>1 DEF StartReload
<1>3. OneScan'
  <2>1. DOMAIN scan = Reloads
    BY DEF TypeOK
  <2>2. ASSUME NEW r \in Reloads
        PROVE  /\ r < requests' => scan[r] = Returned
               /\ r > requests' => scan[r] = NotStarted
    BY <1>1, <2>2 DEF OneScan, Quiet, Reloads
  <2>3. \A r \in Reloads : scan'[r] = IF r = requests' THEN [step |-> "list"] ELSE scan[r]
    BY <1>1, <1>2, <2>1
  <2>4. scan'[requests'] # NotStarted
    BY <1>1, <2>3 DEF NotStarted
  <2>5. \A r \in Reloads : (r < requests' => r # requests') /\ (r > requests' => r # requests')
    BY <1>1 DEF Reloads
  <2>6. QED
    BY <1>1, <2>2, <2>3, <2>4, <2>5 DEF OneScan
<1>4. Now' = [step |-> "list"]
  BY <1>1, <1>2 DEF Now, TypeOK
<1>5. Ahead' = Namespaces /\ ~Listing' /\ Sending' = {} /\ Now'.step = "list"
  BY <1>4 DEF Ahead, Listing, Sending
<1>6. Upserting(namespaceUpdater') = {} /\ Upserting(serviceUpdater') = {}
  BY <1>1, <1>2, NothingOnItsWay DEF Upserting, TypeOK, UpdatersOf, Receiving
<1>7. NamespacesOnTheirWay' = {} /\ ServicesOnTheirWay' = {}
  <2>1. Range(namespaceChannel') = {} /\ Range(serviceChannel') = {}
    BY <1>1, <1>2 DEF Quiet, Range
  <2>2. QED
    BY <1>5, <1>6, <2>1 DEF NamespacesOnTheirWay, ServicesOnTheirWay, OnTheirWay
<1>8. OneNamespaceEach'
  BY <1>1, <1>2, <1>6, <1>7 DEF OneNamespaceEach, OneEach, Quiet, Upserting
<1>9. OneServiceEach'
  BY <1>1, <1>2, <1>5, <1>6, <1>7 DEF OneServiceEach, OneEach, Quiet, Upserting
<1>10. NamespacesAreListed'
  BY <1>5, <1>7 DEF NamespacesAreListed, Right
<1>11. ServicesAreListed'
  BY <1>5, <1>7 DEF ServicesAreListed, Right, Settled
<1>12. QED
  BY <1>3, <1>8, <1>9, <1>10, <1>11

(* A change is known to have happened.                                     *)
LEMMA ChangeCalm ==
    ASSUME TypeOK, Change
    PROVE  /\ OneScan => OneScan'
           /\ OneNamespaceEach => OneNamespaceEach'
           /\ OneServiceEach => OneServiceEach'
           /\ NamespacesAreListed => NamespacesAreListed'
           /\ ServicesAreListed => ServicesAreListed'
<1>1. UNCHANGED <<requests, scan, namespaceChannel, serviceChannel, namespaceUpdater, serviceUpdater,
                  namespaces, services>>
  BY DEF Change
<1>2. UNCHANGED <<Now, Ahead, Listing, Sending, NamespacesOnTheirWay, ServicesOnTheirWay>>
  BY <1>1 DEF Now, Ahead, Listing, Sending, NamespacesOnTheirWay, ServicesOnTheirWay
<1>3. changed \subseteq changed' /\ \A n \in Namespaces \ changed' : annotated'[n] = annotated[n]
  BY DEF Change, TypeOK
<1>4. \A s \in Services \ changed' : cluster'[s] = cluster[s] /\ annotated'[s.namespace] = annotated[s.namespace]
  BY DEF Change, TypeOK
<1>5. OneScan => OneScan'
  BY <1>1 DEF OneScan
<1>6. OneNamespaceEach => OneNamespaceEach'
  BY <1>1, <1>2 DEF OneNamespaceEach
<1>7. OneServiceEach => OneServiceEach'
  BY <1>1, <1>2 DEF OneServiceEach
<1>8. NamespacesAreListed => NamespacesAreListed'
  BY <1>1, <1>2, <1>3 DEF NamespacesAreListed
<1>9. \A s \in Settled' : s \in Services \ changed' /\ s \in Settled
  BY <1>3, <1>4 DEF Settled
<1>10. ServicesAreListed => ServicesAreListed'
  BY <1>1, <1>2, <1>3, <1>4, <1>9 DEF ServicesAreListed
<1>11. QED
  BY <1>5, <1>6, <1>7, <1>8, <1>10

LEMMA CalmInvInit == Init => CalmInv
<1> SUFFICES ASSUME Init PROVE CalmInv
  OBVIOUS
<1>1. OneScan
  BY DEF Init, OneScan, Reloads
<1>2. TypeOK /\ Quiet
  BY TypeOKInit DEF Init, Quiet
<1>3. /\ Upserting(namespaceUpdater) = {} /\ Upserting(serviceUpdater) = {}
      /\ NamespacesOnTheirWay = {} /\ ServicesOnTheirWay = {}
      /\ Ahead = {} /\ ~Listing /\ Sending = {} /\ Now = NotStarted
  BY <1>2, NothingOnItsWay DEF Now, Init
<1>4. OneNamespaceEach
  BY <1>3 DEF Init, OneNamespaceEach, OneEach, Upserting
<1>5. OneServiceEach
  BY <1>3 DEF Init, OneServiceEach, OneEach, Upserting, NotStarted
<1>6. requests = 0
  BY DEF Init
<1>7. QED
  BY <1>1, <1>4, <1>5, <1>6 DEF CalmInv

LEMMA CalmInvStep == TypeOK /\ CalmInv /\ [Next]_vars => CalmInv'
<1> SUFFICES ASSUME TypeOK, CalmInv, [Next]_vars, ~MayOverlap PROVE CalmInv'
  BY DEF CalmInv
<1>1. OneScan /\ OneNamespaceEach /\ OneServiceEach
      /\ (requests > 0 /\ ~faulty => NamespacesAreListed /\ ServicesAreListed)
  BY DEF CalmInv
<1>2. CASE StartReload
  BY <1>1, <1>2, StartReloadCalm DEF CalmInv
<1>3. ASSUME NEW r \in Reloads, Scan(r)
      PROVE  CalmInv'
  <2>1. /\ OneScan' /\ requests' = requests
        /\ OneNamespaceEach' /\ (~faulty' /\ NamespacesAreListed => NamespacesAreListed')
        /\ OneServiceEach' /\ (~faulty' /\ ServicesAreListed => ServicesAreListed')
    BY <1>1, <1>3, ScanIsNow, ScanNamespacesCalm, ScanServicesCalm DEF storeVars
  <2>2. ~faulty' => ~faulty
    BY <1>3 DEF Scan, ListNamespaces, SendNamespace, ListServices, ListDeployments,
       ListDeploymentsFails, SendService, NextNamespace, EndScan, ScanFails
  <2>3. QED
    BY <1>1, <2>1, <2>2 DEF CalmInv
<1>4. ASSUME NEW r \in Reloads, UpsertServices(r)
      PROVE  CalmInv'
  <2>1. UNCHANGED <<scanVars, namespaceChannel, namespaceUpdater, namespaces>>
        /\ (faulty' = faulty \/ faulty' = ~MayOverlap)
    BY <1>4 DEF UpsertServices, ReceiveService, ReplaceService, InsertService, UpsertServiceFails
  <2>2. OneServiceEach' /\ (~faulty' /\ ServicesAreListed => ServicesAreListed')
    BY <1>1, <1>4, UpsertServicesCalm
  <2>3. OneNamespaceEach' /\ (NamespacesAreListed => NamespacesAreListed')
    BY <1>1, <2>1, NamespacesFrame DEF scanVars, clusterVars
  <2>4. OneScan' /\ requests' = requests
    BY <1>1, <2>1 DEF OneScan, scanVars
  <2>5. QED
    BY <1>1, <2>1, <2>2, <2>3, <2>4 DEF CalmInv
<1>5. ASSUME NEW r \in Reloads, UpsertNamespaces(r)
      PROVE  CalmInv'
  <2>1. UNCHANGED <<scanVars, serviceChannel, serviceUpdater, services>>
        /\ (faulty' = faulty \/ faulty' = ~MayOverlap)
    BY <1>5 DEF UpsertNamespaces, ReceiveNamespace, ReplaceNamespace, InsertNamespace,
       UpsertNamespaceFails
  <2>2. OneNamespaceEach' /\ (~faulty' /\ NamespacesAreListed => NamespacesAreListed')
    BY <1>1, <1>5, UpsertNamespacesCalm
  <2>3. OneServiceEach' /\ (ServicesAreListed => ServicesAreListed')
    BY <1>1, <2>1, ServicesFrame DEF scanVars, clusterVars
  <2>4. OneScan' /\ requests' = requests
    BY <1>1, <2>1 DEF OneScan, scanVars
  <2>5. QED
    BY <1>1, <2>1, <2>2, <2>3, <2>4 DEF CalmInv
<1>6. CASE Change
  BY <1>1, <1>6, ChangeCalm DEF CalmInv, Change
<1>7. CASE UNCHANGED vars
  BY <1>1, <1>7, ServicesFrame, NamespacesFrame DEF CalmInv, OneScan, vars, clusterVars
<1>8. QED
  BY <1>2, <1>3, <1>4, <1>5, <1>6, <1>7 DEF Next

LEMMA CalmInvHolds == Spec => []CalmInv
<1>1. Spec => []TypeOK
  BY TypeCorrect
<1>2. QED
  BY <1>1, CalmInvInit, CalmInvStep, PTL DEF Spec

(* DuplicatesComeFromOverlap: where requests are not made while earlier    *)
(* ones are at work, the collections never hold a namespace or a service   *)
(* twice, however the goroutines of all requests share what one scan       *)
(* sends: no two items on their way have a key in common                   *)
(* (repository.go:74-82, 95, 277-309).                                     *)
THEOREM OneDocumentEach == Spec => []DuplicatesComeFromOverlap
<1>1. ASSUME TypeOK, CalmInv, ~MayOverlap,
             NEW j \in DOMAIN namespaces, NEW k \in DOMAIN namespaces,
             namespaces[j].name = namespaces[k].name
      PROVE  j = k
  <2>1. NameOf[namespaces[j]] = namespaces[j].name /\ NameOf[namespaces[k]] = namespaces[k].name
    BY <1>1 DEF TypeOK, NameOf
  <2>2. QED
    BY <1>1, <2>1 DEF CalmInv, OneNamespaceEach, OneEach
<1>2. ASSUME TypeOK, CalmInv, ~MayOverlap,
             NEW j \in DOMAIN services, NEW k \in DOMAIN services, SameService(services[j], services[k])
      PROVE  j = k
  <2>1. ServiceOf[services[j]] = services[j].service /\ ServiceOf[services[k]] = services[k].service
    BY <1>2 DEF TypeOK, ServiceOf
  <2>2. QED
    BY <1>2, <2>1 DEF CalmInv, OneServiceEach, OneEach, SameService
<1>3. TypeOK /\ CalmInv => DuplicatesComeFromOverlap
  BY <1>1, <1>2 DEF DuplicatesComeFromOverlap
<1>4. QED
  BY <1>3, TypeCorrect, CalmInvHolds, PTL

LEMMA StoredNamespaces ==
    ASSUME TypeOK, CalmInv, ~MayOverlap, Quiet, requests > 0, ~faulty, NEW n \in Namespaces \ changed
    PROVE  \E k \in DOMAIN namespaces : /\ {j \in DOMAIN namespaces : namespaces[j].name = n} = {k}
                                       /\ NamespaceAsNow(n, namespaces[k])
<1>1. Arrives(NameOf, n, NamespaceNow(annotated[n]), {}, namespaces)
  BY NothingOnItsWay DEF CalmInv, NamespacesAreListed
<1>2. PICK k \in DOMAIN namespaces :
         NameOf[namespaces[k]] = n /\ namespaces[k] \in NamespaceNow(annotated[n])
  BY <1>1 DEF Arrives, Range
<1>3. \A j \in DOMAIN namespaces : NameOf[namespaces[j]] = namespaces[j].name
  BY DEF NameOf, TypeOK
<1>4. \A j \in DOMAIN namespaces : namespaces[j].name = n <=> j = k
  BY <1>2, <1>3 DEF CalmInv, OneNamespaceEach, OneEach
<1>5. NamespaceAsNow(n, namespaces[k])
  BY <1>2 DEF NamespaceNow, NamespaceAsNow
<1>6. QED
  BY <1>4, <1>5

LEMMA StoredServices ==
    ASSUME TypeOK, CalmInv, ~MayOverlap, Quiet, requests > 0, ~faulty, NEW s \in Settled
    PROVE  LET found == FindAllServicesForNamespace(s.namespace)
           IN \E k \in DOMAIN found : /\ {j \in DOMAIN found : found[j].service = s} = {k}
                                     /\ ServiceAsNow(s, found[k])
<1>1. Arrives(ServiceOf, s, ServiceNow(cluster[s], annotated[s.namespace]), {}, services)
  BY NothingOnItsWay DEF CalmInv, ServicesAreListed, Settled
<1>2. PICK k \in DOMAIN services :
         ServiceOf[services[k]] = s /\ services[k] \in ServiceNow(cluster[s], annotated[s.namespace])
  BY <1>1 DEF Arrives, Range
<1>3. \A j \in DOMAIN services : ServiceOf[services[j]] = services[j].service
  BY DEF ServiceOf, TypeOK
<1>4. \A j \in DOMAIN services : services[j].service = s <=> j = k
  BY <1>2, <1>3 DEF CalmInv, OneServiceEach, OneEach
<1>5. ServiceAsNow(s, services[k])
  BY <1>2 DEF ServiceNow, ServiceAsNow
<1> DEFINE found == FindAllServicesForNamespace(s.namespace)
<1>6. /\ DOMAIN found = {j \in DOMAIN services : services[j].service.namespace = s.namespace}
      /\ \A j \in DOMAIN found : found[j] = services[j]
  BY DEF FindAllServicesForNamespace, RestrictValues, Restrict
<1>7. k \in DOMAIN found
  BY <1>2, <1>4, <1>6
<1> HIDE DEF found
<1>8. {j \in DOMAIN found : found[j].service = s} = {k} /\ found[k] = services[k]
  BY <1>4, <1>6, <1>7
<1>9. QED
  BY <1>5, <1>7, <1>8 DEF found

(* CalmReloadsStoreTheCluster: once everything is quiet after a request    *)
(* that met no failure, the collections hold every namespace and service   *)
(* that has not changed since exactly once and as the cluster has it, by   *)
(* the README's words on annotations; of any number of requests, services  *)
(* and namespaces (discovery.go:62-71, 203-270, repository.go:277-309).    *)
THEOREM CollectionsFollowTheCluster == Spec => []CalmReloadsStoreTheCluster
<1>1. TypeOK /\ CalmInv => CalmReloadsStoreTheCluster
  BY StoredNamespaces, StoredServices DEF CalmReloadsStoreTheCluster, FoundOnce, FindAllNamespaces
<1>2. QED
  BY <1>1, TypeCorrect, CalmInvHolds, PTL

-----------------------------------------------------------------------------
(* ConfigReload does to each namespace what NamespaceReload does: every    *)
(* step maps to one of its steps.                                          *)

(* The instance's operators are those of HealthAnnotations.                *)
LEMMA SameOperators ==
    ASSUME NEW n \in Namespaces
    PROVE  /\ \A x : Reload(n)!NamespaceAnnotations(x) = NamespaceAnnotations(x)
           /\ \A s, o, a, c : Reload(n)!ServiceItem(s, o, a, c) = ServiceItem(s, o, a, c)
<1>1. ASSUME NEW x
      PROVE  Reload(n)!NamespaceAnnotations(x) = NamespaceAnnotations(x)
  BY DEF Reload!NamespaceAnnotations, Reload!overrideParentAnnotations,
     Reload!getHealthAnnotations, Reload!DefaultAnnotations, Reload!Unset, NamespaceAnnotations,
     overrideParentAnnotations, getHealthAnnotations, DefaultAnnotations, Unset
<1>2. ASSUME NEW s, NEW o, NEW a, NEW c
      PROVE  Reload(n)!ServiceItem(s, o, a, c) = ServiceItem(s, o, a, c)
  BY DEF Reload!ServiceItem, Reload!overrideParentAnnotations, Reload!getHealthAnnotations,
     Reload!getAppPortForService, Reload!HasTarget, Reload!TargetText, Reload!PortText,
     Reload!NoName, Reload!Int32, Reload!Malformed, Reload!Unset, Reload!Min,
     ServiceItem, overrideParentAnnotations, getHealthAnnotations, getAppPortForService,
     HasTarget, TargetText, PortText, NoName, Int32, Malformed, Unset, Min
<1>3. QED
  BY <1>1, <1>2

LEMMA NothingForIt ==
    ASSUME NEW n \in Namespaces,
           ReloadAt(n, Now') = ReloadAt(n, Now),
           QueuedIn(n, ServicesOnTheirWay') = QueuedIn(n, ServicesOnTheirWay),
           DocumentsIn(n, services') = DocumentsIn(n, services)
    PROVE  Reload(n)!Next
BY DEF Reload!Next, Reload!Change

LEMMA ScanRefines ==
    ASSUME TypeOK, ~MayOverlap, OneScan, OneServiceEach, NEW r \in Reloads, Scan(r), NEW n \in Namespaces
    PROVE  Reload(n)!Next
<1>1. /\ Now = scan[r] /\ Now' = scan'[r] /\ Now \in ScanStates /\ scan \in [Reloads -> ScanStates]
      /\ UNCHANGED <<clusterVars, storeVars>> /\ DOMAIN annotated = Namespaces
  BY ScanIsNow DEF TypeOK
<1>2. UNCHANGED <<annotated, cluster, services, serviceUpdater>>
  BY <1>1 DEF clusterVars, storeVars
<1>3. ASSUME UNCHANGED serviceChannel, Sending' = Sending
      PROVE  ServicesOnTheirWay' = ServicesOnTheirWay
  BY <1>2, <1>3 DEF ServicesOnTheirWay
<1>4. CASE ListNamespaces(r)
  <2>1. Now.step = "list" /\ Now' = [step |-> "next", left |-> annotated] /\ UNCHANGED serviceChannel
    BY <1>1, <1>4 DEF ListNamespaces
  <2>2. /\ ReloadAt(n, Now) = Wait
        /\ ReloadAt(n, Now') = [step |-> "services", annotations |-> NamespaceAnnotations(annotated[n])]
    BY <1>1, <2>1 DEF ReloadAt
  <2>3. ServicesOnTheirWay' = ServicesOnTheirWay
    BY <1>3, <2>1 DEF Sending
  <2>4. QueuedIn(n, ServicesOnTheirWay) = {}
    BY <2>1 DEF QueuedIn, OneServiceEach, Ahead
  <2>5. Reload(n)!Begin
    BY <1>2, <2>2, <2>3, <2>4, SameOperators DEF Reload!Begin, Reload!Idle, Wait
  <2>6. QED
    BY <2>5 DEF Reload!Next
<1>5. CASE SendNamespace(r)
  <2>1. PICK m \in DOMAIN Now.left :
           scan' = [scan EXCEPT ![r] =
               [step |-> "services", namespace |-> m, annotations |-> NamespaceAnnotations(Now.left[m]),
                left |-> Restrict(Now.left, DOMAIN Now.left \ {m})]]
    BY <1>1, <1>5 DEF SendNamespace
  <2>2. Now.step = "next" /\ UNCHANGED serviceChannel
    BY <1>1, <1>5 DEF SendNamespace
  <2>3. /\ Now'.step = "services" /\ Now'.namespace = m
        /\ Now'.annotations = NamespaceAnnotations(Now.left[m])
        /\ DOMAIN Now'.left = DOMAIN Now.left \ {m}
        /\ \A k \in DOMAIN Now'.left : Now'.left[k] = Now.left[k]
    BY <1>1, <2>1 DEF Restrict
  <2>4. ReloadAt(n, Now') = ReloadAt(n, Now)
    BY <2>2, <2>3 DEF ReloadAt
  <2>5. ServicesOnTheirWay' = ServicesOnTheirWay
    BY <1>3, <2>2, <2>3 DEF Sending
  <2>6. QED
    BY <1>2, <2>4, <2>5, NothingForIt
<1>6. CASE ListServices(r)
  <2> DEFINE listed == {s \in Services : s.namespace = Now.namespace /\ cluster[s].exists}
  <2>1. /\ Now.step = "services" /\ UNCHANGED serviceChannel
        /\ Now' = [step |-> "deployments", namespace |-> Now.namespace, annotations |-> Now.annotations,
                   left |-> Now.left, found |-> [s \in listed |-> cluster[s]]]
    BY <1>1, <1>6 DEF ListServices
  <2>2. ServicesOnTheirWay' = ServicesOnTheirWay
    BY <1>3, <2>1 DEF Sending
  <2>3. CASE n = Now.namespace
    <3>1. n \notin DOMAIN Now.left
      BY <2>1, <2>3 DEF OneServiceEach, Ahead, Listing
    <3>2. /\ ReloadAt(n, Now) = [step |-> "services", annotations |-> Now.annotations]
          /\ ReloadAt(n, Now') = [step |-> "deployments", annotations |-> Now.annotations,
                                  found |-> [s \in listed |-> cluster[s]]]
      <4> HIDE DEF listed
      <4> QED
        BY <2>1, <2>3, <3>1 DEF ReloadAt
    <3> DEFINE near == Restrict(cluster, ServicesOf[n])
               known == {t \in ServicesOf[n] : near[t].exists}
    <3>3. known = listed /\ \A t \in known : near[t] = cluster[t]
      BY <2>3 DEF ServicesOf, Restrict
    <3>4. [t \in known |-> near[t]] = [s \in listed |-> cluster[s]]
      <4> HIDE DEF known, listed, near
      <4> QED
        BY <3>3
    <3>5. Reload(n)!ListServices
      BY <1>2, <2>2, <3>2, <3>4 DEF Reload!ListServices
    <3>6. QED
      BY <3>5 DEF Reload!Next
  <2>4. CASE n # Now.namespace
    <3>1. ReloadAt(n, Now') = ReloadAt(n, Now)
      <4> HIDE DEF listed
      <4> QED
        BY <2>1, <2>4 DEF ReloadAt
    <3>2. QED
      BY <1>2, <2>2, <3>1, NothingForIt
  <2>5. QED
    BY <2>3, <2>4
<1>7. CASE ListDeployments(r)
  <2> DEFINE found == Now.found
             kept == {t \in DOMAIN found : cluster[t].replicas # None}
             ItemOf(s) == ServiceItem(s, found[s], Now.annotations, cluster[s].replicas)
             items == {ItemOf(s) : s \in kept}
  <2>1. /\ Now.step = "deployments" /\ Sending = {} /\ UNCHANGED serviceChannel
        /\ Now' = [step |-> "send", left |-> Now.left, items |-> {i \in items : ~i.failed}]
    BY <1>1, <1>7 DEF ListDeployments, Sending
  <2>2. Now'.step = "send" /\ Now'.left = Now.left /\ Sending' = {i \in items : ~i.failed}
    <3> HIDE DEF items
    <3> QED
      BY <2>1 DEF Sending
  <2>3. ServicesOnTheirWay' = ServicesOnTheirWay \cup Sending'
    BY <1>2, <2>1 DEF ServicesOnTheirWay, OnTheirWay
  <2>4. \A s \in DOMAIN found : s.namespace = Now.namespace
    BY <2>1 DEF OneServiceEach
  <2>5. ASSUME NEW i \in Sending'
        PROVE  i.service.namespace = Now.namespace
    <3>1. PICK s \in kept : i = ItemOf(s)
      BY <2>2
    <3>2. ItemOf(s).service = s
      BY DEF ServiceItem
    <3>3. QED
      BY <2>4, <3>1, <3>2
  <2>6. CASE n = Now.namespace
    <3>1. n \notin DOMAIN Now.left /\ QueuedIn(n, ServicesOnTheirWay) = {}
      BY <2>1, <2>6 DEF OneServiceEach, Ahead, Listing, QueuedIn
    <3>2. /\ ReloadAt(n, Now) = [step |-> "deployments", annotations |-> Now.annotations, found |-> found]
          /\ ReloadAt(n, Now') = Wait
      BY <2>1, <2>2, <2>6, <3>1 DEF ReloadAt
    <3>3. QueuedIn(n, ServicesOnTheirWay') = {i \in items : ~i.failed}
      <4> HIDE DEF items
      <4> QED
        BY <2>2, <2>3, <2>5, <2>6, <3>1 DEF QueuedIn
    <3> DEFINE near == Restrict(cluster, ServicesOf[n])
               Near(s) == Reload(n)!ServiceItem(s, found[s], Now.annotations, near[s].replicas)
    <3>4. DOMAIN found \subseteq Services
      BY <1>1, <2>1, WhatScansKeep, PartsOfAre
    <3>5. \A s \in DOMAIN found : near[s] = cluster[s] /\ Near(s) = ItemOf(s)
      <4>1. \A s \in DOMAIN found : s \in ServicesOf[n]
        BY <2>4, <2>6, <3>4 DEF ServicesOf
      <4>2. \A s \in DOMAIN found : near[s] = cluster[s]
        BY <4>1 DEF Restrict
      <4>3. QED
        BY <4>2, SameOperators
    <3>6. {Near(s) : s \in {t \in DOMAIN found : near[t].replicas # None}} = items
      <4> HIDE DEF near, Near, ItemOf
      <4> QED
        BY <3>5
    <3>7. Reload(n)!ListDeployments
      BY <1>2, <3>2, <3>3, <3>6 DEF Reload!ListDeployments, Reload!Idle, Wait, Reload!None, None
    <3>8. QED
      BY <3>7 DEF Reload!Next
  <2>7. CASE n # Now.namespace
    <3>1. ReloadAt(n, Now') = ReloadAt(n, Now)
      <4> HIDE DEF items
      <4> QED
        BY <2>1, <2>2, <2>7 DEF ReloadAt
    <3>2. QueuedIn(n, ServicesOnTheirWay') = QueuedIn(n, ServicesOnTheirWay)
      BY <2>3, <2>5, <2>7 DEF QueuedIn
    <3>3. QED
      BY <1>2, <3>1, <3>2, NothingForIt
  <2>8. QED
    BY <2>6, <2>7
<1>8. ASSUME ServicesOnTheirWay' = ServicesOnTheirWay,
             ReloadAt(n, Now') = ReloadAt(n, Now) \/ ReloadAt(n, Now') = Wait
      PROVE  Reload(n)!Next
  <2>1. CASE ReloadAt(n, Now') = ReloadAt(n, Now)
    BY <1>2, <1>8, <2>1, NothingForIt
  <2>2. CASE ReloadAt(n, Now) # Wait /\ ReloadAt(n, Now') = Wait
    <3>1. Reload(n)!ScanFails
      BY <1>2, <1>8, <2>2 DEF Reload!ScanFails, Reload!Idle, Wait
    <3>2. QED
      BY <3>1 DEF Reload!Next
  <2>3. QED
    BY <1>8, <2>1, <2>2
<1>9. CASE ListDeploymentsFails(r)
  <2>1. /\ Now.step = "deployments" /\ UNCHANGED serviceChannel
        /\ Now'.step = "send" /\ Now'.left = Now.left /\ Now'.items = {}
    BY <1>1, <1>9 DEF ListDeploymentsFails
  <2>2. ServicesOnTheirWay' = ServicesOnTheirWay
    BY <1>3, <2>1 DEF Sending
  <2>3. ReloadAt(n, Now') = ReloadAt(n, Now) \/ ReloadAt(n, Now') = Wait
    BY <2>1 DEF ReloadAt
  <2>4. QED
    BY <1>8, <2>2, <2>3
<1>10. CASE SendService(r)
  <2>1. PICK i \in Now.items :
           /\ serviceChannel' = Append(serviceChannel, i)
           /\ scan' = [scan EXCEPT ![r] = [step |-> "send", left |-> Now.left, items |-> Now.items \ {i}]]
    BY <1>1, <1>10 DEF SendService
  <2>2. Now.step = "send" /\ Sending = Now.items
    BY <1>1, <1>10 DEF SendService, Sending
  <2>3. Now'.step = "send" /\ Sending' = Sending \ {i} /\ Now'.left = Now.left
    BY <1>1, <2>1, <2>2 DEF Sending
  <2>4. i \in Sending /\ i \in ServiceItems /\ i \in ServicesOnTheirWay /\ serviceChannel \in Seq(ServiceItems)
    BY <1>1, <2>1, <2>2, SentAreItems DEF ServicesOnTheirWay, OnTheirWay, TypeOK
  <2>5. ServicesOnTheirWay' = ServicesOnTheirWay
    <3>1. OnTheirWay(Sending \ {i}, Append(serviceChannel, i), serviceUpdater)
             = OnTheirWay(Sending, serviceChannel, serviceUpdater) \cup {i}
      BY <2>4, SendKeepsOnTheirWay
    <3>2. OnTheirWay(Sending', serviceChannel', serviceUpdater') = ServicesOnTheirWay \cup {i}
      BY <1>2, <2>1, <2>3, <3>1 DEF ServicesOnTheirWay
    <3>3. QED
      BY <2>4, <3>2 DEF ServicesOnTheirWay
  <2>6. ReloadAt(n, Now') = ReloadAt(n, Now)
    BY <2>2, <2>3 DEF ReloadAt
  <2>7. QED
    BY <1>8, <2>5, <2>6
<1>11. CASE NextNamespace(r)
  <2>1. /\ Now.step = "send" /\ Now.items = {} /\ UNCHANGED serviceChannel
        /\ Now'.step = "next" /\ Now'.left = Now.left
    BY <1>1, <1>11 DEF NextNamespace
  <2>2. ServicesOnTheirWay' = ServicesOnTheirWay
    BY <1>3, <2>1 DEF Sending
  <2>3. ReloadAt(n, Now') = ReloadAt(n, Now)
    BY <2>1 DEF ReloadAt
  <2>4. QED
    BY <1>8, <2>2, <2>3
<1>12. CASE EndScan(r) \/ ScanFails(r)
  <2>1. /\ Now.step \in {"next", "list", "services"} /\ UNCHANGED serviceChannel /\ Now' = Returned
    BY <1>1, <1>12 DEF EndScan, ScanFails
  <2>2. ServicesOnTheirWay' = ServicesOnTheirWay
    BY <1>3, <2>1 DEF Sending, Returned
  <2>3. ReloadAt(n, Now') = Wait
    BY <2>1 DEF ReloadAt, Returned
  <2>4. QED
    BY <1>8, <2>2, <2>3
<1>13. QED
  BY <1>4, <1>5, <1>6, <1>7, <1>9, <1>10, <1>11, <1>12 DEF Scan

(* A goroutine's item, given up, was the only one of its key.              *)
GivesUp(r, updater, given) ==
    /\ updater[r].step \in {"upsert", "insert"} /\ given[r].step \notin {"upsert", "insert"}
    /\ \A q \in Reloads : q # r => given[q] = updater[q]

LEMMA GivenUpIsGone ==
    ASSUME NEW key, NEW sending, NEW ch, NEW docs, NEW updater, NEW r \in Reloads, NEW given,
           GivesUp(r, updater, given), OneEach(key, sending, ch, updater, docs)
    PROVE  OnTheirWay(sending, ch, given) = OnTheirWay(sending, ch, updater) \ {updater[r].item}
<1>1. /\ Upserting(given) = Upserting(updater) \ {r} /\ r \in Upserting(updater)
      /\ \A q \in Reloads : q # r => given[q] = updater[q]
  BY DEF GivesUp, Upserting
<1>2. \A q \in Upserting(given) : given[q].item # updater[r].item
  BY <1>1 DEF OneEach, Upserting
<1>3. updater[r].item \notin sending /\ updater[r].item \notin Range(ch)
  BY <1>1 DEF OneEach, Range
<1>4. updater[r].item \notin OnTheirWay(sending, ch, given)
  BY <1>2, <1>3 DEF OnTheirWay
<1>5. {updater[q].item : q \in Upserting(updater)} = {given[q].item : q \in Upserting(given)} \cup {updater[r].item}
  BY <1>1 DEF Upserting
<1>6. OnTheirWay(sending, ch, updater) = OnTheirWay(sending, ch, given) \cup {updater[r].item}
  BY <1>5 DEF OnTheirWay
<1>7. QED
  BY <1>4, <1>6

(* The document of a service is the one that has its name.                 *)
LEMMA DocumentIsChosen ==
    ASSUME NEW n \in Namespaces, NEW docs, NEW d \in Range(docs),
           \A e \in Range(docs) : e.service = d.service => e = d,
           d.service \in ServicesOf[n]
    PROVE  DocumentsIn(n, docs)[d.service] = d
<1>1. (CHOOSE e \in Range(docs) : e.service = d.service) = d
  OBVIOUS
<1>2. QED
  BY <1>1 DEF DocumentsIn

(* An item stored among documents, in place of its service's or as a new   *)
(* one; and what a namespace sees of it.                                   *)
StoredIn(docs, stored, item) ==
    /\ item \in Range(stored)
    /\ \A d \in Range(stored) : d = item \/ (d \in Range(docs) /\ d.service # item.service)
    /\ \A d \in Range(docs) : d \in Range(stored) \/ d.service = item.service
SeenStored(n, docs, stored, item) ==
    /\ item.service \in ServicesOf[n] =>
          DocumentsIn(n, stored) =
             [s \in DOMAIN DocumentsIn(n, docs) \cup {item.service} |->
                 IF s = item.service THEN item ELSE DocumentsIn(n, docs)[s]]
    /\ item.service \notin ServicesOf[n] => DocumentsIn(n, stored) = DocumentsIn(n, docs)

LEMMA DocumentsStored ==
    ASSUME NEW n \in Namespaces, NEW docs, NEW stored, NEW item, StoredIn(docs, stored, item),
           \A d, e \in Range(docs) : d.service = e.service => d = e
    PROVE  SeenStored(n, docs, stored, item)
<1> DEFINE before == DocumentsIn(n, docs)
           after == DocumentsIn(n, stored)
<1>1. /\ DOMAIN before = {d.service : d \in Range(docs)} \cap ServicesOf[n]
      /\ DOMAIN after = {d.service : d \in Range(stored)} \cap ServicesOf[n]
      /\ before = [s \in DOMAIN before |-> before[s]] /\ after = [s \in DOMAIN after |-> after[s]]
  BY DEF DocumentsIn
<1>2. /\ \A d, e \in Range(stored) : d.service = e.service => d = e
      /\ \A d \in Range(stored) : d = item \/ (d \in Range(docs) /\ d.service # item.service)
  BY DEF StoredIn
<1>3. ASSUME NEW s \in DOMAIN after
      PROVE  \/ s = item.service /\ after[s] = item
             \/ s # item.service /\ s \in DOMAIN before /\ after[s] = before[s]
  <2>1. PICK d \in Range(stored) : d.service = s
    BY <1>1
  <2>2. after[s] = d
    BY <1>1, <1>2, <2>1, DocumentIsChosen
  <2>3. CASE d = item
    BY <2>1, <2>2, <2>3
  <2>4. CASE d \in Range(docs) /\ d.service # item.service
    <3>1. before[s] = d
      BY <1>1, <2>1, <2>4, DocumentIsChosen
    <3>2. QED
      BY <1>1, <2>1, <2>2, <2>4, <3>1
  <2>5. QED
    BY <1>2, <2>1, <2>3, <2>4
<1>4. DOMAIN before \subseteq DOMAIN after \cup {item.service}
  BY <1>1 DEF StoredIn
<1>5. item.service \in ServicesOf[n] => item.service \in DOMAIN after
  BY <1>1 DEF StoredIn
<1>6. item.service \notin ServicesOf[n] => item.service \notin DOMAIN after /\ item.service \notin DOMAIN before
  BY <1>1
<1> HIDE DEF before, after
<1>7. ASSUME item.service \in ServicesOf[n]
      PROVE  after = [s \in DOMAIN before \cup {item.service} |->
                         IF s = item.service THEN item ELSE before[s]]
  <2>1. DOMAIN after = DOMAIN before \cup {item.service}
    BY <1>3, <1>4, <1>5, <1>7
  <2>2. \A s \in DOMAIN after : after[s] = IF s = item.service THEN item ELSE before[s]
    BY <1>3
  <2>3. QED
    BY <1>1, <2>1, <2>2
<1>8. ASSUME item.service \notin ServicesOf[n]
      PROVE  after = before
  <2>1. \A s : s \in DOMAIN after <=> s \in DOMAIN before
    BY <1>3, <1>4, <1>6, <1>8
  <2>2. \A s \in DOMAIN after : after[s] = before[s]
    BY <1>3, <1>6, <1>8
  <2>3. DOMAIN after = DOMAIN before
    BY <2>1
  <2>4. QED
    BY <1>1, <2>2, <2>3
<1>9. QED
  BY <1>7, <1>8 DEF SeenStored, before, after

LEMMA UpsertServicesRefine ==
    ASSUME TypeOK, ~MayOverlap, OneServiceEach, NEW r \in Reloads, UpsertServices(r), NEW n \in Namespaces
    PROVE  Reload(n)!Next
<1> DEFINE item == serviceUpdater[r].item
<1>1. /\ serviceUpdater \in UpdatersOf(ServiceItems)
      /\ serviceChannel \in Seq(ServiceItems) /\ services \in Seq(ServiceItems)
      /\ OneEach(ServiceOf, Sending, serviceChannel, serviceUpdater, services)
  BY DEF TypeOK, OneServiceEach
<1>2. serviceUpdater[r].step \in {"upsert", "insert"} => item \in ServiceItems /\ ServiceOf[item] = item.service
  BY <1>1, WhatUpdatersKeep DEF ServiceOf
<1>3. \A k \in DOMAIN services : ServiceOf[services[k]] = services[k].service
  BY <1>1, ChannelElements DEF ServiceOf
<1>4. UNCHANGED scanVars
  BY DEF UpsertServices, ReceiveService, ReplaceService, InsertService, UpsertServiceFails
<1>5. UNCHANGED <<cluster, annotated, Now, Sending>>
  BY <1>4 DEF scanVars, clusterVars, Now, Sending
<1>6. ReloadAt(n, Now') = ReloadAt(n, Now)
  BY <1>5
<1>7. ASSUME ServicesOnTheirWay' = ServicesOnTheirWay, UNCHANGED services
      PROVE  Reload(n)!Next
  BY <1>6, <1>7, NothingForIt
<1> DEFINE GoesTo(done) ==
        /\ serviceUpdater[r].step \in {"upsert", "insert"} /\ UNCHANGED serviceChannel
        /\ serviceUpdater' = [serviceUpdater EXCEPT ![r] = done]
<1>8. ASSUME NEW done \in {Receiving, Returned}, GoesTo(done)
      PROVE  /\ item.service.namespace = n =>
                    /\ item \in QueuedIn(n, ServicesOnTheirWay)
                    /\ QueuedIn(n, ServicesOnTheirWay') = QueuedIn(n, ServicesOnTheirWay) \ {item}
             /\ item.service.namespace # n =>
                    QueuedIn(n, ServicesOnTheirWay') = QueuedIn(n, ServicesOnTheirWay)
  <2> DEFINE given == [serviceUpdater EXCEPT ![r] = done]
             later == OnTheirWay(Sending, serviceChannel, given)
  <2>1. later = OnTheirWay(Sending, serviceChannel, serviceUpdater) \ {item}
    <3>1. GivesUp(r, serviceUpdater, given)
      BY <1>1, <1>8 DEF GivesUp, UpdatersOf, Receiving, Returned
    <3> HIDE DEF given
    <3>2. OneEach(ServiceOf, Sending, serviceChannel, serviceUpdater, services) /\ r \in Reloads
      BY <1>1
    <3>4. QED
      BY <3>1, <3>2, GivenUpIsGone
  <2>2. item \in ServicesOnTheirWay
    BY <1>8 DEF ServicesOnTheirWay, OnTheirWay, Upserting
  <2>3. ServicesOnTheirWay' = later
    BY <1>5, <1>8 DEF ServicesOnTheirWay
  <2> HIDE DEF later, item
  <2>4. QED
    BY <2>1, <2>2, <2>3 DEF QueuedIn, ServicesOnTheirWay
<1>9. ASSUME GoesTo(Receiving), StoredIn(services, services', item)
      PROVE  Reload(n)!Next
  <2>1. \A d, e \in Range(services) : d.service = e.service => d = e
    BY <1>1, <1>3 DEF OneEach, Range
  <2>2. SeenStored(n, services, services', item)
    <3> HIDE DEF item
    <3> QED
      BY <1>9, <2>1, DocumentsStored
  <2>3. item.service \in Services
    BY <1>2, <1>9 DEF ServiceItems
  <2>4. CASE item.service.namespace = n
    <3>1. item.service \in ServicesOf[n]
      BY <2>3, <2>4 DEF ServicesOf
    <3>2. Reload(n)!Upsert(item.service)
      BY <1>5, <1>6, <1>8, <1>9, <2>2, <2>4, <3>1 DEF Reload!Upsert, Reload!Stored, SeenStored
    <3>3. QED
      BY <3>1, <3>2 DEF Reload!Next
  <2>5. CASE item.service.namespace # n
    <3>1. item.service \notin ServicesOf[n]
      BY <2>5 DEF ServicesOf
    <3>2. QED
      BY <1>6, <1>8, <1>9, <2>2, <2>5, <3>1, NothingForIt DEF SeenStored
  <2>6. QED
    BY <2>4, <2>5
<1>10. CASE ReceiveService(r)
  <2> DEFINE taken == [serviceUpdater EXCEPT ![r] = [step |-> "upsert", item |-> Head(serviceChannel)]]
  <2>1. /\ serviceUpdater[r] = Receiving /\ serviceChannel # <<>> /\ serviceUpdater' = taken
        /\ serviceChannel' = Tail(serviceChannel) /\ UNCHANGED services
    BY <1>10 DEF ReceiveService
  <2>2. Takes(r, "upsert", Head(serviceChannel), serviceUpdater, taken)
    BY <1>1 DEF Takes, UpdatersOf
  <2> HIDE DEF taken
  <2>3. OnTheirWay(Sending, Tail(serviceChannel), taken) = ServicesOnTheirWay
    BY <1>1, <2>1, <2>2, ReceiveKeepsOnTheirWay DEF ServicesOnTheirWay
  <2>4. QED
    BY <1>5, <1>7, <2>1, <2>3 DEF ServicesOnTheirWay
<1>11. CASE ReplaceService(r)
  <2>1. serviceUpdater[r].step = "upsert" /\ UNCHANGED serviceChannel
    BY <1>11 DEF ReplaceService
  <2>2. ASSUME NEW k \in DOMAIN services, SameService(services[k], item),
               services' = [services EXCEPT ![k] = item],
               serviceUpdater' = [serviceUpdater EXCEPT ![r] = Receiving]
        PROVE  Reload(n)!Next
    <3>1. item \in Range(services')
      BY <1>1, <2>2 DEF Range
    <3>2. \A d \in Range(services') : d = item \/ (d \in Range(services) /\ d.service # item.service)
      <4>1. ASSUME NEW j \in DOMAIN services, j # k
            PROVE  services[j].service # item.service
        BY <1>1, <1>3, <2>2, <4>1 DEF OneEach, SameService
      <4>2. QED
        BY <1>1, <2>2, <4>1 DEF Range
    <3>3. \A d \in Range(services) : d \in Range(services') \/ d.service = item.service
      BY <1>1, <2>2 DEF Range, SameService
    <3>4. QED
      BY <1>9, <2>1, <2>2, <3>1, <3>2, <3>3 DEF StoredIn
  <2>3. CASE /\ serviceUpdater' = [serviceUpdater EXCEPT ![r] = [step |-> "insert", item |-> @.item]]
             /\ UNCHANGED services
    <3> DEFINE found == [serviceUpdater EXCEPT ![r] = [step |-> "insert", item |-> @.item]]
    <3>1. Takes(r, "insert", item, serviceUpdater, found) /\ serviceUpdater' = found
      BY <1>1, <2>3 DEF Takes, UpdatersOf
    <3> HIDE DEF found
    <3>2. OnTheirWay(Sending, serviceChannel, found) = ServicesOnTheirWay
      BY <1>1, <2>1, <3>1, NotFoundKeepsOnTheirWay DEF ServicesOnTheirWay
    <3>3. QED
      BY <1>5, <1>7, <2>1, <2>3, <3>1, <3>2 DEF ServicesOnTheirWay
  <2>4. QED
    BY <1>11, <2>2, <2>3 DEF ReplaceService
<1>12. CASE InsertService(r)
  <2>1. /\ GoesTo(Receiving) /\ services' = Append(services, item)
        /\ serviceUpdater[r].step = "insert"
    BY <1>12 DEF InsertService
  <2>2. /\ DOMAIN services' = DOMAIN services \cup {Len(services) + 1}
        /\ services'[Len(services) + 1] = item /\ \A j \in DOMAIN services : services'[j] = services[j]
    BY <1>1, <1>2, <2>1, ChannelElements
  <2>3. \A j \in DOMAIN services : services[j].service # item.service
    BY <1>1, <1>2, <1>3, <2>1 DEF OneEach
  <2>4. item \in Range(services') /\ \A d \in Range(services) : d \in Range(services')
    BY <2>2 DEF Range
  <2>5. \A d \in Range(services') : d = item \/ (d \in Range(services) /\ d.service # item.service)
    BY <2>2, <2>3 DEF Range
  <2>6. QED
    BY <1>9, <2>1, <2>4, <2>5 DEF StoredIn
<1>13. CASE UpsertServiceFails(r)
  <2>1. GoesTo(Returned) /\ UNCHANGED services
    BY <1>13 DEF UpsertServiceFails
  <2>2. CASE item.service.namespace = n
    <3>1. Reload(n)!UpsertFails
      BY <1>5, <1>6, <1>8, <2>1, <2>2 DEF Reload!UpsertFails
    <3>2. QED
      BY <3>1 DEF Reload!Next
  <2>3. CASE item.service.namespace # n
    BY <1>6, <1>8, <2>1, <2>3, NothingForIt
  <2>4. QED
    BY <2>2, <2>3
<1>14. QED
  BY <1>10, <1>11, <1>12, <1>13 DEF UpsertServices

(* With nothing on its way, the next request finds nothing to continue.    *)
LEMMA StartReloadRefines ==
    ASSUME TypeOK, ~MayOverlap, StartReload, NEW n \in Namespaces
    PROVE  Reload(n)!Next
<1> DEFINE r == requests + 1
<1>1. /\ Quiet /\ requests \in Nat /\ requests < Requests /\ requests' = r
      /\ scan' = [scan EXCEPT ![r] = [step |-> "list"]]
      /\ serviceUpdater' = [serviceUpdater EXCEPT ![r] = Receiving]
      /\ UNCHANGED <<cluster, annotated, serviceChannel, services>>
  BY DEF StartReload, TypeOK
<1>2. r \in Reloads /\ requests' # 0
  BY <1>1 DEF Reloads, BoundsAssumption
<1>3. Now \in {NotStarted, Returned} /\ Now' = [step |-> "list"]
  BY <1>1, <1>2 DEF Quiet, Now, TypeOK, Reloads
<1>4. ReloadAt(n, Now') = ReloadAt(n, Now)
  BY <1>3 DEF ReloadAt, NotStarted, Returned
<1>5. Upserting(serviceUpdater') = {} /\ Sending' = {} /\ Range(serviceChannel) = {}
  BY <1>1, <1>2, <1>3
     DEF Upserting, Quiet, Sending, Range, TypeOK, UpdatersOf, NotStarted, Receiving, Returned
<1>6. ServicesOnTheirWay' = {} /\ ServicesOnTheirWay = {}
  <2>1. ServicesOnTheirWay = {}
    BY <1>1, NothingOnItsWay
  <2>2. ServicesOnTheirWay' = {}
    BY <1>1, <1>5 DEF ServicesOnTheirWay, OnTheirWay
  <2>3. QED
    BY <2>1, <2>2
<1>7. QED
  BY <1>1, <1>4, <1>6, NothingForIt

(* Whatever is not seen by the mapping is no step of a namespace's reload, *)
(* and the rest is one of it.                                              *)
LEMMA NextRefines ==
    ASSUME TypeOK, CalmInv, ~MayOverlap, [Next]_vars, mapped' # mapped, NEW n \in Namespaces
    PROVE  Reload(n)!Next
<1>1. OneScan /\ OneServiceEach
  BY DEF CalmInv
<1>2. CASE StartReload
  BY <1>2, StartReloadRefines
<1>3. ASSUME NEW r \in Reloads, Scan(r)
      PROVE  Reload(n)!Next
  BY <1>1, <1>3, ScanRefines
<1>4. ASSUME NEW r \in Reloads, UpsertServices(r)
      PROVE  Reload(n)!Next
  BY <1>1, <1>4, UpsertServicesRefine
<1>5. ASSUME NEW r \in Reloads, UpsertNamespaces(r)
      PROVE  FALSE
  BY <1>5 DEF UpsertNamespaces, ReceiveNamespace, ReplaceNamespace, InsertNamespace,
     UpsertNamespaceFails, scanVars, clusterVars, mapped
<1>6. CASE Change
  <2>1. UNCHANGED <<requests, scan, serviceChannel, serviceUpdater, services>>
    BY <1>6 DEF Change
  <2>2. UNCHANGED <<Now, Sending>>
    BY <2>1 DEF Now, Sending
  <2>3. ServicesOnTheirWay' = ServicesOnTheirWay
    BY <2>1, <2>2 DEF ServicesOnTheirWay
  <2>4. QED
    BY <2>1, <2>2, <2>3, NothingForIt
<1>7. CASE UNCHANGED vars
  BY <1>7 DEF vars, clusterVars, mapped
<1>8. QED
  BY <1>2, <1>3, <1>4, <1>5, <1>6, <1>7 DEF Next

LEMMA InitRefines == Init => \A n \in Namespaces : Reload(n)!Init
<1> SUFFICES ASSUME Init, NEW n \in Namespaces PROVE Reload(n)!Init
  OBVIOUS
<1>1. TypeOK /\ Quiet /\ Now = NotStarted
  BY TypeOKInit DEF Init, Quiet, Now
<1>2. ReloadAt(n, Now) = Wait
  BY <1>1 DEF ReloadAt, NotStarted
<1>3. QueuedIn(n, ServicesOnTheirWay) = {}
  BY <1>1, NothingOnItsWay DEF QueuedIn
<1>4. DocumentsIn(n, services) = <<>>
  <2>1. {d.service : d \in Range(services)} \cap ServicesOf[n] = {}
    BY DEF Init, Range
  <2>2. QED
    BY <2>1 DEF DocumentsIn
<1>5. QED
  BY <1>2, <1>3, <1>4 DEF Reload!Init, Reload!Idle, Wait

(* ImplementsNamespaceReloads: where requests are not made while earlier   *)
(* ones are at work, whatever the scan, the two channels and all requests' *)
(* goroutines do is to each namespace what NamespaceReload says: a listing *)
(* after the other and its services stored one at a time, or a change of   *)
(* the cluster alone.  ServiceDocuments is built on that promise           *)
(* (discovery.go:188-270, repository.go:64-80).                            *)
THEOREM ReloadsAreNamespaceReloads == ASSUME ~MayOverlap PROVE Spec => ImplementsNamespaceReloads
<1>1. TypeOK /\ CalmInv /\ [Next]_vars
      => [mapped' # mapped => \A n \in Namespaces : [Reload(n)!Next]_(Reload(n)!vars)]_vars
  BY NextRefines
<1>2. QED
  BY <1>1, InitRefines, TypeCorrect, CalmInvHolds, PTL DEF Spec, ImplementsNamespaceReloads
=============================================================================
