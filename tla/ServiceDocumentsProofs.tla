----------------------- MODULE ServiceDocumentsProofs -----------------------
(***************************************************************************)
(* Proofs about ServiceDocuments, for any number of services, whatever     *)
(* Kubernetes may hold of them and of their namespace, and any number of   *)
(* updates, changes and restarts.                                          *)
(***************************************************************************)
EXTENDS ServiceDocuments, FiniteSetTheorems, WellFoundedInduction, TLAPS

USE PortAssumption, ServicesAssumption, ObjectsAssumption, BoundsAssumption

(* What a reload has inherited from the namespace, at some time, and the   *)
(* numbers of replicas there may be.                                       *)
Inherited == {NamespaceAnnotations(a) : a \in NamespaceObjects}
ReplicaCounts == {o.replicas : o \in Objects}
Updates == [service : Services, replicas : ReplicaCounts]

(* What the scan of a reload keeps at its different steps.                 *)
FindServices == [step : {"services"}, annotations : Inherited]
FindDeployments ==
    [step : {"deployments"}, annotations : Inherited,
     found : UNION {[S -> Objects] : S \in SUBSET Services}]

(* TypeOK is not inductive: what is stored comes out of the scan and of    *)
(* the updates.                                                            *)
TypeInv ==
    /\ TypeOK
    /\ updates \in Seq(Updates)
    /\ updater # Idle => /\ updater.service \in Services
                         /\ updater.document.service = updater.service
    /\ reload \in {Idle} \cup FindServices \cup FindDeployments

(* An item or a document has the annotations and the port that its service *)
(* has in the cluster; or has failed where that says so.                   *)
IsCurrent(s, i) ==
    /\ cluster[s] \in Objects
    /\ i.annotations = Annotations(s) /\ i.appPort = Port(s).appPort
    /\ i.failed = Port(s).failed

(* What is confirmed is current; so is what will be written over it, and   *)
(* what will confirm it: a scan has listed what has not changed since it   *)
(* began as it is.                                                         *)
ConfirmedAreCurrent == \A s \in confirmed : s \in DOMAIN documents /\ IsCurrent(s, documents[s])
UpdateIsCurrent ==
    updater # Idle /\ ~updater.overtaken /\ updater.service \in confirmed =>
        IsCurrent(updater.service, updater.document)
QueuedAreCurrent == \A i \in queued : i.service \notin changed => IsCurrent(i.service, i)
ScanIsCurrent ==
    \A s \in Services \ changed :
        /\ reload # Idle => reload.annotations = NamespaceAnnotations(annotated)
        /\ reload.step = "deployments" /\ s \in DOMAIN reload.found => reload.found[s] = cluster[s]

StoredInv == ConfirmedAreCurrent /\ UpdateIsCurrent /\ QueuedAreCurrent /\ ScanIsCurrent

-----------------------------------------------------------------------------
(* HealthAnnotations.                                                      *)

(* A set of positions has a first one.                                     *)
LEMMA MinIsMember ==
    ASSUME NEW S \in SUBSET Nat, S # {}
    PROVE  Min(S) \in S /\ \A k \in S : Min(S) <= k
<1> DEFINE less == {p \in Nat \X Nat : p[1] < p[2]}
<1>1. IsWellFoundedOn(less, Nat)
  BY NatLessThanWellFounded, Zenon DEF OpToRel
<1>2. PICK m \in S : \A k \in S : <<k, m>> \notin less
  <2> HIDE DEF less
  <2> QED
    BY <1>1, WFMin
<1>3. ASSUME NEW k \in S
      PROVE  m <= k
  <2>1. <<k, m>> \in Nat \X Nat
    OBVIOUS
  <2>2. ~(k < m)
    BY <1>2, <2>1
  <2>3. QED
    BY <2>2
<1>4. QED
  BY <1>3 DEF Min

LEMMA FirstOfThree ==
    ASSUME NEW a, NEW b, NEW c, NEW silent, c \notin silent
    PROVE  FirstSaid(<<a, b, c>>, silent)
              = IF a \notin silent THEN a ELSE IF b \notin silent THEN b ELSE c
<1> DEFINE texts == <<a, b, c>>
           said == {k \in DOMAIN texts : texts[k] \notin silent}
<1>1. said \in SUBSET Nat /\ said \subseteq 1..3 /\ 3 \in said
  OBVIOUS
<1>2. Min(said) \in said /\ \A k \in said : Min(said) <= k
  <2> HIDE DEF said
  <2> QED
    BY <1>1, MinIsMember
<1>3. FirstSaid(texts, silent) = texts[Min(said)]
  BY DEF FirstSaid
<1>4. QED
  BY <1>1, <1>2, <1>3

(* The code's overriding of one level after the other is what the README   *)
(* says: the service's words, else the namespace's, else the defaults.     *)
LEMMA OverridingIsEffective ==
    ASSUME NEW service \in ServiceObject, NEW namespace \in NamespaceObject
    PROVE  overrideParentAnnotations(getHealthAnnotations(service), NamespaceAnnotations(namespace))
              = Effective(service, namespace)
<1>1. FirstSaid(<<service.port, namespace.port, DefaultPort>>, {Unset})
         = IF service.port # Unset THEN service.port
           ELSE IF namespace.port # Unset THEN namespace.port ELSE DefaultPort
  BY FirstOfThree DEF Unset
<1>2. FirstSaid(<<service.enable, namespace.enable, "true">>, SilentTexts)
         = IF service.enable \notin SilentTexts THEN service.enable
           ELSE IF namespace.enable \notin SilentTexts THEN namespace.enable ELSE "true"
  <2>1. "true" \notin SilentTexts
    BY DEF SilentTexts
  <2>2. QED
    BY <2>1, FirstOfThree
<1>3. service.enable \in EnableTexts /\ namespace.enable \in EnableTexts
  BY DEF ServiceObject, NamespaceObject
<1>4. QED
  BY <1>1, <1>2, <1>3 DEF Effective, overrideParentAnnotations, getHealthAnnotations,
     NamespaceAnnotations, DefaultAnnotations, EnableTexts, SilentTexts

(* The port of the pods is the target of a port that was asked for, or     *)
(* else what was asked for.                                                *)
LEMMA PortIsTheTarget ==
    ASSUME NEW ports \in Seq(ServicePorts), NEW port, Int32(port) = port,
           port = Malformed => ports = <<>>
    PROVE  LET targets == {TargetText(p.target) :
                              p \in {q \in Range(ports) : q.port = port /\ HasTarget(q.target)}}
           IN getAppPortForService(ports, port).appPort
                 \in IF targets = {} THEN {PortText(port)} ELSE targets
<1> DEFINE hits == {k \in DOMAIN ports : ports[k].port = port /\ HasTarget(ports[k].target)}
           found == {q \in Range(ports) : q.port = port /\ HasTarget(q.target)}
           targets == {TargetText(p.target) : p \in found}
           appPort == getAppPortForService(ports, port).appPort
<1>1. appPort = IF hits = {} \/ port = Malformed THEN PortText(port)
                ELSE TargetText(ports[Min(hits)].target)
  BY Zenon DEF getAppPortForService
<1>2. CASE hits = {}
  <2>1. found = {}
    BY <1>2 DEF Range
  <2>2. QED
    BY <1>1, <1>2, <2>1
<1>3. CASE hits # {}
  <2>1. hits \in SUBSET Nat /\ port # Malformed
    BY <1>3
  <2>2. Min(hits) \in hits
    <3> HIDE DEF hits
    <3> QED
      BY <1>3, <2>1, MinIsMember
  <2>3. ports[Min(hits)] \in found
    BY <2>2 DEF Range
  <2>4. appPort \in targets
    <3> HIDE DEF hits, found, appPort
    <3> QED
      BY <1>1, <1>3, <2>1, <2>3
  <2>5. QED
    BY <2>4
<1>4. QED
  BY <1>2, <1>3

(* What a scan makes of a service is what the README says of it.           *)
LEMMA ItemIsEffective ==
    ASSUME NEW s, NEW o \in Objects, NEW a \in NamespaceObjects, NEW n
    PROVE  LET i == ServiceItem(s, o, NamespaceAnnotations(a), n)
           IN /\ i.service = s
              /\ i.annotations = Effective(o, a)
              /\ i.appPort = getAppPortForService(o.ports, Effective(o, a).port).appPort
              /\ i.failed = getAppPortForService(o.ports, Effective(o, a).port).failed
<1>1. o \in ServiceObject /\ a \in NamespaceObject
  OBVIOUS
<1>2. overrideParentAnnotations(getHealthAnnotations(o), NamespaceAnnotations(a)) = Effective(o, a)
  BY <1>1, OverridingIsEffective
<1>3. QED
  BY <1>2 DEF ServiceItem

(* Other replicas make another item of a service.                          *)
LEMMA UpdatedItem ==
    ASSUME NEW i \in Items, NEW n \in ReplicaCounts
    PROVE  /\ Updated(i, n) \in Items
           /\ Updated(i, n).service = i.service
           /\ Updated(i, n).annotations = i.annotations
           /\ Updated(i, n).appPort = i.appPort
           /\ Updated(i, n).failed = i.failed
<1>1. PICK s \in Services, o \in Objects, a \in NamespaceObjects, p \in Objects :
         i = ServiceItem(s, o, NamespaceAnnotations(a), p.replicas) /\ ~i.failed
  BY DEF Items
<1>2. PICK q \in Objects : n = q.replicas
  BY DEF ReplicaCounts
<1>3. Updated(i, n) = ServiceItem(s, o, NamespaceAnnotations(a), q.replicas)
  BY <1>1, <1>2 DEF Updated, ServiceItem
<1>4. /\ Updated(i, n).failed = i.failed
      /\ Updated(i, n).service = i.service
      /\ Updated(i, n).annotations = i.annotations
      /\ Updated(i, n).appPort = i.appPort
  BY <1>1 DEF Updated, ServiceItem
<1>5. QED
  BY <1>1, <1>3, <1>4 DEF Items

(* NamespaceReload's operators are those of HealthAnnotations.             *)
LEMMA SameOperators ==
    /\ \A x : Reload!NamespaceAnnotations(x) = NamespaceAnnotations(x)
    /\ \A s, o, a, c : Reload!ServiceItem(s, o, a, c) = ServiceItem(s, o, a, c)
<1>1. ASSUME NEW x
      PROVE  Reload!NamespaceAnnotations(x) = NamespaceAnnotations(x)
  BY DEF Reload!NamespaceAnnotations, Reload!overrideParentAnnotations,
     Reload!getHealthAnnotations, Reload!DefaultAnnotations, Reload!Unset, NamespaceAnnotations,
     overrideParentAnnotations, getHealthAnnotations, DefaultAnnotations, Unset
<1>2. ASSUME NEW s, NEW o, NEW a, NEW c
      PROVE  Reload!ServiceItem(s, o, a, c) = ServiceItem(s, o, a, c)
  BY DEF Reload!ServiceItem, Reload!overrideParentAnnotations, Reload!getHealthAnnotations,
     Reload!getAppPortForService, Reload!HasTarget, Reload!TargetText, Reload!PortText,
     Reload!NoName, Reload!Int32, Reload!Malformed, Reload!Unset, Reload!Min,
     ServiceItem, overrideParentAnnotations, getHealthAnnotations, getAppPortForService,
     HasTarget, TargetText, PortText, NoName, Int32, Malformed, Unset, Min
<1>3. QED
  BY <1>1, <1>2

-----------------------------------------------------------------------------
(* Types.                                                                  *)

(* The documents' conjunct of TypeOK.                                      *)
StoreIsTyped ==
    /\ DOMAIN documents \subseteq Services
    /\ \A s \in DOMAIN documents : documents[s] \in Items /\ documents[s].service = s

LEMMA StoredIsTyped ==
    ASSUME StoreIsTyped, NEW i \in Items, i.service \in Services, Reload!Stored(i.service, i)
    PROVE  StoreIsTyped'
BY DEF StoreIsTyped, Reload!Stored

LEMMA ItemsAreOfServices == \A i \in Items : i.service \in Services
<1> SUFFICES ASSUME NEW i \in Items PROVE i.service \in Services
  OBVIOUS
<1>1. PICK s \in Services, o \in Objects, a \in NamespaceObjects, p \in Objects :
         i = ServiceItem(s, o, NamespaceAnnotations(a), p.replicas)
  BY DEF Items
<1>2. QED
  BY <1>1 DEF ServiceItem

LEMMA CountsAreNat == ReplicaCounts \subseteq Nat
<1>1. \A o \in Objects : o \in ServiceObject /\ o.replicas # None
  OBVIOUS
<1>2. QED
  BY <1>1 DEF ReplicaCounts, ServiceObject

LEMMA WiderSeq ==
    ASSUME NEW S, NEW T, S \subseteq T
    PROVE  Seq(S) \subseteq Seq(T)
OBVIOUS

LEMMA UpdatesAreTyped == Seq(Updates) \subseteq Seq([service : Services, replicas : Nat])
<1>1. Updates \subseteq [service : Services, replicas : Nat]
  BY CountsAreNat DEF Updates
<1>2. QED
  BY <1>1, WiderSeq

LEMMA NoUpdates == <<>> \in Seq(Updates)
OBVIOUS

LEMMA TypeInvInit == Init => TypeInv
<1> SUFFICES ASSUME Init PROVE TypeInv
  OBVIOUS
<1>1. servicesState \in [DOMAIN servicesState -> Nat] /\ DOMAIN servicesState \subseteq Services
  BY DEF Init
<1>2. DOMAIN documents = {}
  BY DEF Init
<1>3. updater = Idle /\ reload = Idle /\ reload.step = "wait"
  BY DEF Init, Idle, Reload!Idle
<1>4. updates \in Seq(Updates) /\ updates \in Seq([service : Services, replicas : Nat])
  BY NoUpdates, UpdatesAreTyped DEF Init
<1>5. up \in BOOLEAN
  BY Zenon DEF Init
<1>6. /\ missed \in [Services -> 0..2] /\ changes \in 0..MaxChanges /\ crashes \in 0..MaxCrashes
      /\ restrictToNamespaces = {} /\ queued = {} /\ watch = "off"
  BY DEF Init
<1>7. /\ annotated \in NamespaceObjects /\ cluster \in [Services -> Objects \cup {Gone}]
      /\ changed \subseteq Services /\ confirmed \subseteq Services
  BY DEF Init
<1>8. QED
  BY <1>1, <1>2, <1>3, <1>4, <1>5, <1>6, <1>7 DEF TypeInv, TypeOK

LEMMA TypeInvStep == TypeInv /\ [Next]_vars => TypeInv'
<1> SUFFICES ASSUME TypeInv, [Next]_vars PROVE TypeInv'
  OBVIOUS
<1> USE DEF TypeInv, TypeOK
<1>1. CASE DropDB
  <2>1. DOMAIN documents' = {} /\ missed' \in [Services -> 0..2]
    BY <1>1 DEF DropDB
  <2>2. QED
    BY <1>1, <2>1 DEF DropDB, clusterVars, watchVars, reloadVars, process
<1>2. CASE Start
  <2>1. \A s \in DOMAIN documents : documents[s].replicas \in Nat
    <3> SUFFICES ASSUME NEW i \in Items PROVE i.replicas \in Nat
      OBVIOUS
    <3>1. PICK s \in Services, o \in Objects, a \in NamespaceObjects, p \in Objects :
             i = ServiceItem(s, o, NamespaceAnnotations(a), p.replicas)
      BY DEF Items
    <3>2. i.replicas \in ReplicaCounts
      BY <3>1 DEF ServiceItem, ReplicaCounts
    <3>3. QED
      BY <3>2, CountsAreNat
  <2>2. /\ servicesState' \in [DOMAIN servicesState' -> Nat]
        /\ DOMAIN servicesState' \subseteq Services
    BY <1>2, <2>1 DEF Start
  <2>3. up' \in BOOLEAN /\ restrictToNamespaces' \subseteq {Namespace}
        /\ watch' \in {"off", "opening", "open"}
    BY <1>2 DEF Start
  <2>4. QED
    BY <1>2, <2>2, <2>3 DEF Start, clusterVars, storeVars, reloadVars
<1>3. CASE Crash
  <2>1. /\ servicesState' \in [DOMAIN servicesState' -> Nat]
        /\ DOMAIN servicesState' \subseteq Services
    BY <1>3 DEF Crash
  <2>2. /\ updater' = Idle /\ reload' = Idle /\ reload'.step = "wait" /\ queued' = {}
        /\ updates' \in Seq(Updates)
        /\ updates' \in Seq([service : Services, replicas : Nat])
    BY <1>3, NoUpdates, UpdatesAreTyped DEF Crash, Idle, Reload!Idle
  <2>3. /\ up' \in BOOLEAN /\ restrictToNamespaces' \subseteq {Namespace}
        /\ watch' \in {"off", "opening", "open"} /\ crashes' \in 0..MaxCrashes
    <3>1. up' = FALSE /\ restrictToNamespaces' = {} /\ watch' = "off"
      BY <1>3 DEF Crash
    <3>2. crashes' \in 0..MaxCrashes
      BY <1>3 DEF Crash
    <3>3. up' \in BOOLEAN
      BY <3>1, Zenon
    <3>4. QED
      BY <3>1, <3>2, <3>3
  <2>4. missed' \in [Services -> 0..2]
    BY <1>3 DEF Crash
  <2>5. QED
    BY <1>3, <2>1, <2>2, <2>3, <2>4 DEF Crash, clusterVars
<1>4. CASE StartReload
  <2>1. /\ reload' = [step |-> "services", annotations |-> NamespaceAnnotations(annotated)]
        /\ UNCHANGED <<annotated, cluster, queued, documents>>
    BY <1>4, SameOperators DEF StartReload, Reload!Begin
  <2>2. reload' \in FindServices /\ reload'.step = "services"
    BY <2>1 DEF FindServices, Inherited
  <2>3. missed' \in [Services -> 0..2]
    BY <1>4 DEF StartReload
  <2>4. updater' # Idle =>
           /\ updater # Idle /\ updater'.document = updater.document
           /\ updater'.service = updater.service /\ updater'.missed \in 0..2
    BY <1>4 DEF StartReload
  <2>5. changed' \subseteq Services /\ UNCHANGED <<changes, confirmed, watchVars, process>>
    BY <1>4 DEF StartReload
  <2>6. QED
    BY <2>1, <2>2, <2>3, <2>4, <2>5 DEF watchVars, process
<1>5. CASE ListServices
  <2>1. reload.step = "services" /\ reload \in FindServices
    BY <1>5 DEF ListServices, Reload!ListServices, Idle, Reload!Idle, FindDeployments
  <2> DEFINE S == {t \in Services : cluster[t].exists}
             found == [s \in S |-> cluster[s]]
  <2>2. /\ reload' = [step |-> "deployments", annotations |-> reload.annotations, found |-> found]
        /\ UNCHANGED <<annotated, cluster, queued, documents>>
    BY <1>5 DEF ListServices, Reload!ListServices
  <2>3. \A s \in S : cluster[s] \in Objects
    BY DEF Gone
  <2>4. found \in UNION {[T -> Objects] : T \in SUBSET Services}
    <3>1. found \in [S -> Objects] /\ S \in SUBSET Services
      BY <2>3
    <3> HIDE DEF found, S
    <3>2. QED
      BY <3>1
  <2> HIDE DEF found
  <2>5. reload' \in FindDeployments /\ reload'.step = "deployments"
    BY <2>1, <2>2, <2>4 DEF FindServices, FindDeployments
  <2>6. QED
    BY <1>5, <2>2, <2>5 DEF ListServices, untouched, watchVars, process
<1>6. CASE ListDeployments
  <2>1. reload.step = "deployments" /\ reload \in FindDeployments
    BY <1>6 DEF ListDeployments, Reload!ListDeployments, Idle, Reload!Idle, FindServices
  <2>2. /\ reload.annotations \in Inherited /\ DOMAIN reload.found \subseteq Services
        /\ \A s \in DOMAIN reload.found : reload.found[s] \in Objects
    BY <2>1 DEF FindDeployments
  <2>3. reload' = Idle /\ reload'.step = "wait" /\ UNCHANGED <<annotated, cluster, documents>>
    BY <1>6 DEF ListDeployments, Reload!ListDeployments, Idle, Reload!Idle
  <2>4. queued' \subseteq Items
    <3> SUFFICES ASSUME NEW i \in queued' PROVE i \in Items
      OBVIOUS
    <3>1. PICK s \in DOMAIN reload.found :
             /\ cluster[s].replicas # Reload!None
             /\ i = ServiceItem(s, reload.found[s], reload.annotations, cluster[s].replicas)
             /\ ~i.failed
      BY <1>6, SameOperators DEF ListDeployments, Reload!ListDeployments
    <3>2. s \in Services /\ reload.found[s] \in Objects
      BY <2>2
    <3>3. cluster[s] \in Objects
      BY <3>1, <3>2 DEF Gone, None, Reload!None
    <3>4. PICK a \in NamespaceObjects : reload.annotations = NamespaceAnnotations(a)
      BY <2>2 DEF Inherited
    <3>5. QED
      BY <3>1, <3>2, <3>3, <3>4 DEF Items
  <2>5. QED
    BY <1>6, <2>3, <2>4 DEF ListDeployments, untouched, watchVars, process
<1>7. CASE ScanFails
  <2>1. reload' = Idle /\ reload'.step = "wait" /\ UNCHANGED <<annotated, cluster, queued, documents>>
    BY <1>7 DEF ScanFails, Reload!ScanFails, Idle, Reload!Idle
  <2>2. QED
    BY <1>7, <2>1 DEF ScanFails, untouched, watchVars, process
<1>8. CASE UpsertFails
  <2>1. queued' \subseteq queued /\ UNCHANGED <<annotated, cluster, reload, documents>>
    BY <1>8 DEF UpsertFails, Reload!UpsertFails
  <2>2. QED
    BY <1>8, <2>1 DEF UpsertFails, untouched, watchVars, process
<1>9. ASSUME NEW s \in Services, Upsert(s) PROVE TypeInv'
  <2>1. PICK i \in queued : /\ i.service = s /\ queued' = queued \ {i} /\ Reload!Stored(s, i)
                            /\ UNCHANGED <<annotated, cluster, reload>>
    BY <1>9 DEF Upsert, Reload!Upsert
  <2>2. StoreIsTyped'
    BY <2>1, StoredIsTyped DEF StoreIsTyped
  <2>3. missed' \in [Services -> 0..2] /\ confirmed' \subseteq Services
    BY <1>9 DEF Upsert
  <2>4. updater' # Idle =>
           /\ updater # Idle /\ updater'.document = updater.document
           /\ updater'.service = updater.service /\ updater'.missed = updater.missed
    BY <1>9 DEF Upsert
  <2>5. UNCHANGED <<changes, changed, watchVars, process>>
    BY <1>9 DEF Upsert
  <2>6. QED
    BY <2>1, <2>2, <2>3, <2>4, <2>5 DEF StoreIsTyped, watchVars, process
<1>10. ASSUME NEW s \in Services, RemoveStale(s) PROVE TypeInv'
  <2>1. StoreIsTyped'
    BY <1>10 DEF RemoveStale, StoreIsTyped
  <2>2. missed' \in [Services -> 0..2] /\ confirmed' \subseteq Services
    BY <1>10 DEF RemoveStale
  <2>3. QED
    BY <1>10, <2>1, <2>2 DEF RemoveStale, StoreIsTyped, clusterVars, watchVars, reloadVars, process
<1>11. CASE OpenWatch
  <2> DEFINE fresh == {s \in Services : cluster[s] # Gone /\ News(s, cluster[s].replicas)}
             first == {[service |-> s, replicas |-> cluster[s].replicas] : s \in fresh}
  <2>1. PICK order \in SetToSeqs(first) : updates' = order
    BY <1>11 DEF OpenWatch
  <2>2. \A s \in fresh : s \in Services /\ cluster[s].replicas \in ReplicaCounts
    BY DEF ReplicaCounts
  <2>3. IsFiniteSet(fresh)
    BY FS_Subset
  <2>4. servicesState' = [s \in DOMAIN servicesState |->
                             IF s \in fresh THEN cluster[s].replicas ELSE servicesState[s]]
    BY <1>11 DEF OpenWatch
  <2> HIDE DEF fresh
  <2>5. first \in SUBSET Updates
    BY <2>2 DEF Updates
  <2>6. IsFiniteSet(first)
    <3> DEFINE f == [s \in fresh |-> [service |-> s, replicas |-> cluster[s].replicas]]
    <3>1. f \in Surjection(fresh, first)
      BY DEF Surjection
    <3> HIDE DEF f, first
    <3>2. QED
      BY <2>3, <3>1, FS_Surjection
  <2> HIDE DEF first
  <2>7. updates' \in Seq(Updates)
    <3>1. Cardinality(first) \in Nat
      BY <2>6, FS_CardinalityType
    <3>2. updates' \in [1..Cardinality(first) -> first]
      BY <2>1 DEF SetToSeqs
    <3>3. updates' \in Seq(first)
      BY <3>1, <3>2
    <3>4. QED
      BY <2>5, <3>3, WiderSeq
  <2>8. updates' \in Seq([service : Services, replicas : Nat])
    BY <2>7, UpdatesAreTyped
  <2>9. /\ servicesState' \in [DOMAIN servicesState' -> Nat]
        /\ DOMAIN servicesState' \subseteq Services
    BY <2>2, <2>4, CountsAreNat
  <2>10. watch' = "open"
    BY <1>11 DEF OpenWatch
  <2>11. QED
    BY <1>11, <2>7, <2>8, <2>9, <2>10 DEF OpenWatch, clusterVars, storeVars, reloadVars, process
<1>12. CASE EndWatch
  BY <1>12 DEF EndWatch, clusterVars, storeVars, reloadVars, process
<1>13. ASSUME NEW s \in Services, NEW object \in Objects \cup {Gone}, Change(s, object) PROVE TypeInv'
  <2>1. /\ cluster' \in [Services -> Objects \cup {Gone}] /\ changes' \in 0..MaxChanges
        /\ changed' \subseteq Services /\ confirmed' \subseteq Services
    BY <1>13 DEF Change
  <2>2. CASE UNCHANGED <<updates, servicesState>>
    BY <1>13, <2>1, <2>2 DEF Change, reloadVars, process
  <2>3. CASE /\ object # Gone /\ News(s, object.replicas)
             /\ updates' = Append(updates, [service |-> s, replicas |-> object.replicas])
             /\ servicesState' = [servicesState EXCEPT ![s] = object.replicas]
    <3>1. object.replicas \in ReplicaCounts
      BY <2>3 DEF ReplicaCounts
    <3>2. [service |-> s, replicas |-> object.replicas] \in Updates
      BY <3>1 DEF Updates
    <3>3. updates' \in Seq(Updates)
      BY <2>3, <3>2
    <3>4. updates' \in Seq([service : Services, replicas : Nat])
      BY <3>3, UpdatesAreTyped
    <3>5. /\ servicesState' \in [DOMAIN servicesState' -> Nat]
          /\ DOMAIN servicesState' \subseteq Services
      BY <2>3, <3>1, CountsAreNat
    <3>6. QED
      BY <1>13, <2>1, <3>3, <3>4, <3>5 DEF Change, reloadVars, process
  <2>4. QED
    BY <1>13, <2>2, <2>3 DEF Change
<1>14. ASSUME NEW object \in NamespaceObjects, Annotate(object) PROVE TypeInv'
  <2>1. changes' \in 0..MaxChanges /\ changed' \subseteq Services /\ confirmed' \subseteq Services
    BY <1>14 DEF Annotate
  <2>2. QED
    BY <1>14, <2>1 DEF Annotate, watchVars, reloadVars, process
<1>15. CASE ReadDocument
  <2> DEFINE u == Head(updates)
  <2>1. /\ u \in Updates
        /\ updates' \in Seq(Updates)
        /\ updates' \in Seq([service : Services, replicas : Nat])
    <3>1. updates # <<>> /\ updates' = Tail(updates)
      BY <1>15 DEF ReadDocument
    <3>2. u \in Updates /\ updates' \in Seq(Updates)
      BY <3>1
    <3>3. QED
      BY <3>2, UpdatesAreTyped
  <2>2. /\ u.service \in DOMAIN documents
        /\ updater' = [step |-> "write", service |-> u.service, missed |-> missed[u.service],
                       document |-> Updated(documents[u.service], u.replicas), overtaken |-> FALSE]
    BY <1>15 DEF ReadDocument
  <2>3. u.service \in Services /\ u.replicas \in ReplicaCounts
    BY <2>1 DEF Updates
  <2> HIDE DEF u
  <2>4. /\ Updated(documents[u.service], u.replicas) \in Items
        /\ Updated(documents[u.service], u.replicas).service = u.service
    BY <2>2, <2>3, UpdatedItem
  <2>5. /\ updater'.document \in Items /\ updater'.missed \in 0..2
        /\ updater'.service \in Services /\ updater'.document.service = updater'.service
    BY <2>2, <2>3, <2>4
  <2>6. QED
    BY <1>15, <2>1, <2>5 DEF ReadDocument, clusterVars, storeVars, reloadVars, process
<1>16. CASE ReadFails
  <2>1. /\ updates' \in Seq(Updates)
        /\ updates' \in Seq([service : Services, replicas : Nat])
    <3>1. updates # <<>> /\ updates' = Tail(updates)
      BY <1>16 DEF ReadFails
    <3>2. updates' \in Seq(Updates)
      BY <3>1
    <3>3. QED
      BY <3>2, UpdatesAreTyped
  <2>2. QED
    BY <1>16, <2>1 DEF ReadFails, clusterVars, storeVars, reloadVars, process
<1>17. CASE WriteDocument
  <2>1. StoreIsTyped'
    BY <1>17, StoredIsTyped DEF WriteDocument, StoreIsTyped
  <2>2. missed' \in [Services -> 0..2] /\ confirmed' \subseteq Services /\ updater' = Idle
    BY <1>17 DEF WriteDocument
  <2>3. QED
    BY <1>17, <2>1, <2>2
       DEF WriteDocument, StoreIsTyped, clusterVars, watchVars, reloadVars, process
<1>18. CASE WriteFails
  BY <1>18 DEF WriteFails, clusterVars, storeVars, watchVars, reloadVars, process
<1>19. CASE UNCHANGED vars
  BY <1>19 DEF vars, clusterVars, storeVars, watchVars, reloadVars, process
<1>20. QED
  BY <1>1, <1>2, <1>3, <1>4, <1>5, <1>6, <1>7, <1>8, <1>9, <1>10, <1>11, <1>12, <1>13, <1>14,
     <1>15, <1>16, <1>17, <1>18, <1>19 DEF Next, Update

LEMMA TypeInvariant == Spec => []TypeInv
BY TypeInvInit, TypeInvStep, PTL DEF Spec

(* Every variable holds values of the program's types; no document, and    *)
(* nothing on its way to be one, is of a service with ports and a port     *)
(* annotation that is no number (discovery.go:345-359).                    *)
THEOREM TypeCorrect == Spec => []TypeOK
BY TypeInvariant, PTL DEF TypeInv

-----------------------------------------------------------------------------
(* What a reload has stored.                                               *)

LEMMA StoredInvInit == Init => StoredInv
<1> SUFFICES ASSUME Init PROVE StoredInv
  OBVIOUS
<1>1. confirmed = {} /\ queued = {} /\ changed = Services /\ updater = Idle
  BY DEF Init
<1>2. QED
  BY <1>1 DEF StoredInv, ConfirmedAreCurrent, UpdateIsCurrent, QueuedAreCurrent, ScanIsCurrent

(* What a scan finds of a service that has not changed is current.         *)
LEMMA FoundIsCurrent ==
    ASSUME TypeInv, ScanIsCurrent, reload.step = "deployments",
           NEW s \in DOMAIN reload.found, s \notin changed, NEW n
    PROVE  LET i == ServiceItem(s, reload.found[s], reload.annotations, n)
           IN i.service = s /\ IsCurrent(s, i)
<1>1. reload \in FindDeployments
  BY DEF TypeInv, Idle, Reload!Idle, FindServices
<1>2. s \in Services /\ reload.found[s] \in Objects
  BY <1>1 DEF FindDeployments
<1>3. reload.found[s] = cluster[s] /\ reload.annotations = NamespaceAnnotations(annotated)
  BY <1>2 DEF ScanIsCurrent, Idle, Reload!Idle
<1>4. cluster[s] \in Objects /\ annotated \in NamespaceObjects
  BY <1>2, <1>3 DEF TypeInv, TypeOK
<1>5. QED
  BY <1>3, <1>4, ItemIsEffective DEF IsCurrent, Annotations, Port

LEMMA StoredInvStep == TypeInv /\ StoredInv /\ [Next]_vars => StoredInv'
<1> SUFFICES ASSUME TypeInv, StoredInv, [Next]_vars PROVE StoredInv'
  OBVIOUS
<1> USE DEF StoredInv
<1> DEFINE SameCluster == UNCHANGED <<annotated, cluster>>
<1>0. ASSUME SameCluster, NEW s, NEW i PROVE IsCurrent(s, i)' <=> IsCurrent(s, i)
  BY <1>0 DEF IsCurrent, Annotations, Port
<1>c. ASSUME SameCluster, confirmed' \subseteq confirmed,
             \A s \in confirmed' : s \in DOMAIN documents => /\ s \in DOMAIN documents'
                                                             /\ documents'[s] = documents[s]
      PROVE  ConfirmedAreCurrent'
  BY <1>c DEF ConfirmedAreCurrent, IsCurrent, Annotations, Port
<1>u. ASSUME SameCluster, confirmed' \subseteq confirmed,
             updater' # Idle => /\ updater # Idle /\ updater'.service = updater.service
                                /\ updater'.document = updater.document
                                /\ updater'.overtaken = updater.overtaken
      PROVE  UpdateIsCurrent'
  BY <1>u DEF UpdateIsCurrent, IsCurrent, Annotations, Port
<1>q. ASSUME SameCluster, queued' \subseteq queued, changed' = changed
      PROVE  QueuedAreCurrent'
  BY <1>q DEF QueuedAreCurrent, IsCurrent, Annotations, Port
<1>s. ASSUME SameCluster, reload' = reload \/ reload' = Idle, changed' = changed
      PROVE  ScanIsCurrent'
  BY <1>s DEF ScanIsCurrent, Idle, Reload!Idle
<1> HIDE DEF SameCluster
<1>1. CASE DropDB
  BY <1>1, <1>c, <1>u, <1>q, <1>s DEF DropDB, clusterVars, reloadVars, SameCluster
<1>2. CASE Start \/ Crash
  BY <1>2, <1>c, <1>u, <1>q, <1>s DEF Start, Crash, clusterVars, storeVars, reloadVars, SameCluster
<1>3. CASE StartReload
  <2>1. /\ queued = {} /\ reload' = [step |-> "services", annotations |-> NamespaceAnnotations(annotated)]
        /\ UNCHANGED <<annotated, cluster, queued, documents>>
    BY <1>3, SameOperators DEF StartReload, Reload!Begin
  <2>2. SameCluster /\ UNCHANGED confirmed
    BY <1>3, <2>1 DEF StartReload, SameCluster
  <2>3. updater' # Idle => /\ updater # Idle /\ updater'.service = updater.service
                           /\ updater'.document = updater.document
                           /\ updater'.overtaken = updater.overtaken
    BY <1>3 DEF StartReload
  <2>4. ConfirmedAreCurrent' /\ UpdateIsCurrent'
    BY <2>1, <2>2, <2>3, <1>c, <1>u
  <2>5. QueuedAreCurrent'
    BY <2>1 DEF QueuedAreCurrent
  <2>6. ScanIsCurrent'
    BY <2>1 DEF ScanIsCurrent
  <2>7. QED
    BY <2>4, <2>5, <2>6
<1>4. CASE ListServices
  <2>1. /\ reload.step = "services"
        /\ reload' = [step |-> "deployments", annotations |-> reload.annotations,
                      found |-> [s \in {t \in Services : cluster[t].exists} |-> cluster[s]]]
        /\ UNCHANGED <<annotated, cluster, queued, documents>>
    BY <1>4 DEF ListServices, Reload!ListServices
  <2>2. SameCluster /\ UNCHANGED <<changed, confirmed, updater>>
    BY <1>4, <2>1 DEF ListServices, untouched, SameCluster
  <2>3. ScanIsCurrent'
    BY <2>1, <2>2 DEF ScanIsCurrent, Idle, Reload!Idle
  <2>4. QED
    BY <2>1, <2>2, <2>3, <1>c, <1>u, <1>q
<1>5. CASE ListDeployments
  <2>1. /\ reload.step = "deployments" /\ reload' = Idle
        /\ UNCHANGED <<annotated, cluster, documents>>
    BY <1>5 DEF ListDeployments, Reload!ListDeployments, Idle
  <2>2. SameCluster /\ UNCHANGED <<changed, confirmed, updater>>
    BY <1>5, <2>1 DEF ListDeployments, untouched, SameCluster
  <2>3. QueuedAreCurrent'
    <3> SUFFICES ASSUME NEW i \in queued', i.service \notin changed
                 PROVE  IsCurrent(i.service, i)
      BY <1>0, <2>2 DEF QueuedAreCurrent
    <3>1. PICK s \in DOMAIN reload.found :
             i = ServiceItem(s, reload.found[s], reload.annotations, cluster[s].replicas)
      BY <1>5, SameOperators DEF ListDeployments, Reload!ListDeployments
    <3>2. i.service = s
      BY <3>1 DEF ServiceItem
    <3>3. QED
      BY <2>1, <3>1, <3>2, FoundIsCurrent
  <2>4. QED
    BY <2>1, <2>2, <2>3, <1>c, <1>u, <1>s
<1>6. CASE ScanFails
  <2>1. reload' = Idle /\ UNCHANGED <<annotated, cluster, queued, documents>>
    BY <1>6 DEF ScanFails, Reload!ScanFails, Idle
  <2>2. SameCluster /\ UNCHANGED <<changed, confirmed, updater>>
    BY <1>6, <2>1 DEF ScanFails, untouched, SameCluster
  <2>3. QED
    BY <2>1, <2>2, <1>c, <1>u, <1>q, <1>s
<1>7. CASE UpsertFails
  <2>1. queued' \subseteq queued /\ UNCHANGED <<annotated, cluster, reload, documents>>
    BY <1>7 DEF UpsertFails, Reload!UpsertFails
  <2>2. SameCluster /\ UNCHANGED <<changed, confirmed, updater>>
    BY <1>7, <2>1 DEF UpsertFails, untouched, SameCluster
  <2>3. QED
    BY <2>1, <2>2, <1>c, <1>u, <1>q, <1>s
<1>8. ASSUME NEW s \in Services, Upsert(s) PROVE StoredInv'
  <2>1. PICK i \in queued : /\ i.service = s /\ queued' = queued \ {i} /\ Reload!Stored(s, i)
                            /\ UNCHANGED <<annotated, cluster, reload>>
    BY <1>8 DEF Upsert, Reload!Upsert
  <2>2. SameCluster /\ changed' = changed
    BY <1>8, <2>1 DEF Upsert, SameCluster
  <2>3. /\ DOMAIN documents' = DOMAIN documents \cup {s} /\ documents'[s] = i
        /\ \A t \in DOMAIN documents : t # s => documents'[t] = documents[t]
    BY <2>1 DEF Reload!Stored
  <2>4. confirmed' = IF s \in changed THEN confirmed \ {s} ELSE confirmed \cup {s}
    BY <1>8 DEF Upsert
  <2>5. s \notin changed => IsCurrent(s, i)
    BY <2>1 DEF QueuedAreCurrent
  <2>6. ConfirmedAreCurrent'
    <3> SUFFICES ASSUME NEW t \in confirmed'
                 PROVE  t \in DOMAIN documents' /\ IsCurrent(t, documents'[t])
      BY <1>0, <2>2 DEF ConfirmedAreCurrent
    <3>1. CASE t = s
      BY <2>3, <2>4, <2>5, <3>1
    <3>2. CASE t # s
      BY <2>3, <2>4, <3>2 DEF ConfirmedAreCurrent
    <3>3. QED
      BY <3>1, <3>2
  <2>7. UpdateIsCurrent'
    <3>1. CASE updater # Idle /\ updater.service = s
      <4>1. updater'.overtaken = TRUE
        BY <1>8, <3>1 DEF Upsert, TypeInv
      <4>2. QED
        BY <4>1 DEF UpdateIsCurrent
    <3>2. CASE ~(updater # Idle /\ updater.service = s)
      <4>1. updater' = updater
        BY <1>8, <3>2 DEF Upsert
      <4>2. updater.service \in confirmed' /\ updater # Idle => updater.service \in confirmed
        BY <2>4, <3>2
      <4>3. QED
        BY <1>0, <2>2, <4>1, <4>2 DEF UpdateIsCurrent
    <3>3. QED
      BY <3>1, <3>2
  <2>8. QED
    BY <2>1, <2>2, <2>6, <2>7, <1>q, <1>s
<1>9. ASSUME NEW s \in Services, RemoveStale(s) PROVE StoredInv'
  <2>1. /\ documents' = [t \in DOMAIN documents \ {s} |-> documents[t]]
        /\ confirmed' = confirmed \ {s}
        /\ UNCHANGED <<updater, reload, queued, changed>>
    BY <1>9 DEF RemoveStale, clusterVars, reloadVars
  <2>2. SameCluster
    BY <1>9 DEF RemoveStale, clusterVars, SameCluster
  <2>3. QED
    BY <2>1, <2>2, <1>c, <1>u, <1>q, <1>s
<1>10. CASE OpenWatch
  BY <1>10, <1>c, <1>u, <1>q, <1>s DEF OpenWatch, clusterVars, storeVars, reloadVars, SameCluster
<1>11. CASE EndWatch
  BY <1>11, <1>c, <1>u, <1>q, <1>s DEF EndWatch, clusterVars, storeVars, reloadVars, SameCluster
<1>12. ASSUME NEW s \in Services, NEW object \in Objects \cup {Gone}, Change(s, object) PROVE StoredInv'
  <2>1. /\ cluster' = [cluster EXCEPT ![s] = object] /\ changed' = changed \cup {s}
        /\ confirmed' = confirmed \ {s} /\ UNCHANGED <<annotated, documents, updater, reload, queued>>
    BY <1>12 DEF Change, reloadVars
  <2>2. \A t, i : t # s => (IsCurrent(t, i)' <=> IsCurrent(t, i))
    <3> SUFFICES ASSUME NEW t, NEW i, t # s PROVE IsCurrent(t, i)' <=> IsCurrent(t, i)
      OBVIOUS
    <3>1. cluster'[t] = cluster[t]
      BY <2>1 DEF TypeInv, TypeOK
    <3>2. QED
      BY <2>1, <3>1 DEF IsCurrent, Annotations, Port
  <2>3. ConfirmedAreCurrent'
    BY <2>1, <2>2 DEF ConfirmedAreCurrent
  <2>4. UpdateIsCurrent'
    BY <2>1, <2>2 DEF UpdateIsCurrent
  <2>5. QueuedAreCurrent'
    BY <2>1, <2>2 DEF QueuedAreCurrent
  <2>6. ScanIsCurrent'
    BY <2>1 DEF ScanIsCurrent, TypeInv, TypeOK
  <2>7. QED
    BY <2>3, <2>4, <2>5, <2>6
<1>13. ASSUME NEW object \in NamespaceObjects, Annotate(object) PROVE StoredInv'
  <2>1. /\ changed' = Services /\ confirmed' = {} /\ queued' \subseteq Items
    BY <1>13 DEF Annotate, reloadVars, TypeInv, TypeOK
  <2>2. \A i \in queued' : i.service \in changed'
    BY <2>1, ItemsAreOfServices
  <2>3. QED
    BY <2>1, <2>2 DEF ConfirmedAreCurrent, UpdateIsCurrent, QueuedAreCurrent, ScanIsCurrent
<1>14. CASE ReadDocument
  <2>1. PICK u \in Updates :
           /\ u.service \in DOMAIN documents
           /\ updater' = [step |-> "write", service |-> u.service, missed |-> missed[u.service],
                          document |-> Updated(documents[u.service], u.replicas), overtaken |-> FALSE]
    <3>1. updates \in Seq(Updates) /\ updates # <<>>
      BY <1>14 DEF ReadDocument, TypeInv
    <3>2. Head(updates) \in Updates
      BY <3>1
    <3>3. QED
      BY <1>14, <3>2 DEF ReadDocument
  <2>2. SameCluster /\ UNCHANGED <<documents, confirmed, reload, queued, changed>>
    BY <1>14 DEF ReadDocument, clusterVars, storeVars, reloadVars, SameCluster
  <2>3. /\ Updated(documents[u.service], u.replicas).failed = documents[u.service].failed
        /\ Updated(documents[u.service], u.replicas).annotations = documents[u.service].annotations
        /\ Updated(documents[u.service], u.replicas).appPort = documents[u.service].appPort
    BY <2>1, UpdatedItem DEF Updates, TypeInv, TypeOK
  <2>4. u.service \in confirmed => IsCurrent(u.service, Updated(documents[u.service], u.replicas))
    BY <2>3 DEF ConfirmedAreCurrent, IsCurrent
  <2>5. UpdateIsCurrent'
    BY <1>0, <2>1, <2>2, <2>4 DEF UpdateIsCurrent
  <2>6. QED
    BY <2>2, <2>5, <1>c, <1>q, <1>s
<1>15. CASE ReadFails
  BY <1>15, <1>c, <1>u, <1>q, <1>s DEF ReadFails, clusterVars, storeVars, reloadVars, SameCluster
<1>16. CASE WriteDocument
  <2> DEFINE s == updater.service
  <2>1. SameCluster /\ UNCHANGED <<reload, queued, changed>> /\ updater # Idle /\ updater' = Idle
    BY <1>16 DEF WriteDocument, clusterVars, reloadVars, SameCluster
  <2>2. /\ DOMAIN documents' = DOMAIN documents \cup {s} /\ documents'[s] = updater.document
        /\ \A t \in DOMAIN documents : t # s => documents'[t] = documents[t]
    BY <1>16 DEF WriteDocument, Reload!Stored
  <2>3. confirmed' \subseteq confirmed /\ (s \in confirmed' => ~updater.overtaken)
    BY <1>16 DEF WriteDocument
  <2>4. s \in confirmed' => IsCurrent(s, updater.document)
    BY <2>1, <2>3 DEF UpdateIsCurrent
  <2>5. ConfirmedAreCurrent'
    <3> SUFFICES ASSUME NEW t \in confirmed'
                 PROVE  t \in DOMAIN documents' /\ IsCurrent(t, documents'[t])
      BY <1>0, <2>1 DEF ConfirmedAreCurrent
    <3>1. CASE t = s
      BY <2>2, <2>4, <3>1
    <3>2. CASE t # s
      BY <2>2, <2>3, <3>2 DEF ConfirmedAreCurrent
    <3>3. QED
      BY <3>1, <3>2
  <2>6. QED
    BY <2>1, <2>3, <2>5, <1>u, <1>q, <1>s
<1>17. CASE WriteFails
  BY <1>17, <1>c, <1>u, <1>q, <1>s DEF WriteFails, clusterVars, storeVars, reloadVars, SameCluster
<1>18. CASE UNCHANGED vars
  BY <1>18, <1>c, <1>u, <1>q, <1>s DEF vars, clusterVars, storeVars, reloadVars, SameCluster
<1>19. QED
  BY <1>1, <1>2, <1>3, <1>4, <1>5, <1>6, <1>7, <1>8, <1>9, <1>10, <1>11, <1>12, <1>13, <1>14,
     <1>15, <1>16, <1>17, <1>18 DEF Next, Update

(* Annotations and port that a reload has stored stay as they are, next to *)
(* any number of updates, restarts and deletions, but for an update read   *)
(* before the upsert and written after it (repository.go:74, 188-202).     *)
THEOREM StoredStays == Spec => []StoredAnnotationsStay
<1>1. StoredInv => StoredAnnotationsStay
  BY DEF StoredInv, ConfirmedAreCurrent, IsCurrent, StoredAnnotationsStay
<1>2. QED
  BY <1>1, StoredInvInit, StoredInvStep, TypeInvariant, PTL DEF Spec

(* The defaults come last and say something.                               *)
LEMMA PortIsSaid ==
    ASSUME NEW service, NEW namespace
    PROVE  Effective(service, namespace).port # Unset
<1>1. DefaultPort \notin {Unset}
  BY DEF Unset
<1>2. FirstSaid(<<service.port, namespace.port, DefaultPort>>, {Unset}) # Unset
  BY <1>1, FirstOfThree
<1>3. QED
  BY <1>2 DEF Effective

(* Next to any number of updates, restarts and deletions a confirmed       *)
(* service is scraped at the target that its annotations ask for, by the   *)
(* README's words, or else at their text, for any ports and annotations    *)
(* but a number that no port can hold; it has no ports if the text is no   *)
(* number (discovery.go:333-359).                                          *)
THEOREM TargetsAreScraped == Spec => []AppPortIsTheTarget
<1>1. ASSUME TypeInv, StoredInv, NEW s \in confirmed
      PROVE  LET asked == Annotations(s).port
                 ports == Range(cluster[s].ports)
                 targets == {TargetText(p.target) :
                                p \in {q \in ports : q.port = asked /\ HasTarget(q.target)}}
             IN /\ asked # Unset /\ (asked = Malformed => ports = {})
                /\ Fits(asked) =>
                      documents[s].appPort \in IF targets = {} THEN {PortText(asked)} ELSE targets
  <2> DEFINE asked == Annotations(s).port
  <2>1. /\ s \in DOMAIN documents /\ cluster[s] \in Objects
        /\ documents[s].appPort = Port(s).appPort /\ documents[s].failed = Port(s).failed
    BY <1>1 DEF StoredInv, ConfirmedAreCurrent, IsCurrent
  <2>2. cluster[s].ports \in Seq(ServicePorts)
    BY <2>1 DEF ServiceObject
  <2>3. ~Port(s).failed
    BY <1>1, <2>1 DEF TypeInv, TypeOK, Items
  <2>4. asked = Malformed => cluster[s].ports = <<>>
    BY <2>3 DEF Port, getAppPortForService
  <2>5. asked = Malformed => Range(cluster[s].ports) = {}
    BY <2>4 DEF Range
  <2>6. asked # Unset
    BY PortIsSaid DEF Annotations
  <2>7. documents[s].appPort = getAppPortForService(cluster[s].ports, asked).appPort
    BY <2>1 DEF Port
  <2> HIDE DEF asked
  <2>8. QED
    BY <2>2, <2>4, <2>5, <2>6, <2>7, PortIsTheTarget DEF Fits, asked
<1>2. TypeInv /\ StoredInv => AppPortIsTheTarget
  BY <1>1 DEF AppPortIsTheTarget
<1>3. QED
  BY <1>2, StoredInvInit, StoredInvStep, TypeInvariant, PTL DEF Spec
=============================================================================
