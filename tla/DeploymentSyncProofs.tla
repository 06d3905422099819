------------------------ MODULE DeploymentSyncProofs ------------------------
(***************************************************************************)
(* Proofs about DeploymentSync, for any services and deployments, however  *)
(* they are labelled, any watched namespaces and any channel capacities.   *)
(***************************************************************************)
EXTENDS DeploymentSync, FiniteSetTheorems, TLAPS

USE ReplicasAssumption, LabelsAssumption, CapacityAssumption, BoundsAssumption

(* What UpdateDeployments and DoUpdates make of an item.                   *)
Value(item) == IF item.type = "DELETED" THEN 0 ELSE item.replicas

(* A channel holds an item of service s, and v is what its last one says.  *)
About(channel, s) == \E k \in DOMAIN channel : channel[k].service = s
LastAbout(channel, s, v) ==
    \E k \in DOMAIN channel :
        /\ channel[k].service = s /\ Value(channel[k]) = v
        /\ \A j \in DOMAIN channel : j > k => channel[j].service # s

Forwarding(s) == forwarder # Idle /\ forwarder.item.service = s
Updating(s) == updater # Idle /\ updater.service = s

(* v is what the document of s will say once everything on its way between *)
(* the watcher and the collection has arrived, if the document is not one  *)
(* that was deleted as stale.                                              *)
Arrives(s, v) ==
    IF About(watchEvents, s) THEN LastAbout(watchEvents, s, v)
    ELSE IF Forwarding(s) THEN Value(forwarder.item) = v
    ELSE IF About(updatesQueue, s) THEN LastAbout(updatesQueue, s, v)
    ELSE IF Updating(s) THEN updater.desiredReplicas = v
    ELSE stored[s] = v \/ (stored[s] = Gone /\ s \in removed)

Expected(s) == IF s \in deleted THEN 0 ELSE servicesState[s]

(* The inductive invariant: what arrives last is what the map expects.     *)
SyncInv ==
    \A s \in Services \ (lost \cup overwritten) :
        servicesState[s] # Gone => Arrives(s, Expected(s))

-----------------------------------------------------------------------------
(* Types.                                                                  *)

(* The events a stream begins with, in whatever order.                     *)
LEMMA StreamBegins ==
    ASSUME NEW S \in SUBSET Events, IsFiniteSet(S), NEW order \in SetToSeqs(S)
    PROVE  order \in Seq(Events)
<1>1. Cardinality(S) \in Nat
  BY FS_CardinalityType
<1>2. order \in [1..Cardinality(S) -> S]
  BY DEF SetToSeqs
<1>3. order \in Seq(S)
  BY <1>1, <1>2
<1>4. QED
  BY <1>3

LEMMA TypeOKInit == Init => TypeOK
<1> SUFFICES ASSUME Init PROVE TypeOK
  OBVIOUS
<1>1. stored \in [Services -> Replicas \cup {0, Gone}] /\ servicesState = stored
  BY DEF Init
<1>2. watch \in [index : Nat, step : {"opening", "open", "closed"}]
  BY DEF Init
<1>3. QED
  BY <1>1, <1>2 DEF Init, TypeOK

LEMMA TypeOKStep == TypeOK /\ [Next]_vars => TypeOK'
<1> SUFFICES ASSUME TypeOK, [Next]_vars PROVE TypeOK'
  OBVIOUS
<1> USE DEF TypeOK
<1>1. CASE OpenWatch
  <2> DEFINE present == {d \in Deployments :
                          NamespaceOf[d] = WatchedNamespaces[watch.index] /\ cluster[d] # Gone}
             first == {Event("ADDED", d, cluster[d]) : d \in present}
  <2>1. PICK order \in SetToSeqs(first) : stream' = order
    BY <1>1 DEF OpenWatch
  <2>2. \A d \in present : d \in Deployments /\ cluster[d] \in Replicas
    OBVIOUS
  <2>3. IsFiniteSet(present)
    BY DeploymentsAssumption, FS_Subset
  <2> HIDE DEF present
  <2>4. first \in SUBSET Events
    BY <2>2 DEF Event, Events, EventTypes
  <2>5. IsFiniteSet(first)
    <3> DEFINE f == [d \in present |-> Event("ADDED", d, cluster[d])]
    <3>1. f \in Surjection(present, first)
      BY DEF Surjection
    <3> HIDE DEF f, first
    <3>2. QED
      BY <2>3, <3>1, FS_Surjection
  <2> HIDE DEF first
  <2>6. stream' \in Seq(Events)
    BY <2>1, <2>4, <2>5, StreamBegins
  <2>7. QED
    BY <1>1, <2>6 DEF OpenWatch, updateVars, historyVars
<1>2. CASE CloseStream \/ NextNamespace
  BY <1>2 DEF CloseStream, NextNamespace, updateVars, historyVars
<1>3. CASE HandleEvent
  <2>1. Head(stream) \in Events /\ Tail(stream) \in Seq(Events)
    BY <1>3 DEF HandleEvent
  <2>2. App[Head(stream).deployment] \in Services
    BY <2>1 DEF Events
  <2> DEFINE event == Head(stream)
             s == App[event.deployment]
             item == [type |-> event.type, service |-> s, replicas |-> event.replicas]
  <2>3. item \in Items
    BY <2>1, <2>2 DEF Events, Items
  <2>4. /\ servicesState' = servicesState \/ servicesState' = [servicesState EXCEPT ![s] = event.replicas]
        /\ watchEvents' = watchEvents \/ watchEvents' = Append(watchEvents, item)
        /\ deleted' \in {deleted, deleted \cup {s}, deleted \ {s}}
    BY <1>3 DEF HandleEvent
  <2> HIDE DEF item
  <2>5. servicesState' \in [Services -> Replicas \cup {0, Gone}]
    BY <2>1, <2>2, <2>4 DEF Events
  <2>6. watchEvents' \in Seq(Items)
    <3>1. Append(watchEvents, item) \in Seq(Items)
      BY <2>3
    <3>2. QED
      BY <2>4, <3>1
  <2>7. deleted' \subseteq Services
    BY <2>2, <2>4
  <2>8. QED
    BY <1>3, <2>1, <2>5, <2>6, <2>7 DEF HandleEvent, updateVars
<1>4. CASE ReceiveEvent
  BY <1>4 DEF ReceiveEvent, historyVars
<1>5. CASE ForwardEvent
  BY <1>5 DEF ForwardEvent, watchVars, historyVars, Idle
<1>6. CASE TakeUpdate
  <2>1. Head(updatesQueue) \in Items /\ Tail(updatesQueue) \in Seq(Items)
    BY <1>6 DEF TakeUpdate
  <2>2. updater' \in [step : {"find", "write"}, service : Services, desiredReplicas : Replicas \cup {0}]
    BY <1>6, <2>1 DEF TakeUpdate, Items
  <2>3. QED
    BY <1>6, <2>1, <2>2 DEF TakeUpdate, watchVars, historyVars
<1>7. CASE FindService
  <2>1. updater \in [step : {"find", "write"}, service : Services, desiredReplicas : Replicas \cup {0}]
    BY <1>7 DEF FindService, Idle
  <2>2. updater' \in [step : {"find", "write"}, service : Services, desiredReplicas : Replicas \cup {0}]
    BY <1>7, <2>1 DEF FindService
  <2>3. QED
    BY <1>7, <2>2 DEF FindService, watchVars, historyVars
<1>8. CASE WriteService
  BY <1>8 DEF WriteService, watchVars, historyVars, Idle
<1>9. CASE UpdateFails
  BY <1>9 DEF UpdateFails, watchVars, Idle
<1>10. ASSUME NEW s \in Services, ReloadLists(s) \/ ReloadStores(s) PROVE TypeOK'
  <2>1. CASE ReloadLists(s)
    <3>1. DeploymentOf[s] \in Deployments
      OBVIOUS
    <3>2. reload' \in [Services -> Replicas \cup {Gone}] /\ reloads' \in Nat
      BY <2>1, <3>1 DEF ReloadLists
    <3>3. QED
      BY <2>1, <3>2 DEF ReloadLists, watchVars, updateVars, historyVars
  <2>2. CASE ReloadStores(s)
    <3>1. /\ reload' \in [Services -> Replicas \cup {Gone}]
          /\ stored' \in [Services -> Replicas \cup {0, Gone}]
          /\ overwritten' \subseteq Services
      BY <2>2 DEF ReloadStores
    <3>2. QED
      BY <2>2, <3>1 DEF ReloadStores, watchVars, updateVars
  <2>3. QED
    BY <1>10, <2>1, <2>2
<1>11. ASSUME NEW d \in Deployments, NEW n \in Replicas \cup {Gone}, Change(d, n) PROVE TypeOK'
  <2>1. cluster' \in [Deployments -> Replicas \cup {Gone}] /\ changes' \in Nat
    BY <1>11 DEF Change
  <2>2. /\ n = Gone => Event("DELETED", d, cluster[d]) \in Events
        /\ n # Gone => Event("ADDED", d, n) \in Events /\ Event("MODIFIED", d, n) \in Events
    BY <1>11 DEF Change, Event, Events, EventTypes
  <2>3. stream' \in Seq(Events)
    BY <1>11, <2>2 DEF Change
  <2>4. QED
    BY <1>11, <2>1, <2>3 DEF Change, updateVars, historyVars
<1>12. CASE Restart
  <2>1. watch' \in [index : Nat, step : {"opening", "open", "closed"}]
    BY <1>12 DEF Restart
  <2>2. stored' \in [Services -> Replicas \cup {0, Gone}] /\ servicesState' = stored'
    BY <1>12 DEF Restart, Dropped
  <2>3. QED
    BY <1>12, <2>1, <2>2 DEF Restart
<1>13. ASSUME NEW s \in Services, RemoveStale(s) PROVE TypeOK'
  <2>1. /\ stored' \in [Services -> Replicas \cup {0, Gone}]
        /\ removed' \subseteq Services /\ changes' \in Nat
    BY <1>13 DEF RemoveStale
  <2>2. QED
    BY <1>13, <2>1 DEF RemoveStale, watchVars, updateVars
<1>14. CASE UNCHANGED vars
  BY <1>14 DEF vars, watchVars, updateVars, historyVars
<1>15. QED
  BY <1>1, <1>2, <1>3, <1>4, <1>5, <1>6, <1>7, <1>8, <1>9, <1>10, <1>11, <1>12, <1>13, <1>14
     DEF Next, Watcher, Updater

(* Every variable holds values of the program's types: in particular only  *)
(* replicas a deployment had, or 0, are ever written to a document.        *)
THEOREM TypeCorrect == SafeSpec => []TypeOK
BY TypeOKInit, TypeOKStep, PTL DEF SafeSpec

-----------------------------------------------------------------------------
(* What a channel says of a service after a send and after a receive.      *)

LEMMA AfterSend ==
    ASSUME NEW channel \in Seq(Items), NEW item \in Items
    PROVE  /\ About(Append(channel, item), item.service)
           /\ LastAbout(Append(channel, item), item.service, Value(item))
           /\ \A s : s # item.service =>
                 /\ About(Append(channel, item), s) <=> About(channel, s)
                 /\ \A v : LastAbout(channel, s, v) => LastAbout(Append(channel, item), s, v)
<1> DEFINE longer == Append(channel, item)
           n == Len(channel)
<1>1. /\ n \in Nat /\ DOMAIN channel = 1..n /\ DOMAIN longer = 1..(n + 1)
      /\ longer[n + 1] = item
      /\ \A k \in 1..n : longer[k] = channel[k]
  OBVIOUS
<1> HIDE DEF longer, n
<1>2. About(longer, item.service) /\ LastAbout(longer, item.service, Value(item))
  BY <1>1 DEF About, LastAbout
<1>3. ASSUME NEW s, s # item.service
      PROVE  About(longer, s) <=> About(channel, s)
  BY <1>1, <1>3 DEF About
<1>4. ASSUME NEW s, s # item.service, NEW v, LastAbout(channel, s, v)
      PROVE  LastAbout(longer, s, v)
  <2>1. PICK k \in DOMAIN channel :
           /\ channel[k].service = s /\ Value(channel[k]) = v
           /\ \A j \in DOMAIN channel : j > k => channel[j].service # s
    BY <1>4 DEF LastAbout
  <2>2. k \in DOMAIN longer /\ longer[k] = channel[k]
    BY <1>1
  <2>3. \A j \in DOMAIN longer : j > k => longer[j].service # s
    BY <1>1, <1>4, <2>1
  <2>4. QED
    BY <2>1, <2>2, <2>3 DEF LastAbout
<1>5. QED
  BY <1>2, <1>3, <1>4 DEF longer

LEMMA AfterReceive ==
    ASSUME NEW channel \in Seq(Items), channel # <<>>, NEW s
    PROVE  /\ Head(channel).service # s => (About(Tail(channel), s) <=> About(channel, s))
           /\ Head(channel).service = s => About(channel, s)
           /\ \A v : LastAbout(channel, s, v) =>
                 \/ LastAbout(Tail(channel), s, v)
                 \/ /\ ~About(Tail(channel), s)
                    /\ Head(channel).service = s /\ Value(Head(channel)) = v
           /\ \A v : LastAbout(Tail(channel), s, v) => About(Tail(channel), s)
<1> DEFINE shorter == Tail(channel)
           n == Len(channel)
<1>1. /\ n \in Nat \ {0} /\ DOMAIN channel = 1..n /\ DOMAIN shorter = 1..(n - 1)
      /\ Head(channel) = channel[1]
      /\ \A k \in 1..(n - 1) : shorter[k] = channel[k + 1]
  OBVIOUS
<1> HIDE DEF shorter, n
<1>2. \A k \in DOMAIN channel : k # 1 => k - 1 \in DOMAIN shorter /\ shorter[k - 1] = channel[k]
  <2> SUFFICES ASSUME NEW k \in DOMAIN channel, k # 1
               PROVE  k - 1 \in DOMAIN shorter /\ shorter[k - 1] = channel[k]
    OBVIOUS
  <2>1. k - 1 \in 1..(n - 1) /\ (k - 1) + 1 = k
    BY <1>1
  <2>2. QED
    BY <1>1, <2>1
<1>3. \A k \in DOMAIN shorter : k + 1 \in DOMAIN channel /\ shorter[k] = channel[k + 1]
  BY <1>1
<1>4. ASSUME Head(channel).service # s
      PROVE  About(shorter, s) <=> About(channel, s)
  BY <1>1, <1>2, <1>3, <1>4 DEF About
<1>5. ASSUME Head(channel).service = s PROVE About(channel, s)
  BY <1>1, <1>5 DEF About
<1>6. ASSUME NEW v, LastAbout(channel, s, v), ~LastAbout(shorter, s, v)
      PROVE  ~About(shorter, s) /\ Head(channel).service = s /\ Value(Head(channel)) = v
  <2>1. PICK k \in DOMAIN channel :
           /\ channel[k].service = s /\ Value(channel[k]) = v
           /\ \A j \in DOMAIN channel : j > k => channel[j].service # s
    BY <1>6 DEF LastAbout
  <2>2. k = 1
    <3> SUFFICES ASSUME k # 1 PROVE FALSE
      OBVIOUS
    <3>1. k - 1 \in DOMAIN shorter /\ shorter[k - 1] = channel[k]
      BY <1>2
    <3>2. ASSUME NEW j \in DOMAIN shorter, j > k - 1 PROVE shorter[j].service # s
      <4>1. j + 1 \in DOMAIN channel /\ j + 1 > k /\ shorter[j] = channel[j + 1]
        BY <1>1, <1>3, <3>2
      <4>2. QED
        BY <2>1, <4>1
    <3>3. LastAbout(shorter, s, v)
      BY <2>1, <3>1, <3>2 DEF LastAbout
    <3>4. QED
      BY <1>6, <3>3
  <2>3. ASSUME NEW j \in DOMAIN shorter PROVE shorter[j].service # s
    <3>1. j + 1 \in DOMAIN channel /\ j + 1 > 1 /\ shorter[j] = channel[j + 1]
      BY <1>1, <1>3
    <3>2. QED
      BY <2>1, <2>2, <3>1
  <2>4. QED
    BY <1>1, <2>1, <2>2, <2>3 DEF About
<1>7. ASSUME NEW v, LastAbout(shorter, s, v) PROVE About(shorter, s)
  BY <1>7 DEF About, LastAbout
<1>8. QED
  BY <1>4, <1>5, <1>6, <1>7 DEF shorter

-----------------------------------------------------------------------------
(* The map and the collection.                                             *)

LEMMA SyncInvInit == Init => SyncInv
<1> SUFFICES ASSUME Init, NEW s \in Services, servicesState[s] # Gone
             PROVE  Arrives(s, Expected(s))
  BY DEF SyncInv
<1>1. ~About(watchEvents, s) /\ ~About(updatesQueue, s)
  BY DEF Init, About
<1>2. ~Forwarding(s) /\ ~Updating(s)
  BY DEF Init, Forwarding, Updating
<1>3. s \notin deleted /\ stored[s] = servicesState[s]
  BY DEF Init
<1>4. QED
  BY <1>1, <1>2, <1>3 DEF Arrives, Expected

(* A step that leaves the way of the updates and the map alone.            *)
LEMMA SyncInvQuiet ==
    ASSUME SyncInv, UNCHANGED <<servicesState, watchEvents, updateVars, deleted>>,
           lost \cup overwritten \subseteq lost' \cup overwritten',
           removed \subseteq removed',
           \A s \in Services \ (lost' \cup overwritten') :
              stored'[s] = stored[s] \/ (stored'[s] = Gone /\ s \in removed')
    PROVE  SyncInv'
<1> SUFFICES ASSUME NEW s \in Services \ (lost' \cup overwritten'), servicesState[s] # Gone
             PROVE  Arrives(s, Expected(s))'
  BY DEF SyncInv
<1>1. Arrives(s, Expected(s))
  BY DEF SyncInv
<1>2. QED
  BY <1>1 DEF Arrives, Expected, Forwarding, Updating, updateVars

LEMMA SyncInvStep == TypeOK /\ SyncInv /\ [Next]_vars => SyncInv'
<1> SUFFICES ASSUME TypeOK, SyncInv, [Next]_vars PROVE SyncInv'
  OBVIOUS
<1>1. CASE OpenWatch \/ CloseStream \/ NextNamespace
  BY <1>1, SyncInvQuiet DEF OpenWatch, CloseStream, NextNamespace, historyVars
<1>2. CASE HandleEvent
  <2> DEFINE event == Head(stream)
             s == App[event.deployment]
             item == [type |-> event.type, service |-> s, replicas |-> event.replicas]
  <2>1. event \in Events /\ s \in Services
    <3>1. stream # <<>> /\ stream \in Seq(Events)
      BY <1>2 DEF HandleEvent, TypeOK
    <3>2. event \in Events
      BY <3>1
    <3>3. event.deployment \in Deployments
      BY <3>2 DEF Events
    <3>4. QED
      BY <3>2, <3>3
  <2>2. item \in Items
    BY <2>1 DEF Events, Items
  <2>3. UNCHANGED <<updateVars, stored, lost, overwritten, removed>>
    BY <1>2 DEF HandleEvent
  <2>4. CASE UNCHANGED <<servicesState, watchEvents, deleted>>
    BY <2>3, <2>4, SyncInvQuiet
  <2>5. CASE /\ servicesState' = [servicesState EXCEPT ![s] = event.replicas]
             /\ watchEvents' = Append(watchEvents, item)
             /\ deleted' = IF event.type = "DELETED" THEN deleted \cup {s} ELSE deleted \ {s}
    <3> SUFFICES ASSUME NEW t \in Services \ (lost \cup overwritten), servicesState'[t] # Gone
                 PROVE  Arrives(t, Expected(t))'
      BY <2>3 DEF SyncInv
    <3>1. watchEvents \in Seq(Items)
      BY DEF TypeOK
    <3>2. /\ item.service = s
          /\ Value(item) = IF event.type = "DELETED" THEN 0 ELSE event.replicas
      BY DEF Value
    <3>3. servicesState'[s] = event.replicas /\ (s \in deleted' <=> event.type = "DELETED")
      BY <2>1, <2>5 DEF TypeOK
    <3> HIDE DEF item
    <3>4. CASE t = s
      <4>1. About(watchEvents', t) /\ LastAbout(watchEvents', t, Value(item))
        BY <2>2, <2>5, <3>1, <3>2, <3>4, AfterSend
      <4>2. Expected(t)' = Value(item)
        BY <3>2, <3>3, <3>4 DEF Expected
      <4>3. QED
        BY <4>1, <4>2 DEF Arrives
    <3>5. CASE t # s
      <4>1. servicesState'[t] = servicesState[t] /\ (t \in deleted' <=> t \in deleted)
        BY <2>5, <3>5 DEF TypeOK
      <4>2. Arrives(t, Expected(t)) /\ Expected(t)' = Expected(t)
        BY <4>1 DEF SyncInv, Expected
      <4>3. /\ About(watchEvents', t) <=> About(watchEvents, t)
            /\ LastAbout(watchEvents, t, Expected(t)) => LastAbout(watchEvents', t, Expected(t))
        BY <2>2, <2>5, <3>1, <3>2, <3>5, AfterSend
      <4>4. QED
        BY <2>3, <4>2, <4>3 DEF Arrives, Forwarding, Updating, updateVars
    <3>6. QED
      BY <3>4, <3>5
  <2>6. QED
    BY <1>2, <2>4, <2>5 DEF HandleEvent
<1>3. CASE ReceiveEvent
  <2> SUFFICES ASSUME NEW s \in Services \ (lost \cup overwritten), servicesState[s] # Gone
               PROVE  Arrives(s, Expected(s))'
    BY <1>3 DEF SyncInv, ReceiveEvent, historyVars
  <2>1. Arrives(s, Expected(s)) /\ Expected(s)' = Expected(s)
    BY <1>3 DEF SyncInv, Expected, ReceiveEvent, historyVars
  <2>2. ~Forwarding(s) /\ watchEvents \in Seq(Items) /\ watchEvents # <<>>
    BY <1>3 DEF ReceiveEvent, Forwarding, TypeOK
  <2>3. /\ Forwarding(s)' <=> Head(watchEvents).service = s
        /\ forwarder'.item = Head(watchEvents)
    BY <1>3 DEF ReceiveEvent, Forwarding, Idle
  <2>4. watchEvents' = Tail(watchEvents) /\ UNCHANGED <<updatesQueue, updater, stored, removed>>
    BY <1>3 DEF ReceiveEvent, historyVars
  <2>5. /\ Head(watchEvents).service # s => (About(watchEvents', s) <=> About(watchEvents, s))
        /\ Head(watchEvents).service = s => About(watchEvents, s)
        /\ LastAbout(watchEvents, s, Expected(s)) =>
              \/ LastAbout(watchEvents', s, Expected(s)) /\ About(watchEvents', s)
              \/ /\ ~About(watchEvents', s)
                 /\ Head(watchEvents).service = s /\ Value(Head(watchEvents)) = Expected(s)
    BY <2>2, <2>4, AfterReceive
  <2>6. QED
    BY <2>1, <2>2, <2>3, <2>4, <2>5 DEF Arrives, Updating
<1>4. CASE ForwardEvent
  <2> SUFFICES ASSUME NEW s \in Services \ (lost \cup overwritten), servicesState[s] # Gone
               PROVE  Arrives(s, Expected(s))'
    BY <1>4 DEF SyncInv, ForwardEvent, watchVars, historyVars
  <2>1. Arrives(s, Expected(s)) /\ Expected(s)' = Expected(s)
    BY <1>4 DEF SyncInv, Expected, ForwardEvent, watchVars, historyVars
  <2>2. ~Forwarding(s)' /\ forwarder # Idle /\ forwarder.item \in Items
    BY <1>4 DEF ForwardEvent, Forwarding, Idle, TypeOK
  <2>3. /\ updatesQueue \in Seq(Items) /\ updatesQueue' = Append(updatesQueue, forwarder.item)
        /\ UNCHANGED <<watchEvents, updater, stored, removed>>
    BY <1>4 DEF ForwardEvent, watchVars, historyVars, TypeOK
  <2>4. CASE forwarder.item.service = s
    <3>1. About(updatesQueue', s) /\ LastAbout(updatesQueue', s, Value(forwarder.item))
      BY <2>2, <2>3, <2>4, AfterSend
    <3>2. QED
      BY <2>1, <2>2, <2>3, <2>4, <3>1 DEF Arrives, Forwarding
  <2>5. CASE forwarder.item.service # s
    <3>1. /\ About(updatesQueue', s) <=> About(updatesQueue, s)
          /\ LastAbout(updatesQueue, s, Expected(s)) => LastAbout(updatesQueue', s, Expected(s))
      BY <2>2, <2>3, <2>5, AfterSend
    <3>2. QED
      BY <2>1, <2>2, <2>3, <2>5, <3>1 DEF Arrives, Forwarding, Updating
  <2>6. QED
    BY <2>4, <2>5
<1>5. CASE TakeUpdate
  <2> SUFFICES ASSUME NEW s \in Services \ (lost \cup overwritten), servicesState[s] # Gone
               PROVE  Arrives(s, Expected(s))'
    BY <1>5 DEF SyncInv, TakeUpdate, watchVars, historyVars
  <2>1. Arrives(s, Expected(s)) /\ Expected(s)' = Expected(s)
    BY <1>5 DEF SyncInv, Expected, TakeUpdate, watchVars, historyVars
  <2>2. ~Updating(s) /\ updatesQueue \in Seq(Items) /\ updatesQueue # <<>>
    BY <1>5 DEF TakeUpdate, Updating, TypeOK
  <2>3. /\ Updating(s)' <=> Head(updatesQueue).service = s
        /\ updater'.desiredReplicas = Value(Head(updatesQueue))
    BY <1>5 DEF TakeUpdate, Updating, Value, Idle
  <2>4. updatesQueue' = Tail(updatesQueue) /\ UNCHANGED <<watchEvents, forwarder, stored, removed>>
    BY <1>5 DEF TakeUpdate, watchVars, historyVars
  <2>5. /\ Head(updatesQueue).service # s => (About(updatesQueue', s) <=> About(updatesQueue, s))
        /\ Head(updatesQueue).service = s => About(updatesQueue, s)
        /\ LastAbout(updatesQueue, s, Expected(s)) =>
              \/ LastAbout(updatesQueue', s, Expected(s)) /\ About(updatesQueue', s)
              \/ /\ ~About(updatesQueue', s)
                 /\ Head(updatesQueue).service = s /\ Value(Head(updatesQueue)) = Expected(s)
    BY <2>2, <2>4, AfterReceive
  <2>6. QED
    BY <2>1, <2>2, <2>3, <2>4, <2>5 DEF Arrives, Forwarding
<1>6. CASE FindService \/ WriteService
  <2> SUFFICES ASSUME NEW s \in Services \ (lost \cup overwritten), servicesState[s] # Gone
               PROVE  Arrives(s, Expected(s))'
    BY <1>6 DEF SyncInv, FindService, WriteService, watchVars, historyVars
  <2>1. Arrives(s, Expected(s)) /\ Expected(s)' = Expected(s)
    BY <1>6 DEF SyncInv, Expected, FindService, WriteService, watchVars, historyVars
  <2>2. UNCHANGED <<watchEvents, forwarder, updatesQueue, removed>>
    BY <1>6 DEF FindService, WriteService, watchVars, historyVars
  <2>3. updater # Idle /\ updater.service \in Services
    BY <1>6 DEF FindService, WriteService, Idle, TypeOK
  <2>4. CASE FindService
    <3>1. /\ Updating(s)' <=> Updating(s)
          /\ Updating(s) => updater'.desiredReplicas = updater.desiredReplicas
      BY <2>3, <2>4 DEF FindService, Updating, Idle, TypeOK
    <3>2. stored' = stored
      BY <2>4 DEF FindService
    <3>3. QED
      BY <2>1, <2>2, <3>1, <3>2 DEF Arrives, Forwarding
  <2>5. CASE WriteService
    <3>1. ~Updating(s)'
      BY <2>5 DEF WriteService, Updating
    <3>2. stored'[s] = IF Updating(s) THEN updater.desiredReplicas ELSE stored[s]
      BY <2>3, <2>5 DEF WriteService, Updating, TypeOK
    <3>3. QED
      BY <2>1, <2>2, <3>1, <3>2 DEF Arrives, Forwarding
  <2>6. QED
    BY <1>6, <2>4, <2>5
<1>7. CASE UpdateFails
  <2> SUFFICES ASSUME NEW s \in Services \ (lost' \cup overwritten'), servicesState[s] # Gone
               PROVE  Arrives(s, Expected(s))'
    BY <1>7 DEF SyncInv, UpdateFails, watchVars
  <2>1. s \notin lost \cup overwritten /\ ~Updating(s) /\ ~Updating(s)'
    BY <1>7 DEF UpdateFails, Updating
  <2>2. UNCHANGED <<servicesState, watchEvents, forwarder, updatesQueue, stored, deleted, removed>>
    BY <1>7 DEF UpdateFails, watchVars
  <2>3. Arrives(s, Expected(s)) /\ Expected(s)' = Expected(s)
    BY <2>1, <2>2 DEF SyncInv, Expected
  <2>4. QED
    BY <2>1, <2>2, <2>3 DEF Arrives, Forwarding
<1>8. ASSUME NEW s \in Services, ReloadLists(s) PROVE SyncInv'
  BY <1>8, SyncInvQuiet DEF ReloadLists, watchVars, historyVars
<1>9. ASSUME NEW s \in Services, ReloadStores(s) PROVE SyncInv'
  <2>1. \A t \in Services \ (lost' \cup overwritten') : stored'[t] = stored[t]
    BY <1>9 DEF ReloadStores, TypeOK
  <2>2. lost \cup overwritten \subseteq lost' \cup overwritten' /\ removed' = removed
    BY <1>9 DEF ReloadStores
  <2>3. UNCHANGED <<servicesState, watchEvents, updateVars, deleted>>
    BY <1>9 DEF ReloadStores, watchVars
  <2>4. QED
    BY <2>1, <2>2, <2>3, SyncInvQuiet
<1>10. ASSUME NEW d \in Deployments, NEW n \in Replicas \cup {Gone}, Change(d, n) PROVE SyncInv'
  BY <1>10, SyncInvQuiet DEF Change, historyVars
<1>11. CASE Restart
  <2> SUFFICES ASSUME NEW s \in Services, servicesState'[s] # Gone
               PROVE  Arrives(s, Expected(s))'
    BY DEF SyncInv
  <2>1. ~About(watchEvents, s)' /\ ~About(updatesQueue, s)'
    BY <1>11 DEF Restart, About
  <2>2. ~Forwarding(s)' /\ ~Updating(s)'
    BY <1>11 DEF Restart, Forwarding, Updating
  <2>3. s \notin deleted' /\ stored'[s] = servicesState'[s]
    BY <1>11 DEF Restart
  <2>4. QED
    BY <2>1, <2>2, <2>3 DEF Arrives, Expected
<1>12. ASSUME NEW s \in Services, RemoveStale(s) PROVE SyncInv'
  <2>1. /\ removed' = removed \cup {s}
        /\ \A t \in Services : stored'[t] = stored[t] \/ (stored'[t] = Gone /\ t \in removed')
    BY <1>12 DEF RemoveStale, TypeOK
  <2>2. UNCHANGED <<servicesState, watchEvents, updateVars, deleted, lost, overwritten>>
    BY <1>12 DEF RemoveStale, watchVars
  <2>3. QED
    BY <2>1, <2>2, SyncInvQuiet
<1>13. CASE UNCHANGED vars
  BY <1>13, SyncInvQuiet DEF vars, watchVars, historyVars
<1>14. QED
  BY <1>1, <1>2, <1>3, <1>4, <1>5, <1>6, <1>7, <1>8, <1>9, <1>10, <1>11, <1>12, <1>13
     DEF Next, Watcher, Updater

(* The watcher's map agrees with the collection it never reads again once  *)
(* nothing is on its way between them, but for documents deleted as stale, *)
(* whatever the labels, the watched namespaces and the capacities, and     *)
(* however often the process restarts or a start drops the database        *)
(* (discovery.go:138-145, repository.go:184-202, 394-426, main.go:114,     *)
(* 236-243).                                                               *)
THEOREM TheMapMatchesTheStore == SafeSpec => []StateMatchesStore
<1>1. SyncInv => StateMatchesStore
  <2> SUFFICES ASSUME SyncInv, NEW s \in Services \ (lost \cup overwritten),
                      ~UnderWay(s), servicesState[s] # Gone
               PROVE  \/ stored[s] = Gone /\ s \in removed
                      \/ stored[s] = IF s \in deleted THEN 0 ELSE servicesState[s]
    BY DEF StateMatchesStore
  <2>1. ~About(watchEvents, s) /\ ~About(updatesQueue, s)
    BY DEF UnderWay, About, ToSet
  <2>2. ~Forwarding(s) /\ ~Updating(s)
    BY DEF UnderWay, Forwarding, Updating
  <2>3. QED
    BY <2>1, <2>2 DEF SyncInv, Arrives, Expected
<1>2. QED
  BY <1>1, SyncInvInit, SyncInvStep, TypeCorrect, PTL DEF SafeSpec
=============================================================================
