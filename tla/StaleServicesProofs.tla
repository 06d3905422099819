------------------------ MODULE StaleServicesProofs ------------------------
(***************************************************************************)
(* Proofs about StaleServices, for every set of services and namespaces,   *)
(* every interval and margin, and every reload shorter than the interval.  *)
(***************************************************************************)
EXTENDS StaleServices, TLAPS

USE NamespaceAssumption, IntervalAssumption, BoundsAssumption

(* One more reload allows one more interval.                               *)
LEMMA OneMoreInterval ==
    ASSUME NEW n \in Nat
    PROVE  /\ (n + 1) * ReloadServicesIntervalMins
                  = n * ReloadServicesIntervalMins + ReloadServicesIntervalMins
           /\ n * ReloadServicesIntervalMins \in Nat
           /\ (n + 0) * ReloadServicesIntervalMins = n * ReloadServicesIntervalMins
OBVIOUS

-----------------------------------------------------------------------------
LEMMA TypeOKInit == Init => TypeOK
<1> SUFFICES ASSUME Init PROVE TypeOK
  OBVIOUS
<1>1. age \in [Services -> 0..MaxAge] /\ begun \in [Services -> 0..MaxBegun]
  BY DEF Init
<1>2. untilTick \in 1..ReloadServicesIntervalMins /\ updaters \in 0..MaxUpdaters /\ failures \in 0..MaxFailures
  BY DEF Init
<1>3. tidy \in [step : {"wait", "remove"}]
  BY DEF Init, Waiting
<1>4. QED
  BY <1>1, <1>2, <1>3 DEF Init, TypeOK

LEMMA TypeOKStep == TypeOK /\ [Next]_vars => TypeOK'
<1> SUFFICES ASSUME TypeOK, [Next]_vars PROVE TypeOK'
  OBVIOUS
<1> USE DEF TypeOK
<1>1. CASE StartReload
  <2>1. scan' \in [step : {"scan"}, left : SUBSET Namespaces, time : 0..ScanTime]
    BY <1>1 DEF StartReload
  <2>2. begun' \in [Services -> 0..MaxBegun] /\ updaters' \in 0..MaxUpdaters
    BY <1>1 DEF Most, StartReload
  <2>3. update' \in {Waiting} \cup
          [step : {"write"}, service : Services, age : 0..MaxAge, begun : 0..MaxBegun]
    <3>1. CASE update = Waiting
      BY <1>1, <3>1 DEF StartReload
    <3>2. CASE update # Waiting
      <4>1. Most(update.begun + 1, MaxBegun) \in 0..MaxBegun
        BY <3>2 DEF Most
      <4>2. QED
        BY <1>1, <3>2, <4>1 DEF StartReload
    <3>3. QED
      BY <3>1, <3>2
  <2>4. QED
    BY <1>1, <2>1, <2>2, <2>3 DEF StartReload
<1>2. ASSUME NEW n \in Namespaces, ScanNamespace(n) \/ SkipNamespace(n)
      PROVE  TypeOK'
  BY <1>2 DEF ScanNamespace, SkipNamespace, Waiting, docVars, tickerVars
<1>3. CASE ScanFails \/ EndScan
  BY <1>3 DEF Most, ScanFails, EndScan, docVars, tickerVars
<1>4. ASSUME NEW s \in Services, Upsert(s) \/ UpsertFails(s)
      PROVE  TypeOK'
  BY <1>4 DEF Upsert, UpsertFails, Forget, docVars, tickerVars
<1>5. CASE CountRecent \/ SkipTidy \/ EndTidy
  <2>1. tidy' \in [step : {"wait", "remove"}]
    BY <1>5 DEF CountRecent, SkipTidy, EndTidy, Waiting
  <2>2. QED
    BY <1>5, <2>1 DEF CountRecent, SkipTidy, EndTidy, docVars, tickerVars, reloadVars
<1>6. ASSUME NEW s \in Services, RemoveStale(s)
      PROVE  TypeOK'
  BY <1>6 DEF RemoveStale, Forget, tickerVars, reloadVars
<1>7. ASSUME NEW s \in Services, ReadDocument(s)
      PROVE  TypeOK'
  BY <1>7 DEF ReadDocument, docVars, tickerVars, reloadVars
<1>8. CASE WriteDocument \/ WriteFails
  BY <1>8 DEF WriteDocument, WriteFails, Waiting, docVars, tickerVars, reloadVars
<1>9. ASSUME NEW s \in Services, Deploy(s) \/ Undeploy(s)
      PROVE  TypeOK'
  BY <1>9 DEF Deploy, Undeploy, docVars, tickerVars, reloadVars
<1>10. ASSUME NEW found \in SUBSET cluster, PostReload(found)
       PROVE  TypeOK'
  BY <1>10 DEF Most, PostReload, docVars, tickerVars
<1>11. CASE Crash
  <2>1. begun' \in [Services -> 0..MaxBegun] /\ failures' \in 0..MaxFailures
    BY <1>11 DEF Crash, Most
  <2>2. tidy' \in [step : {"wait", "remove"}]
    BY <1>11 DEF Crash, Waiting
  <2>3. untilTick' \in 1..ReloadServicesIntervalMins /\ updaters' \in 0..MaxUpdaters
    BY <1>11 DEF Crash
  <2>4. QED
    BY <1>11, <2>1, <2>2, <2>3 DEF Crash
<1>12. CASE Start
  BY <1>12 DEF Start, docVars, tickerVars, reloadVars
<1>13. CASE StartOnDroppedDatabase
  <2>1. age' \in [Services -> 0..MaxAge] /\ begun' \in [Services -> 0..MaxBegun]
    BY <1>13 DEF StartOnDroppedDatabase
  <2>2. QED
    BY <1>13, <2>1 DEF StartOnDroppedDatabase, tickerVars, reloadVars
<1>14. CASE Tick
  <2>1. age' \in [Services -> 0..MaxAge]
    BY <1>14 DEF Most, Tick
  <2>2. untilTick' \in 1..ReloadServicesIntervalMins /\ reloadDue' \in BOOLEAN /\ tidyDue' \in BOOLEAN
    <3>1. CASE ~up
      BY <1>14, <3>1 DEF Tick, tickerVars
    <3>2. CASE up /\ untilTick > 1
      BY <1>14, <3>2 DEF Tick
    <3>3. CASE up /\ ~(untilTick > 1)
      BY <1>14, <3>3 DEF Tick
    <3>4. QED
      BY <3>1, <3>2, <3>3
  <2>3. scan' \in {Waiting} \cup [step : {"scan"}, left : SUBSET Namespaces, time : 0..ScanTime]
    <3>1. CASE scan = Waiting
      BY <1>14, <3>1 DEF Tick
    <3>2. CASE scan # Waiting
      <4>1. scan.time + 1 \in 0..ScanTime
        BY <1>14, <3>2 DEF Tick, Settled
      <4>2. QED
        BY <1>14, <3>2, <4>1 DEF Tick
    <3>3. QED
      BY <3>1, <3>2
  <2>4. QED
    BY <1>14, <2>1, <2>2, <2>3 DEF Tick
<1>15. CASE UNCHANGED vars
  BY <1>15 DEF vars, docVars, tickerVars, reloadVars
<1>16. QED
  BY <1>1, <1>2, <1>3, <1>4, <1>5, <1>6, <1>7, <1>8, <1>9, <1>10, <1>11, <1>12, <1>13, <1>14, <1>15
     DEF Next, Reload, Tidy, Update, Environment

(* Every reachable state is well typed: in particular the counts of the    *)
(* history variables stay within their bounds, and no document or update   *)
(* is of a service that does not exist (RemoveServicesNotReloadedRecently).*)
THEOREM TypeCorrect == SafeSpec => []TypeOK
BY TypeOKInit, TypeOKStep, PTL DEF SafeSpec

-----------------------------------------------------------------------------
LEMMA AgeInvInit == Init => AgeInv
BY DEF Init, AgeInv, Waiting

(* Documents and tickers as they were: the age is as allowed.              *)
LEMMA AgeInvQuiet ==
    ASSUME TypeOK, AgeInv,
           stored' \subseteq stored, UNCHANGED <<untilTick, reloadDue>>, tidyDue' => tidyDue,
           tidy' # Waiting => tidy # Waiting \/ tidyDue,
           \A s \in stored' : age'[s] = age[s] /\ begun'[s] = begun[s],
           update' = update \/ update' = Waiting,
           scan' = scan \/ scan' = Waiting
                \/ (scan' # Waiting /\ scan # Waiting /\ scan'.time = scan.time),
           up' = up, up' \/ queued' \subseteq queued
    PROVE  AgeInv'
<1>1. ASSUME NEW s \in stored', begun'[s] < MaxBegun
      PROVE  age'[s] <= Allowed(begun'[s], reloadDue', untilTick')
  BY <1>1 DEF AgeInv
<1>2. ASSUME update' # Waiting, update'.begun < MaxBegun
      PROVE  update'.age <= Allowed(update'.begun, reloadDue', untilTick')
  BY <1>2 DEF AgeInv
<1>3. reloadDue' \/ tidyDue' \/ tidy' # Waiting => untilTick' = ReloadServicesIntervalMins
  BY DEF AgeInv
<1>4. scan' # Waiting => ~reloadDue' /\ scan'.time = ReloadServicesIntervalMins - untilTick'
  BY DEF AgeInv
<1>5. ~up' => /\ scan' = Waiting /\ update' = Waiting /\ queued' = {}
              /\ \A s \in stored' : begun'[s] = MaxBegun
  BY DEF AgeInv
<1>6. QED
  BY <1>1, <1>2, <1>3, <1>4, <1>5 DEF AgeInv

LEMMA AgeInvStep == TypeOK /\ AgeInv /\ [Next]_vars => AgeInv'
<1> SUFFICES ASSUME TypeOK, AgeInv, [Next]_vars PROVE AgeInv'
  OBVIOUS
<1>0. TypeOK'
  BY TypeOKStep
<1>1. CASE StartReload
  <2>1. /\ reloadDue /\ ~reloadDue' /\ untilTick = ReloadServicesIntervalMins
        /\ UNCHANGED <<up, untilTick, tidyDue, tidy, queued, stored, age>> /\ up
    BY <1>1 DEF StartReload, AgeInv, TypeOK
  <2>2. ASSUME NEW n \in Nat
        PROVE  Allowed(n + 1, reloadDue', untilTick') = Allowed(n, reloadDue, untilTick)
    BY <2>1 DEF Allowed
  <2>3. ASSUME NEW s \in stored', begun'[s] < MaxBegun
        PROVE  age'[s] <= Allowed(begun'[s], reloadDue', untilTick')
    <3>1. s \in stored /\ s \in Services /\ begun[s] \in Nat
      BY <2>1 DEF TypeOK
    <3>2. begun'[s] = begun[s] + 1 /\ begun[s] < MaxBegun
      BY <1>1, <2>3, <3>1 DEF StartReload, Most
    <3>3. age[s] <= Allowed(begun[s], reloadDue, untilTick)
      BY <3>1, <3>2 DEF AgeInv
    <3>4. QED
      BY <2>1, <2>2, <3>1, <3>2, <3>3
  <2>4. ASSUME update' # Waiting, update'.begun < MaxBegun
        PROVE  update'.age <= Allowed(update'.begun, reloadDue', untilTick')
    <3>1. update # Waiting /\ update.begun \in Nat
      BY <1>1, <2>4 DEF StartReload, TypeOK
    <3>2. update'.begun = update.begun + 1 /\ update.begun < MaxBegun /\ update'.age = update.age
      BY <1>1, <2>4, <3>1 DEF StartReload, Most, TypeOK
    <3>3. update.age <= Allowed(update.begun, reloadDue, untilTick)
      BY <3>1, <3>2 DEF AgeInv
    <3>4. QED
      BY <2>2, <3>1, <3>2, <3>3
  <2>5. scan'.time = ReloadServicesIntervalMins - untilTick'
    BY <1>1, <2>1 DEF StartReload
  <2>6. QED
    BY <2>1, <2>3, <2>4, <2>5 DEF AgeInv
<1>2. ASSUME NEW n \in Namespaces, ScanNamespace(n) \/ SkipNamespace(n)
      PROVE  AgeInv'
  <2>1. up /\ scan # Waiting /\ scan' # Waiting /\ scan'.time = scan.time
    BY <1>2 DEF ScanNamespace, SkipNamespace, Waiting, TypeOK, AgeInv
  <2>2. UNCHANGED <<up, stored, age, begun, untilTick, reloadDue, tidyDue, tidy, update>>
    BY <1>2 DEF ScanNamespace, SkipNamespace, docVars, tickerVars
  <2>3. QED
    BY <2>1, <2>2, AgeInvQuiet
<1>3. CASE ScanFails \/ EndScan
  BY <1>3, AgeInvQuiet DEF ScanFails, EndScan, docVars, tickerVars
<1>4. ASSUME NEW s \in Services, Upsert(s)
      PROVE  AgeInv'
  <2>1. up /\ UNCHANGED <<up, untilTick, reloadDue, tidyDue, tidy, scan, update>>
    BY <1>4 DEF Upsert, AgeInv, TypeOK, tickerVars
    <2>2. ASSUME NEW t \in stored', begun'[t] < MaxBegun
        PROVE  age'[t] <= Allowed(begun'[t], reloadDue', untilTick')
    <3>1. CASE t = s
      <4>1. age'[t] = 0 /\ begun'[t] = 0
        BY <1>4, <3>1 DEF Upsert, Forget, TypeOK
      <4>2. Allowed(0, reloadDue, untilTick) \in Nat
        BY OneMoreInterval DEF Allowed, TypeOK
      <4>3. QED
        BY <2>1, <4>1, <4>2
    <3>2. CASE t # s
      BY <1>4, <2>1, <2>2, <3>2 DEF Upsert, Forget, TypeOK, AgeInv
    <3>3. QED
      BY <3>1, <3>2
  <2>3. QED
    BY <2>1, <2>2 DEF AgeInv
<1>5. ASSUME NEW s \in Services, UpsertFails(s)
      PROVE  AgeInv'
  BY <1>5, AgeInvQuiet DEF UpsertFails, docVars, tickerVars
<1>6. CASE CountRecent \/ SkipTidy \/ EndTidy
  BY <1>6, AgeInvQuiet DEF CountRecent, SkipTidy, EndTidy, docVars, tickerVars, reloadVars
<1>7. ASSUME NEW s \in Services, RemoveStale(s)
      PROVE  AgeInv'
  BY <1>7, AgeInvQuiet DEF RemoveStale, Forget, tickerVars, reloadVars, TypeOK
<1>8. ASSUME NEW s \in Services, ReadDocument(s)
      PROVE  AgeInv'
  <2>1. UNCHANGED <<up, stored, age, begun, untilTick, reloadDue, tidyDue, tidy, scan, queued>> /\ up
    BY <1>8 DEF ReadDocument, docVars, tickerVars, reloadVars
    <2>2. s \in stored /\ update'.age = age[s] /\ update'.begun = begun[s]
    BY <1>8 DEF ReadDocument
  <2>3. QED
    BY <2>1, <2>2 DEF AgeInv
<1>9. CASE WriteDocument
  <2>1. /\ UNCHANGED <<up, untilTick, reloadDue, tidyDue, tidy, scan, queued>> /\ up
        /\ update # Waiting /\ update' = Waiting
    BY <1>9 DEF WriteDocument, tickerVars, reloadVars, Waiting, AgeInv, TypeOK
    <2>2. ASSUME NEW t \in stored', begun'[t] < MaxBegun
        PROVE  age'[t] <= Allowed(begun'[t], reloadDue', untilTick')
    <3>1. CASE t = update.service
      BY <1>9, <2>1, <2>2, <3>1 DEF WriteDocument, TypeOK, AgeInv
    <3>2. CASE t # update.service
      BY <1>9, <2>1, <2>2, <3>2 DEF WriteDocument, TypeOK, AgeInv
    <3>3. QED
      BY <3>1, <3>2
  <2>3. QED
    BY <2>1, <2>2 DEF AgeInv
<1>10. CASE WriteFails
  BY <1>10, AgeInvQuiet DEF WriteFails, docVars, tickerVars, reloadVars
<1>11. ASSUME NEW s \in Services, Deploy(s) \/ Undeploy(s)
       PROVE  AgeInv'
  BY <1>11, AgeInvQuiet DEF Deploy, Undeploy, docVars, tickerVars, reloadVars
<1>12. ASSUME NEW found \in SUBSET cluster, PostReload(found)
       PROVE  AgeInv'
  BY <1>12, AgeInvQuiet DEF PostReload, docVars, tickerVars
<1>13. CASE Crash
  <2>1. \A s \in stored' : begun'[s] = MaxBegun
    BY <1>13 DEF Crash, TypeOK
  <2>2. QED
    BY <1>13, <2>1 DEF Crash, AgeInv
<1>14. CASE Start
  <2>1. UNCHANGED <<stored, age, begun, untilTick, reloadDue, tidyDue, tidy, scan, update>> /\ up'
    BY <1>14 DEF Start, docVars, tickerVars, reloadVars
    <2>2. QED
    BY <2>1 DEF AgeInv
<1>15. CASE StartOnDroppedDatabase
  <2>1. UNCHANGED <<untilTick, reloadDue, tidyDue, tidy, scan, update>> /\ up' /\ stored' = {}
    BY <1>15 DEF StartOnDroppedDatabase, tickerVars, reloadVars
  <2>2. QED
    BY <2>1 DEF AgeInv
<1>16. CASE Tick
  <2>1. /\ ~reloadDue /\ tidy = Waiting /\ tidy' = Waiting /\ update' = Waiting
        /\ UNCHANGED <<stored, begun, up, queued>>
    BY <1>16 DEF Tick, Settled
  <2>2. ASSUME ~up
        PROVE  AgeInv'
    <3>1. scan' = Waiting /\ queued' = {} /\ UNCHANGED <<untilTick, reloadDue, tidyDue>>
      BY <1>16, <2>1, <2>2 DEF Tick, AgeInv, tickerVars
    <3>2. \A s \in stored' : begun'[s] = MaxBegun
      BY <2>1, <2>2 DEF AgeInv
    <3>3. QED
      BY <2>1, <3>1, <3>2 DEF AgeInv
  <2>3. ASSUME up
        PROVE  AgeInv'
    <3>1. ASSUME NEW n \in Nat
          PROVE  /\ Allowed(n, reloadDue', untilTick') = Allowed(n, reloadDue, untilTick) + 1
                 /\ Allowed(n, reloadDue, untilTick) \in Nat
      <4>1. CASE untilTick > 1
        BY <1>16, <2>1, <2>3, <4>1, OneMoreInterval DEF Tick, Allowed, TypeOK
      <4>2. CASE ~(untilTick > 1)
        BY <1>16, <2>1, <2>3, <4>2, OneMoreInterval DEF Tick, Allowed, TypeOK
      <4>3. QED
        BY <4>1, <4>2
    <3>2. ASSUME NEW s \in stored', begun'[s] < MaxBegun
          PROVE  age'[s] <= Allowed(begun'[s], reloadDue', untilTick')
      <4>1. /\ s \in stored /\ s \in Services /\ begun'[s] = begun[s]
            /\ begun[s] \in Nat /\ age[s] \in Nat
        BY <2>1 DEF TypeOK
      <4>2. age'[s] <= age[s] + 1
        BY <1>16, <4>1 DEF Tick, Most
      <4>3. age[s] <= Allowed(begun[s], reloadDue, untilTick)
        BY <3>2, <4>1 DEF AgeInv
      <4>4. age'[s] \in Nat
        BY <1>0, <4>1 DEF TypeOK
      <4>5. QED
        BY <3>1, <4>1, <4>2, <4>3, <4>4
    <3>3. reloadDue' \/ tidyDue' \/ tidy' # Waiting => untilTick' = ReloadServicesIntervalMins
      BY <1>16, <2>1, <2>3 DEF Tick, Settled
    <3>4. scan' # Waiting => ~reloadDue' /\ scan'.time = ReloadServicesIntervalMins - untilTick'
      <4>1. SUFFICES ASSUME scan # Waiting
                     PROVE  ~reloadDue' /\ scan'.time = ReloadServicesIntervalMins - untilTick'
        BY <1>16 DEF Tick
      <4>2. scan.time = ReloadServicesIntervalMins - untilTick /\ scan.time < ScanTime
        BY <1>16, <4>1 DEF Tick, Settled, AgeInv
      <4>3. untilTick > 1
        BY <4>2 DEF TypeOK
      <4>4. untilTick' = untilTick - 1 /\ reloadDue' = reloadDue /\ scan'.time = scan.time + 1
        BY <1>16, <2>3, <4>1, <4>3 DEF Tick, TypeOK
      <4>5. QED
        BY <2>1, <4>2, <4>4 DEF TypeOK
    <3>5. QED
      BY <2>1, <2>3, <3>2, <3>3, <3>4 DEF AgeInv
  <2>4. QED
    BY <2>2, <2>3
<1>17. CASE UNCHANGED vars
  BY <1>17, AgeInvQuiet DEF vars, docVars, tickerVars, reloadVars
<1>18. QED
  BY <1>1, <1>2, <1>3, <1>4, <1>5, <1>6, <1>7, <1>8, <1>9, <1>10, <1>11, <1>12, <1>13, <1>14,
     <1>15, <1>16, <1>17 DEF Next, Reload, Tidy, Update, Environment

(* Whatever fails, is late or is written back, a document is no older than *)
(* the reloads that began since it was refreshed allow, and a reload ends  *)
(* before the next is due (main.go:148-165).                               *)
THEOREM AgesAreBounded == SafeSpec => []AgeInv
<1>1. SafeSpec => [](TypeOK /\ AgeInv)
  BY TypeOKInit, TypeOKStep, AgeInvInit, AgeInvStep, PTL DEF SafeSpec
<1>2. QED
  BY <1>1, PTL

(* A service that loses its document was missed by two reloads in a row,   *)
(* or by a restart, if the history variable can tell two reloads and one   *)
(* that is running from a restart (repository.go:402, 414).                *)
THEOREM OneMissedReloadIsAlwaysTolerated ==
    ASSUME MaxBegun > 2
    PROVE  SafeSpec => OneMissedReloadIsTolerated
<1>1. TypeOK /\ AgeInv /\ [Next]_vars => [\A s \in stored \ stored' : Missed(s) >= 2]_vars
  <2> SUFFICES ASSUME TypeOK, AgeInv, Next, NEW s \in stored \ stored'
               PROVE  Missed(s) >= 2
    OBVIOUS
  <2>1. s \in Services /\ begun[s] \in Nat /\ age[s] \in Nat
    BY DEF TypeOK
  <2>2. StartOnDroppedDatabase \/ \E t \in Services : RemoveStale(t)
    BY DEF Next, Reload, StartReload, ScanNamespace, SkipNamespace, ScanFails, EndScan, Upsert,
           UpsertFails, Tidy, CountRecent, SkipTidy, EndTidy, Update, ReadDocument, WriteDocument,
           WriteFails, Environment, Deploy, Undeploy, PostReload, Crash, Start, Tick, docVars
  <2>3. begun[s] # MaxBegun => Stale(s) /\ tidy # Waiting
    <3>1. CASE StartOnDroppedDatabase
      BY <3>1 DEF StartOnDroppedDatabase, AgeInv
    <3>2. ASSUME NEW t \in Services, RemoveStale(t)
          PROVE  Stale(s) /\ tidy # Waiting
      BY <3>2 DEF RemoveStale, Waiting
    <3>3. QED
      BY <2>2, <3>1, <3>2
  <2>4. CASE begun[s] = MaxBegun
    BY <2>1, <2>4 DEF Missed
  <2>5. CASE begun[s] # MaxBegun
    <3>1. age[s] <= Allowed(begun[s], reloadDue, untilTick) /\ untilTick = ReloadServicesIntervalMins
      BY <2>1, <2>3, <2>5 DEF AgeInv, TypeOK
    <3>2. age[s] > 2 * ReloadServicesIntervalMins
      BY <2>1, <2>3, <2>5 DEF Stale
    <3>3. CASE reloadDue
      <4>1. (begun[s] + 1) * ReloadServicesIntervalMins > 2 * ReloadServicesIntervalMins
        BY <2>1, <3>1, <3>2, <3>3 DEF Allowed
      <4>2. begun[s] + 1 > 2
        BY <2>1, <4>1
      <4>3. scan = Waiting
        BY <3>3 DEF AgeInv
      <4>4. QED
        BY <2>1, <4>2, <4>3 DEF Missed
    <3>4. CASE ~reloadDue
      <4>1. begun[s] * ReloadServicesIntervalMins > 2 * ReloadServicesIntervalMins
        BY <2>1, <3>1, <3>2, <3>4, OneMoreInterval DEF Allowed
      <4>2. begun[s] > 2
        BY <2>1, <4>1
      <4>3. QED
        BY <2>1, <4>2 DEF Missed
    <3>5. QED
      BY <3>3, <3>4
  <2>6. QED
    BY <2>4, <2>5
<1>2. SafeSpec => [](TypeOK /\ AgeInv)
  BY TypeOKInit, TypeOKStep, AgeInvInit, AgeInvStep, PTL DEF SafeSpec
<1>3. QED
  BY <1>1, <1>2, PTL DEF SafeSpec, OneMissedReloadIsTolerated
=============================================================================
