-------------------------- MODULE ReloadApiProofs ---------------------------
(***************************************************************************)
(* Proofs about ReloadApi, for any clients, any number of ticks and every  *)
(* cluster.                                                                *)
(***************************************************************************)
EXTENDS ReloadApi, FiniteSetTheorems, SequenceTheorems, TLAPS

USE TicksAssumption, PostsAssumption

(* Every request that was taken has a scan.                                *)
RequestsAreScanned ==
    /\ requests \in 0..Requests /\ DOMAIN scan = Config!Reloads
    /\ \A r \in 1..requests : scan[r] # Config!NotStarted

Waiting == "waiting"
Done == "done"
PostStates == {"none", "waiting", "done", "cut off"}

(* Whoever is in the queue waits and is in it once; a client from whom a   *)
(* request was taken is answered, had none taken before, and no other is   *)
(* answered.                                                               *)
PostsAreServedOnce ==
    /\ \A k \in DOMAIN reloadQueue : reloadQueue[k] # Ticker => post[reloadQueue[k]] = Waiting
    /\ \A j, k \in DOMAIN reloadQueue : reloadQueue[j] = reloadQueue[k] => j = k
    /\ \A r \in 1..requests : takenFor[r] # Ticker => post[takenFor[r]] = Done
    /\ \A q, r \in 1..requests : takenFor[q] # Ticker /\ takenFor[q] = takenFor[r] => q = r
    /\ \A p \in Posts : post[p] = Done => \E r \in 1..requests : takenFor[r] = p

ApiInv == RequestsAreScanned /\ PostsAreServedOnce

-----------------------------------------------------------------------------
(* What the steps of ConfigReload do to the requests and their scans.      *)

LEMMA RequestsAreBounded == Requests \in Nat
BY FS_CardinalityType DEF Requests

(* A scan at work is one that was started, and no step undoes that.        *)
LEMMA ScansGoOn ==
    ASSUME RequestsAreScanned, NEW r \in Config!Reloads,
           Config!Scan(r) \/ Config!UpsertServices(r) \/ Config!UpsertNamespaces(r)
    PROVE  RequestsAreScanned' /\ requests' = requests
<1>1. CASE Config!Scan(r)
  <2>1. \E x : scan' = [scan EXCEPT ![r] = x] /\ x.step # "none"
    BY <1>1 DEF Config!Scan, Config!ListNamespaces, Config!SendNamespace, Config!ListServices,
       Config!ListDeployments, Config!ListDeploymentsFails, Config!SendService,
       Config!NextNamespace, Config!EndScan, Config!ScanFails, Config!Returned
  <2>2. requests' = requests
    BY <1>1 DEF Config!Scan, Config!ListNamespaces, Config!SendNamespace, Config!ListServices,
       Config!ListDeployments, Config!ListDeploymentsFails, Config!SendService,
       Config!NextNamespace, Config!EndScan, Config!ScanFails, Config!storeVars
  <2>3. QED
    BY <2>1, <2>2 DEF RequestsAreScanned, Config!NotStarted
<1>2. CASE Config!UpsertServices(r) \/ Config!UpsertNamespaces(r)
  <2>1. UNCHANGED <<requests, scan>>
    BY <1>2 DEF Config!UpsertServices, Config!ReceiveService, Config!ReplaceService,
       Config!InsertService, Config!UpsertServiceFails, Config!UpsertNamespaces,
       Config!ReceiveNamespace, Config!ReplaceNamespace, Config!InsertNamespace,
       Config!UpsertNamespaceFails, Config!scanVars
  <2>2. QED
    BY <2>1 DEF RequestsAreScanned
<1>3. QED
  BY <1>1, <1>2

LEMMA StartedIsScanned ==
    ASSUME RequestsAreScanned, Config!StartReload
    PROVE  RequestsAreScanned' /\ requests' = requests + 1
<1>1. /\ requests \in Nat /\ requests < Requests /\ requests' = requests + 1
      /\ scan' = [scan EXCEPT ![requests + 1] = [step |-> "list"]]
      /\ DOMAIN scan = 1..Requests
  BY RequestsAreBounded DEF RequestsAreScanned, Config!StartReload, Config!Reloads
<1>2. \A r \in 1..(requests + 1) : scan'[r] # Config!NotStarted
  BY <1>1, RequestsAreBounded DEF RequestsAreScanned, Config!NotStarted
<1>3. QED
  BY <1>1, <1>2, RequestsAreBounded DEF RequestsAreScanned, Config!Reloads

LEMMA EndedAreScanned == RequestsAreScanned /\ End => RequestsAreScanned'
<1> SUFFICES ASSUME RequestsAreScanned, End PROVE RequestsAreScanned'
  OBVIOUS
<1>1. /\ scan' = [r \in Config!Reloads |-> IF r \in 1..requests THEN Config!Returned ELSE scan[r]]
      /\ requests' = requests
  BY DEF End
<1>2. 1..requests \subseteq Config!Reloads
  BY RequestsAreBounded DEF RequestsAreScanned, Config!Reloads
<1>3. QED
  BY <1>1, <1>2 DEF RequestsAreScanned, Config!NotStarted, Config!Returned

-----------------------------------------------------------------------------
(* The queue and the requests taken are sequences.                         *)

(* Somebody new at the end of a queue.                                     *)
LEMMA Queued ==
    ASSUME NEW T, NEW queue \in Seq(T), NEW x \in T
    PROVE  /\ \A k \in DOMAIN queue : queue[k] \in T
           /\ Append(queue, x) \in Seq(T)
           /\ DOMAIN Append(queue, x) = DOMAIN queue \cup {Len(queue) + 1}
           /\ Append(queue, x)[Len(queue) + 1] = x
           /\ \A k \in DOMAIN queue : Append(queue, x)[k] = queue[k] /\ k # Len(queue) + 1
OBVIOUS

(* Those behind the first move up.                                         *)
LEMMA MovedUp ==
    ASSUME NEW T, NEW queue \in Seq(T), queue # <<>>
    PROVE  /\ Tail(queue) \in Seq(T) /\ 1 \in DOMAIN queue /\ Head(queue) = queue[1] /\ Head(queue) \in T
           /\ \A k \in DOMAIN Tail(queue) :
                 k + 1 \in DOMAIN queue /\ k + 1 # 1 /\ Tail(queue)[k] = queue[k + 1]
           /\ \A j, k \in DOMAIN Tail(queue) : j + 1 = k + 1 => j = k
OBVIOUS

LEMMA TakenInOrder ==
    ASSUME NEW T, NEW n \in Nat, NEW taken \in [1..n -> T], NEW x \in T
    PROVE  /\ Append(taken, x) \in [1..(n + 1) -> T]
           /\ Append(taken, x)[n + 1] = x
           /\ \A k \in 1..n : Append(taken, x)[k] = taken[k] /\ k # n + 1
           /\ 1..(n + 1) = 1..n \cup {n + 1}
<1>1. taken \in Seq(T) /\ Len(taken) = n
  OBVIOUS
<1>2. /\ Append(taken, x) \in Seq(T) /\ Len(Append(taken, x)) = n + 1
      /\ Append(taken, x)[n + 1] = x
      /\ \A k \in 1..n : Append(taken, x)[k] = taken[k]
  BY <1>1
<1>3. Append(taken, x) \in [1..(n + 1) -> T]
  BY <1>2, LenProperties
<1>4. \A k \in 1..n : k # n + 1
  OBVIOUS
<1>5. 1..(n + 1) = 1..n \cup {n + 1}
  OBVIOUS
<1>6. QED
  BY <1>2, <1>3, <1>4, <1>5

-----------------------------------------------------------------------------
(* The steps of those who ask.                                             *)

LEMMA ApiInvInit == Init => TypeOK /\ ApiInv
<1> SUFFICES ASSUME Init PROVE TypeOK /\ ApiInv
  OBVIOUS
<1>1. /\ requests = 0 /\ scan = [r \in Config!Reloads |-> Config!NotStarted]
      /\ reloadQueue = <<>> /\ post = [p \in Posts |-> "none"] /\ up = TRUE /\ takenFor = <<>>
  BY DEF Init, Config!Init
<1>2. takenFor \in [1..requests -> Posts \cup {Ticker}]
  BY <1>1
<1>3. post \in [Posts -> PostStates] /\ \A p \in Posts : post[p] # Done
  BY <1>1 DEF PostStates, Done
<1>4. TypeOK
  BY <1>1, <1>2, <1>3 DEF TypeOK, PostStates
<1>5. QED
  BY <1>1, <1>3, <1>4, RequestsAreBounded DEF ApiInv, RequestsAreScanned, PostsAreServedOnce

LEMMA PostQueues ==
    ASSUME TypeOK, PostsAreServedOnce, NEW p \in Posts, Post(p)
    PROVE  TypeOK' /\ PostsAreServedOnce'
<1>1. /\ reloadQueue \in Seq(Posts \cup {Ticker}) /\ p \in Posts \cup {Ticker} /\ p # Ticker
      /\ reloadQueue' = Append(reloadQueue, p) /\ UNCHANGED <<requests, takenFor, up>>
  BY DEF TypeOK, Post, configVars
<1>2. /\ post[p] # Done /\ post[p] # Waiting /\ Waiting # Done /\ post'[p] = Waiting /\ \A q \in Posts : q # p => post'[q] = post[q]
      /\ post' \in [Posts -> PostStates]
  BY DEF TypeOK, Post, PostStates, Waiting, Done
<1>3. TypeOK'
  <2>1. reloadQueue' \in Seq(Posts \cup {Ticker})
    BY <1>1, Queued
  <2>2. QED
    BY <1>1, <1>2, <2>1 DEF TypeOK, PostStates
<1>4. \A k \in DOMAIN reloadQueue :
         reloadQueue[k] \in Posts \cup {Ticker} /\ reloadQueue[k] # p
  <2>1. \A k \in DOMAIN reloadQueue : reloadQueue[k] \in Posts \cup {Ticker}
    BY <1>1, Queued
  <2>2. QED
    BY <1>1, <1>2, <2>1 DEF PostsAreServedOnce
<1>5. /\ DOMAIN reloadQueue' = DOMAIN reloadQueue \cup {Len(reloadQueue) + 1}
      /\ reloadQueue'[Len(reloadQueue) + 1] = p
      /\ \A k \in DOMAIN reloadQueue : reloadQueue'[k] = reloadQueue[k] /\ k # Len(reloadQueue) + 1
  BY <1>1, Queued
<1>6. \A k \in DOMAIN reloadQueue' : reloadQueue'[k] # Ticker => post'[reloadQueue'[k]] = Waiting
  BY <1>2, <1>4, <1>5 DEF PostsAreServedOnce
<1>7. \A j, k \in DOMAIN reloadQueue' : reloadQueue'[j] = reloadQueue'[k] => j = k
  BY <1>4, <1>5 DEF PostsAreServedOnce
<1>8. \A r \in 1..requests : takenFor[r] # Ticker => takenFor[r] \in Posts
  BY DEF TypeOK
<1>9. \A r \in 1..requests : takenFor[r] # p
  BY <1>1, <1>2 DEF PostsAreServedOnce
<1>10. /\ \A r \in 1..requests : takenFor[r] # Ticker => post'[takenFor[r]] = Done
       /\ \A q \in Posts : post'[q] = Done => \E r \in 1..requests : takenFor[r] = q
  BY <1>2, <1>8, <1>9 DEF PostsAreServedOnce
<1>11. \A q, r \in 1..requests : takenFor[q] # Ticker /\ takenFor[q] = takenFor[r] => q = r
  BY DEF PostsAreServedOnce
<1>12. QED
  BY <1>1, <1>3, <1>6, <1>7, <1>10, <1>11 DEF PostsAreServedOnce

LEMMA TickerQueues ==
    ASSUME TypeOK, PostsAreServedOnce, AskByTicker
    PROVE  TypeOK' /\ PostsAreServedOnce'
<1>1. /\ reloadQueue \in Seq(Posts \cup {Ticker}) /\ Ticker \in Posts \cup {Ticker}
      /\ \A k \in DOMAIN reloadQueue : reloadQueue[k] # Ticker
      /\ reloadQueue' = Append(reloadQueue, Ticker) /\ UNCHANGED <<requests, takenFor, up, post>>
  BY DEF TypeOK, AskByTicker, configVars
<1>2. TypeOK'
  BY <1>1, Queued DEF TypeOK
<1>3. /\ \A k \in DOMAIN reloadQueue' : reloadQueue'[k] # Ticker => post'[reloadQueue'[k]] = Waiting
      /\ \A j, k \in DOMAIN reloadQueue' : reloadQueue'[j] = reloadQueue'[k] => j = k
  BY <1>1, Queued DEF PostsAreServedOnce
<1>4. QED
  BY <1>1, <1>2, <1>3 DEF PostsAreServedOnce

(* The first of the queue is the only one of its name, and no request was  *)
(* taken from it before.                                                   *)
LEMMA TakeServes ==
    ASSUME TypeOK, ApiInv, TakeRequest
    PROVE  TypeOK' /\ ApiInv'
<1> DEFINE sender == Head(reloadQueue)
           T == Posts \cup {Ticker}
<1>1. /\ reloadQueue \in Seq(T) /\ reloadQueue # <<>> /\ reloadQueue' = Tail(reloadQueue)
      /\ takenFor' = Append(takenFor, sender) /\ UNCHANGED up
  BY DEF TypeOK, TakeRequest
<1>2. /\ RequestsAreScanned' /\ requests' = requests + 1 /\ requests \in Nat
      /\ takenFor \in [1..requests -> T]
  <2>1. RequestsAreScanned /\ Config!StartReload
    BY DEF ApiInv, TakeRequest
  <2>2. requests \in Nat
    BY <2>1, RequestsAreBounded DEF RequestsAreScanned
  <2>3. takenFor \in [1..requests -> T]
    BY DEF TypeOK
  <2>4. QED
    BY <2>1, <2>2, <2>3, StartedIsScanned
<1>3. /\ sender \in T /\ Tail(reloadQueue) \in Seq(T) /\ sender = reloadQueue[1] /\ 1 \in DOMAIN reloadQueue
      /\ \A k \in DOMAIN Tail(reloadQueue) :
            k + 1 \in DOMAIN reloadQueue /\ k + 1 # 1 /\ Tail(reloadQueue)[k] = reloadQueue[k + 1]
      /\ \A j, k \in DOMAIN Tail(reloadQueue) : j + 1 = k + 1 => j = k
  BY <1>1, MovedUp
<1>4. /\ post \in [Posts -> PostStates]
      /\ post' = IF sender = Ticker THEN post ELSE [post EXCEPT ![sender] = Done]
  BY DEF TypeOK, TakeRequest, PostStates, Done
<1> HIDE DEF sender
<1>5. /\ takenFor' \in [1..requests' -> T] /\ takenFor'[requests'] = sender
      /\ 1..requests' = 1..requests \cup {requests'}
      /\ \A k \in 1..requests : takenFor'[k] = takenFor[k] /\ k # requests'
  <2>1. /\ Append(takenFor, sender) \in [1..(requests + 1) -> T]
        /\ Append(takenFor, sender)[requests + 1] = sender
        /\ \A k \in 1..requests : Append(takenFor, sender)[k] = takenFor[k] /\ k # requests + 1
        /\ 1..(requests + 1) = 1..requests \cup {requests + 1}
    <3> HIDE DEF T
    <3>1. requests \in Nat /\ takenFor \in [1..requests -> T] /\ sender \in T
      BY <1>2, <1>3
    <3>2. QED
      BY <3>1, TakenInOrder
  <2>2. QED
    BY <1>1, <1>2, <2>1
<1>6. /\ post' \in [Posts -> PostStates]
      /\ \A p \in Posts : p # sender => post'[p] = post[p]
      /\ sender # Ticker => sender \in Posts /\ post[sender] = Waiting /\ post'[sender] = Done
  <2>1. Done \in PostStates
    BY DEF Done, PostStates
  <2>2. QED
    BY <1>4, <1>1, <1>3, <2>1 DEF ApiInv, PostsAreServedOnce
<1>7. TypeOK'
  <2>1. up' \in BOOLEAN
    BY <1>1 DEF TypeOK
  <2>2. QED
    BY <1>1, <1>3, <1>5, <1>6, <2>1 DEF TypeOK, PostStates
<1>8. ASSUME NEW k \in DOMAIN Tail(reloadQueue)
      PROVE  /\ Tail(reloadQueue)[k] # sender
             /\ Tail(reloadQueue)[k] # Ticker => post[Tail(reloadQueue)[k]] = Waiting
             /\ Tail(reloadQueue)[k] \in T
  BY <1>1, <1>3 DEF ApiInv, PostsAreServedOnce
<1>9. \A k \in DOMAIN reloadQueue' : reloadQueue'[k] # Ticker => post'[reloadQueue'[k]] = Waiting
  BY <1>1, <1>6, <1>8
<1>10. \A j, k \in DOMAIN reloadQueue' : reloadQueue'[j] = reloadQueue'[k] => j = k
  BY <1>1, <1>3 DEF ApiInv, PostsAreServedOnce
<1>11. \A r \in 1..requests : takenFor[r] # Ticker => takenFor[r] # sender /\ post[takenFor[r]] = Done
  <2>1. Waiting # Done
    BY DEF Waiting, Done
  <2>2. QED
    BY <1>6, <2>1 DEF ApiInv, PostsAreServedOnce
<1>12. \A r \in 1..requests' : takenFor'[r] # Ticker => post'[takenFor'[r]] = Done
  <2>1. \A r \in 1..requests : takenFor[r] \in T
    BY <1>2
  <2>2. QED
    BY <1>5, <1>6, <1>11, <2>1
<1>13. \A q, r \in 1..requests' : takenFor'[q] # Ticker /\ takenFor'[q] = takenFor'[r] => q = r
  BY <1>5, <1>11 DEF ApiInv, PostsAreServedOnce
<1>14. \A p \in Posts : post'[p] = Done => \E r \in 1..requests' : takenFor'[r] = p
  <2>1. ASSUME NEW p \in Posts, post'[p] = Done, p # sender
        PROVE  \E r \in 1..requests' : takenFor'[r] = p
    <3>1. PICK r \in 1..requests : takenFor[r] = p
      BY <1>6, <2>1 DEF ApiInv, PostsAreServedOnce
    <3>2. QED
      BY <1>5, <3>1
  <2>2. \E r \in 1..requests' : takenFor'[r] = sender
    BY <1>5
  <2>3. QED
    BY <2>1, <2>2
<1>15. QED
  BY <1>2, <1>7, <1>9, <1>10, <1>12, <1>13, <1>14 DEF ApiInv, PostsAreServedOnce

LEMMA EndServes ==
    ASSUME TypeOK, PostsAreServedOnce, End
    PROVE  TypeOK' /\ PostsAreServedOnce'
<1>1. /\ UNCHANGED <<requests, takenFor>>
      /\ post' = [p \in Posts |-> IF post[p] = "waiting" THEN "cut off" ELSE post[p]]
  BY DEF End
<1>2. reloadQueue' = <<>>
  BY DEF End
<1>3. TypeOK'
  <2>1. up' \in BOOLEAN
    BY DEF End
  <2>2. reloadQueue' \in Seq(Posts \cup {Ticker})
    BY <1>2
  <2>3. takenFor' \in [1..requests' -> Posts \cup {Ticker}]
    BY <1>1 DEF TypeOK
  <2>4. post' \in [Posts -> PostStates]
    BY <1>1 DEF TypeOK, PostStates
  <2>5. QED
    BY <2>1, <2>2, <2>3, <2>4 DEF TypeOK, PostStates
<1>4. \A p \in Posts : post'[p] = Done <=> post[p] = Done
  BY <1>1 DEF Done
<1>5. \A r \in 1..requests : takenFor[r] # Ticker => takenFor[r] \in Posts
  BY DEF TypeOK
<1>6. \A r \in 1..requests : takenFor[r] # Ticker => post'[takenFor[r]] = Done
  BY <1>4, <1>5 DEF PostsAreServedOnce
<1>7. \A p \in Posts : post'[p] = Done => \E r \in 1..requests : takenFor[r] = p
  BY <1>4 DEF PostsAreServedOnce
<1>8. DOMAIN reloadQueue' = {}
  BY <1>2
<1>9. \A q, r \in 1..requests : takenFor[q] # Ticker /\ takenFor[q] = takenFor[r] => q = r
  BY DEF PostsAreServedOnce
<1>10. QED
  BY <1>1, <1>3, <1>6, <1>7, <1>8, <1>9 DEF PostsAreServedOnce

LEMMA ApiInvStep == TypeOK /\ ApiInv /\ [Next]_vars => TypeOK' /\ ApiInv'
<1> SUFFICES ASSUME TypeOK, ApiInv, [Next]_vars PROVE TypeOK' /\ ApiInv'
  OBVIOUS
<1>1. RequestsAreScanned /\ PostsAreServedOnce
  BY DEF ApiInv
<1>2. ASSUME UNCHANGED <<requests, scan>>
      PROVE  RequestsAreScanned'
  BY <1>1, <1>2 DEF RequestsAreScanned
<1>3. ASSUME NEW p \in Posts, Post(p)
      PROVE  TypeOK' /\ ApiInv'
  BY <1>1, <1>2, <1>3, PostQueues DEF ApiInv, Post, configVars
<1>4. CASE AskByTicker
  BY <1>1, <1>2, <1>4, TickerQueues DEF ApiInv, AskByTicker, configVars
<1>5. CASE TakeRequest
  BY <1>5, TakeServes
<1>6. ASSUME NEW r \in Config!Reloads, ScanStep(r) \/ UpsertServicesStep(r) \/ UpsertNamespacesStep(r)
      PROVE  TypeOK' /\ ApiInv'
  <2>1. RequestsAreScanned' /\ requests' = requests
    BY <1>1, <1>6, ScansGoOn DEF ScanStep, UpsertServicesStep, UpsertNamespacesStep
  <2>2. UNCHANGED <<reloadQueue, post, takenFor, up>>
    BY <1>6 DEF ScanStep, UpsertServicesStep, UpsertNamespacesStep, apiVars
  <2>3. QED
    BY <1>1, <2>1, <2>2 DEF TypeOK, ApiInv, PostsAreServedOnce
<1>7. CASE End
  BY <1>1, <1>7, EndServes, EndedAreScanned DEF ApiInv
<1>8. CASE UNCHANGED vars
  BY <1>1, <1>2, <1>8 DEF vars, configVars, apiVars, TypeOK, ApiInv, PostsAreServedOnce
<1>9. QED
  BY <1>3, <1>4, <1>5, <1>6, <1>7, <1>8 DEF Next

LEMMA ApiInvHolds == Spec => [](TypeOK /\ ApiInv)
BY ApiInvInit, ApiInvStep, PTL DEF Spec

(* TypeOK: the queue, the handlers and the requests taken keep their types *)
(* (discovery.go:51-62, handlers.go:23-37).                                *)
THEOREM TypeCorrect == Spec => []TypeOK
BY ApiInvHolds, PTL

(* AnsweredPostsHaveReloads: whatever order clients, ticker, reloads and   *)
(* the end of the process come in, a client is told that its reload was    *)
(* received only if one was taken from it, once, and its scan begun        *)
(* (handlers.go:33-35, discovery.go:51-62).                                *)
THEOREM EveryAnswerHasItsReload == Spec => []AnsweredPostsHaveReloads
<1>1. ASSUME TypeOK, ApiInv, NEW p \in Posts, post[p] = Done
      PROVE  \E r \in 1..requests : /\ scan[r] # Config!NotStarted
                                    /\ {q \in 1..requests : takenFor[q] = p} = {r}
  <2>1. PICK r \in 1..requests : takenFor[r] = p
    BY <1>1 DEF ApiInv, PostsAreServedOnce
  <2>2. \A q \in 1..requests : takenFor[q] = p => q = r
    BY <1>1, <2>1 DEF ApiInv, PostsAreServedOnce
  <2>3. scan[r] # Config!NotStarted
    BY <1>1 DEF ApiInv, RequestsAreScanned
  <2>4. QED
    BY <2>1, <2>2, <2>3
<1>2. TypeOK /\ ApiInv => AnsweredPostsHaveReloads
  BY <1>1 DEF AnsweredPostsHaveReloads, Done
<1>3. QED
  BY <1>2, ApiInvHolds, PTL
=============================================================================
