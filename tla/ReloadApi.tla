----------------------------- MODULE ReloadApi ------------------------------
(***************************************************************************)
(* Who asks for reloads and what becomes of those who ask, up to the end   *)
(* of the process: the handlers of POST /reload (internal/handlers), the   *)
(* goroutine of the ticker and ReloadServiceConfigs, which meet on the     *)
(* unbuffered channel reloadQueue, the HTTP server (internal/httpserver)   *)
(* and graceful (main.go), over the reloads of ConfigReload.               *)
(*                                                                         *)
(* A send on an unbuffered channel ends when its value is received, and    *)
(* waiting senders are served in their order.                              *)
(***************************************************************************)
EXTENDS Integers, Sequences, FiniteSets

CONSTANTS
    DefaultPort, IntWidth, Services, Namespaces, ServiceObjects, NamespaceObjects, ChannelCap,
    Posts,      \* the requests of clients
    Ticks       \* bound: the most requests of the ticker

(* All that is asked for may be taken.                                     *)
Requests == Cardinality(Posts) + Ticks

Ticker == "ticker"

ASSUME TicksAssumption == IsFiniteSet(Posts) /\ Ticks \in Nat
ASSUME PostsAssumption == Ticker \notin Posts

VARIABLES
    cluster, annotated, requests, scan, namespaceChannel, serviceChannel, namespaceUpdater,
    serviceUpdater, namespaces, services, changes, changed, faulty,
    reloadQueue,   \* those that wait to send, Ticker or a post
    post,          \* where the handler of each post is
    up,            \* is the process running?
    takenFor       \* history: who each request was taken from

configVars == <<cluster, annotated, requests, scan, namespaceChannel, serviceChannel,
                namespaceUpdater, serviceUpdater, namespaces, services, changes, changed, faulty>>
apiVars == <<reloadQueue, post, takenFor>>
vars == <<configVars, apiVars, up>>

Config == INSTANCE ConfigReload WITH MayOverlap <- TRUE, MaxChanges <- 0

Init ==
    /\ Config!Init
    /\ reloadQueue = <<>>
    /\ post = [p \in Posts |-> "none"]
    /\ up = TRUE
    /\ takenFor = <<>>

-----------------------------------------------------------------------------
(* The handlers of POST /reload.                                           *)

(* Mutation of Post: the request is answered if nobody is there to take it.*)
PostWithoutWaiting(p) ==
    /\ up
    /\ post[p] = "none"
    /\ post' = [post EXCEPT ![p] = "done"]
    /\ UNCHANGED <<configVars, reloadQueue, up, takenFor>>

Post(p) ==
    /\ up
    /\ post[p] = "none"
    /\ post' = [post EXCEPT ![p] = "waiting"]
    /\ reloadQueue' = Append(reloadQueue, p)
    /\ UNCHANGED <<configVars, up, takenFor>>

-----------------------------------------------------------------------------
(* The goroutine of the ticker.  Of the ticks that find it waiting one is  *)
(* kept in the ticker's channel and the others are dropped.                *)
AskByTicker ==
    /\ up
    /\ \A k \in DOMAIN reloadQueue : reloadQueue[k] # Ticker
    /\ Cardinality({k \in DOMAIN takenFor : takenFor[k] = Ticker}) < Ticks
    /\ reloadQueue' = Append(reloadQueue, Ticker)
    /\ UNCHANGED <<configVars, post, up, takenFor>>

-----------------------------------------------------------------------------
(* ReloadServiceConfigs and the goroutines it starts.                      *)

(* Mutation of TakeRequest: the goroutines of earlier requests are awaited.*)
TakeWhenUpserted ==
    /\ up
    /\ \A r \in 1..requests : serviceUpdater[r] = Config!Returned
    /\ reloadQueue # <<>>
    /\ LET sender == Head(reloadQueue)
       IN /\ takenFor' = Append(takenFor, sender)
          /\ post' = IF sender = Ticker THEN post ELSE [post EXCEPT ![sender] = "done"]
    /\ reloadQueue' = Tail(reloadQueue)
    /\ Config!StartReload
    /\ UNCHANGED up

(* Mutation of TakeRequest: the request is only logged.                    *)
TakeWithoutStart ==
    /\ up
    /\ reloadQueue # <<>>
    /\ LET sender == Head(reloadQueue)
       IN /\ takenFor' = Append(takenFor, sender)
          /\ post' = IF sender = Ticker THEN post ELSE [post EXCEPT ![sender] = "done"]
    /\ reloadQueue' = Tail(reloadQueue)
    /\ UNCHANGED <<configVars, up>>

(* The request is received: its sender goes on.  A handler answers, with an*)
(* identifier of its own and not the one it sent, unless its client has    *)
(* gone or the server's timeout for writing has passed.                    *)
TakeRequest ==
    /\ up
    /\ reloadQueue # <<>>
    /\ LET sender == Head(reloadQueue)
       IN /\ takenFor' = Append(takenFor, sender)
          /\ post' = IF sender = Ticker THEN post ELSE [post EXCEPT ![sender] = "done"]
    /\ reloadQueue' = Tail(reloadQueue)
    /\ Config!StartReload
    /\ UNCHANGED up

ScanStep(r) == up /\ Config!Scan(r) /\ UNCHANGED <<apiVars, up>>

UpsertServicesStep(r) ==
    up /\ Config!UpsertServices(r) /\ UNCHANGED <<apiVars, up>>

UpsertNamespacesStep(r) ==
    up /\ Config!UpsertNamespaces(r) /\ UNCHANGED <<apiVars, up>>

-----------------------------------------------------------------------------
(* On a signal Shutdown returns after ten nanoseconds, with or without an  *)
(* error, and main with it, unless Start finds first that the server is    *)
(* closed, which is fatal: all goroutines end where they are.              *)
End ==
    /\ up
    /\ up' = FALSE
    /\ reloadQueue' = <<>>
    /\ post' = [p \in Posts |-> IF post[p] = "waiting" THEN "cut off" ELSE post[p]]
    /\ scan' = [r \in Config!Reloads |-> IF r \in 1..requests THEN Config!Returned ELSE scan[r]]
    /\ namespaceUpdater' = [r \in Config!Reloads |-> Config!NotStarted]
    /\ serviceUpdater' = [r \in Config!Reloads |-> Config!NotStarted]
    /\ namespaceChannel' = <<>> /\ serviceChannel' = <<>>
    /\ UNCHANGED <<cluster, annotated, requests, namespaces, services, changes, changed, faulty,
                   takenFor>>

Next ==
    \/ \E p \in Posts : Post(p)
    \/ AskByTicker \/ TakeRequest
    \/ \E r \in Config!Reloads : ScanStep(r) \/ UpsertServicesStep(r) \/ UpsertNamespacesStep(r)
    \/ End

(* While a goroutine can go on one does: calls of the API server and of the*)
(* database return, with an error or without.  Nobody has to ask for a     *)
(* reload, and no signal has to come.                                      *)
Work ==
    \/ TakeRequest
    \/ \E r \in Config!Reloads : ScanStep(r) \/ UpsertServicesStep(r) \/ UpsertNamespacesStep(r)

Fairness == WF_vars(Work)

Spec == Init /\ [][Next]_vars /\ Fairness
-----------------------------------------------------------------------------
(* Properties.                                                             *)

(* Every variable holds values of the program's types.                     *)
TypeOK ==
    /\ reloadQueue \in Seq(Posts \cup {Ticker})
    /\ post \in [Posts -> {"none", "waiting", "done", "cut off"}]
    /\ up \in BOOLEAN
    /\ takenFor \in [1..requests -> Posts \cup {Ticker}]

(* A client that is told its request was received has a reload of its own: *)
(* it began after the client asked, and belongs neither to another client  *)
(* nor to the ticker (handlers.go:33-35).                                  *)
AnsweredPostsHaveReloads ==
    \A p \in Posts :
        post[p] = "done" =>
            \E r \in 1..requests : /\ scan[r] # Config!NotStarted
                                   /\ {q \in 1..requests : takenFor[q] = p} = {r}

(* A client is answered whatever reloads are at work or stuck, unless it   *)
(* has gone or the process ends, which cuts off those still waiting        *)
(* (discovery.go:51-76, main.go:250-267).                                  *)
PostsAreAnswered == \A p \in Posts : []<>(post[p] # "waiting" \/ ~up)

(* A scan never waits for ever in a full channel, unless upserts failed    *)
(* and with them every goroutine that empties the channel ended            *)
(* (discovery.go:215, 260, repository.go:74-78).                           *)
ScansEnd ==
    \A r \in Config!Reloads :
        []<>(\/ scan[r] \in {Config!NotStarted, Config!Returned}
             \/ Config!Stuck(namespaceUpdater) \/ Config!Stuck(serviceUpdater)
             \/ ~up)
=============================================================================
