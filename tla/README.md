# health-aggregator in TLA+

A verification project for [health-aggregator](https://github.com/utilitywarehouse/health-aggregator), which scrapes
the `/__/health` endpoints of the pods behind Kubernetes services and keeps the results in MongoDB. The modules here
are translated from the Go source; TLC checks them on small instances, and TLAPS proves every safety property that TLC
checks for every value of the constants (section 3). `PROJECT.json` lists the runs, the theorems, the hazards, the source lines of every
definition, and for every property of a passing run a mutation of the model that breaks it (the definitions marked
"Mutation of ..." in the modules; nothing else uses them).

Paths below are those of the repository; `repository.go` is `internal/db/repository.go`, `checks.go` is
`internal/checks/checks.go`, `discovery.go` is `internal/discovery/discovery.go`.

## 1. The system

One process, many goroutines, wired in `main.go`. The state that matters is in three MongoDB collections, in channels,
and in one map.

| component | state | operations | module |
|---|---|---|---|
| pod health aggregation (`checks.go:120-276`) | none | answer of a pod -> response; responses -> state and message | `PodAggregation` |
| health checker (`checks.go:55-178`) | 100 readers, gauge of checks in flight | take a service, list its pods, scrape each, send a status | `HealthChecker` |
| check history (`repository.go:214-262, 382-392, 456-466`) | collection `checks` | look up the latest check, insert the next; delete old ones | `CheckHistory` |
| scrape scheduling (`main.go:169-204`, `repository.go:311-327, 433-454`) | channels `servicesToScrape`, `statusResponses`, `errs`; gauge of queued services | every 60 s find the services and queue them | `ScrapePipeline`, `CheckJobs` |
| discovery and reload (`discovery.go:49-77, 188-360`, `repository.go:64-80, 97-112`) | collections `services`, `namespaces`; channels `Services`, `Namespaces` | scan the cluster, upsert what was found | `ConfigReload`, `HealthAnnotations`, `NamespaceReload`, `ReloadRefinement` |
| service documents (`repository.go`, all writers) | one service's document | reload, deployment update, deletion, drop; the query that scrapes | `ServiceDocuments` |
| removal of stale services (`repository.go:394-426, 468-480`, `main.go:148-165`) | `updatedAt` of the services | every 60 min delete the services not reloaded | `StaleServices` |
| deployment watching (`discovery.go:79-163`, `repository.go:82-95, 114-212`) | map `ServicesState`; channels `K8sWatchEvents`, `UpdatesQueue` | compare events with the map, forward, write replicas | `DeploymentSync` |
| HTTP API (`handlers.go`, `httpserver.go`) | unbuffered channel `reloadQueue` | POST /reload | `ReloadApi` |
| process (`main.go`) | everything in memory | start, graceful end, crash | `ReloadApi` (end), `ServiceDocuments`, `StaleServices` (start, drop, crash), `Restart`/`Crash` actions of the others, which may drop the database as well where they model a collection |
| queries (`repository.go:277-380`) | none | finders, of the scheduler and for other programs | `Queries`, two in `ConfigReload` |
| session wrapper, collectors, clients, test helpers | none, or written only | | not modelled (but for the two gauges above) |

How they interact:

    scheduler --servicesToScrape--> readers --statusResponses--> inserter --> checks <-- tidy
        |                                                                        (all but the inserter send to errs)
        v reads
     services <--upsert-- updaters <--Services-- scan <-- reloadQueue <-- ticker, POST /reload
        ^  ^  `---delete stale--- service tidy
        |  `---read, write back--- DoUpdates <--UpdatesQueue-- UpdateDeployments <--K8sWatchEvents-- watcher (ServicesState)
        `---loaded once into ServicesState

What is hard about it:

* results are out of order: a hundred readers report when they are done, and the inserter bases a check's history on
  the check with the latest time;
* read, then write: the inserter (lookup, insert), the deployment updater (whole document read, whole document written)
  and an upsert without a unique index (nothing found, insert) are each two steps with others at work in between;
* copies age: a reload holds replicas it listed a while ago, `ServicesState` is loaded once and never again, the
  goroutines that upsert for one reload live on and take part in the next;
* every failure is logged and passed over; what then happens to the data depends on where it struck;
* a panic or `log.Fatal` in any goroutine ends the process and all that its channels hold.

The hazards, with lines and the properties aimed at each, are in `PROJECT.json` under `hazards`.

## 2. Modules and runs

A run is a `.cfg` on an `MC...` module, which extends the specification and supplies sets too large for a `.cfg`.
State counts are distinct states. All runs switch off deadlock checking: their bounds on changes, rounds or time make
the system stop, and most of it may stop for good reason (nobody has to ask for a reload).

### PodAggregation, HealthChecker

A pod's answer is one of eleven kinds: five ways for the request to fail, five texts of `health` (one of them `Healthy`
in another case), and the JSON value `null`. `HealthChecker` has one action per step of a reader that others can
interleave with: `TakeService`, `ListPods`/`ListPodsFails`, `ScrapePod` per pod, `Report`, `PanicOnNullBody`. `Report`
stands for all arms of the switch, five of the six ways out of the loop body: a lack in one arm alone is not told from
one in all. The other ends of the three channels are environment actions; `LoseMemory` is the
end of the process, and it keeps the clock.

* `checker` (`MCHealthChecker.cfg`): two readers, 0 or 2 desired replicas, up to 2 pods, five kinds of answers, one tick
  of the clock. The other failures take the path of `unreachable`; the other texts of a body are left to the assumption
  `VerdictOnBoundedAnswers` of `MCScrapePipeline`, which compares the verdict on all ten kinds of answers of up to three
  pods with the table, and to the theorem. Readers share nothing but channels and gauge, so two show all they can do
  to each other: one fails, or panics, or waits in a full channel while the other works. Two pods and 0 or 2 replicas
  give fewer, as many and more pods than desired, with every pair of answers. `VerdictMatchesAnswers` compares the
  switch with a table over the set of answers, `HealthyPodsMatchPodChecks` the count with the list,
  `InFlightCountsBusyReaders` the gauge with the readers, on every way out of the loop body; `NeverBothMessages` says
  that the first arm of the switch is dead. 3.2 million states.
* `unhealthy_pods` shows a disagreement, see section 5.

### CheckHistory

The collection of checks and its two users. `Receive`, `Lookup`/`LookupFails`, `Insert`/`InsertFails` are the inserter;
`StartTidy`, `RemoveOne`, `EndTidy` the deletion, document by document, since MongoDB's multi-document removal is not
atomic. Statuses arrive with any check time up to now. `Restart` is a start of the process, on the checks there are or,
with `MONGO_DROP_DB`, on a dropped database (`main.go:231-248`). `inserted` and `disturbed` are history variables: every
check inserted since the database was last dropped, and the services whose statuses came out of order or whose lookup
failed since.

* `history` (`MCCheckHistory.cfg`): two services of one name in two namespaces, two states, three checks, retention 1 of
  3 units of time. Three checks are the fewest with a run of two and a change; two services of one name are what the
  query's namespace is for. `PreviousStateDiffers`, `StateSinceIsARealCheck` and `LatestStateSinceNotInFuture` hold
  whatever fails; `RunsAreExact` is what an observer expects, and holds for services that are not disturbed.
  `KeptChecksAreStored`: of the checks inserted none that is younger than the retention is missing, whatever the deletion
  and a restart in the middle of it do, unless the database is dropped. `HistoryInv` is the inductive invariant of the
  proofs. 2.5 million states.

One thing looks like a property and is not: an older check that arrives late may be stored with a `stateSince` later
than its own time. It is never the latest check, hence `Latest...` in the name of the invariant.

### Queries

The finders of `repository.go` as operators over a collection given as a set of documents. Where documents have the same
time MongoDB may return either first: such a finder is the set of its possible answers. The scheduler's query is used by
`ScrapePipeline` and `ServiceDocuments`, the two queries of checks by an invariant of `ScrapePipeline`. The finders of
namespaces and of a namespace's services are in `ConfigReload`, whose collections are sequences, duplicates and all.

### CheckJobs, ScrapePipeline

`ScrapePipeline` composes `HealthChecker` and `CheckHistory` by `INSTANCE` over shared variables and adds the scheduler:
`StartRound` (the query, over documents that hold anything), `FindFails`, `Enqueue`, `EndRound`, and the gauge of queued
services. A crash takes all of memory, and the start after it may drop the checks; `recorded`, the copies of services
that checks were ever inserted for, is what `CheckJobs` sees of them, as a job that is done stays done. `CheckJobs` is what a user may expect: a job leaves by being recorded once or by
being given up, and does not wait for ever.

* `pipeline` (`MCScrapePipeline.cfg`): two readers, one service, two rounds, all channels of capacity 1. With two jobs
  the scheduler waits for a reader while the first job is queued, and a reader for the inserter while the first status
  is: every channel is full in some states. `ImplementsJobs` is `CheckJobs!Spec`, liveness included, with the pending
  jobs mapped to all places a job can be in. `ImplementsChecker` and `ImplementsHistory` say that the environments
  assumed by the two modules, and with them the theorems about the two, are those of the whole program.
  `LatestChecksAreLatest`: the overview of a namespace (`FindLatestChecksForNamespace`, which filters checks by the copy
  of the service they carry) and a service's own list (`FindAllChecksForService`) agree on its latest check, because
  with a list of namespaces no copy without replicas is ever queued; replicas of 0 and 1 are what it takes to break.
  `GaugeCoversQueue`: between rounds the gauge may be too high, never too low. 45,590 states.

Fairness: weak fairness of the scheduler within a round, of each reader and of the inserter. A goroutine that can run
is run by Go's scheduler; a scrape ends because the client has a timeout of 10 s (`checks.go:26`), a database operation
because the driver's sockets have one. Nothing is assumed of ticks, of the tidy, or of the success of anything.

### HealthAnnotations, ConfigReload

`HealthAnnotations` is the pure part of discovery: annotations, their overriding, and the choice of a port, with the
conversion to `int32` kept (`Int32`, width `IntWidth`). Two assumptions of `MCConfigReload`, which TLC evaluates, compare
every pair of annotated objects with `Effective`, the README's rule, and the port that is found for each pair and every
list of up to two ports, one number among them too large for the width.

`ConfigReload` has, for every request, the scan and the two upserting goroutines, which receive from channels that all
requests share. A collection is a sequence of documents, an upsert replaces one or inserts in a later step.

* `reload_calm` (`MCReloadCalm.cfg`): two requests of which the second is made when the first one's work is done, two
  services of one name in two namespaces, a change of the cluster at any time, every failure. The second request is what
  it takes for goroutines of two requests to share a channel. One of the two objects a service may be has neither a
  deployment nor a port that can be parsed; changed in the middle of a scan, a service has one of the two. The other has
  no ports, and the second namespace's annotation is a port that is no number, so that both ways are taken on which such
  a text is stored as it is. `CalmReloadsStoreTheCluster` says that both collections are right afterwards,
  `DuplicatesComeFromOverlap` that a duplicate of a namespace or a service needs overlapping requests,
  `ImplementsNamespaceReloads` is the refinement below. 2.1 million states.

`DuplicatesComeFromOverlap` speaks of reloads. The deployment updater upserts too (`repository.go:202`): after a deletion
between its read and its write it inserts, and may do so while a reload inserts the same service. `ServiceDocuments` and
`DeploymentSync` have that write, and the reload's, as one step each, and so never a duplicate.

### NamespaceReload, ReloadRefinement

`NamespaceReload` is the abstract specification of a reload: for one namespace, what is listed, when, and what may be
stored. `ReloadRefinement` maps `ConfigReload` to it, for every namespace at once: a namespace's scan begins when all
namespaces are listed; what is queued is with the scan, in the channel, or in the hands of an upserting goroutine of
any request. `reload_calm` checks that every step of `ConfigReload` is a step, or a stutter, of each namespace's
`NamespaceReload`. `ServiceDocuments` is built from the same actions, so that what it leaves out of a reload (channels,
goroutines, other namespaces) is what this refinement hides.

### ReloadApi

`ConfigReload` with overlapping requests (by `INSTANCE`), driven by those who ask for them: handlers (`Post`), the
ticker's goroutine (`AskByTicker`), both waiting to send on the unbuffered `reloadQueue`, and the goroutine that takes
requests (`TakeRequest`, in which the sender goes on). `End` is the end of the process, by a signal, in whose ten
nanoseconds of grace nothing can be done, or by `log.Fatal`: goroutines stop where they are, waiting clients are cut off.

* `api` (`MCReloadApi.cfg`): one client, one tick, two services in a namespace, channels of capacity 1. A scan of two
  services, with another overlapping, is what it takes for a scan to be stuck behind failed upserts (two lost with the
  goroutines that received them, one in the channel, one that cannot be sent). `AnsweredPostsHaveReloads`,
  `PostsAreAnswered`, and `ScansEnd` with the exception that the code needs: after every goroutine that empties a channel
  has returned from a failed upsert. 250,677 states.

Fairness: one weak fairness condition on all the goroutines together (`Work`). It is less than Go's scheduler gives, and
enough, as the requests are finite and no step repeats.

### ServiceDocuments

The documents of one namespace's services and all that writes them: reloads (`NamespaceReload`), the deployment updater
in its two steps, the deletion of stale services, a start that drops the database. Next to them the watcher's map, loaded
at the start, and the scheduler's query. Time is left to `StaleServices`: a document may be deleted once two reloads
began since its `updatedAt` (`missed`), or after the process was down for any time; the updater writes back the
`updatedAt` it read. Three channels are left to `DeploymentSync`: `updates` is all that is on its way.

* `documents` (`MCServiceDocuments.cfg`): one service, two changes, two updates on their way, one crash, with or without
  a list of namespaces. The service may say nothing and have a port with a target behind one without, opt out, ask for a
  port by a number that is not its own, or by a text that is no number, with ports and without. `StoredAnnotationsStay`: what a reload stored is kept
  by the updater, which writes back whole documents, unless the update was read before the reload's upsert and written
  after it (the only lost update there is: without that premise TLC finds it). `AppPortIsTheTarget`: what a confirmed
  document has for a port is the target of a port of the service that has the annotation's number, or the annotation's
  own text if none has a target; the text is no number only for a service without ports. It says nothing of a number too
  wide for an `int32`, whose meaning no source gives, and the run has none.
  `DocumentsFollowTheCluster`: once nothing changes any more, a service that can be stored is stored again and again,
  after each deletion and on a dropped database too, and document and scraping come to follow the cluster for good, for
  services the watcher does not know and after lost updates as well. Services share nothing here
  but the reload's scan, so one shows what can happen to a document; `reload_calm` has two. 114,706 states.

Fairness: strong fairness of listing and of upserting says that what is tried by every reload for ever does not fail
every time; weak fairness of a start, of reloads (the ticker), and of the watcher and the updater.

### StaleServices

Time in ticks; the reload's and the deletion's ticker fire together, and what is due in a tick is done in it, in any
order (`Settled` is a guard of `Tick`). A document's age counts from its `updatedAt`; `begun` counts the reloads begun
since. The deployment updater writes back an old `updatedAt`. Crashes, failed scans, skipped namespaces, failed upserts,
failed deletions and reloads through the API happen at any time, and a start may be on a dropped database
(`StartOnDroppedDatabase`). Two abstractions: the channel `Services` is a set with
no capacity (its capacity is `ConfigReload`'s subject), and a reload takes at most `ScanTime` ticks, less than an interval.

* `stale_services` (`MCStaleServices.cfg`): a tick is 20 minutes (60 and 20 are 3 and 1), two services in two
  namespaces; `OneMissedReloadIsTolerated` and its invariant `AgeInv`. `MaxAge` 8 is above the 7 ticks at which a document
  is deleted; `MaxBegun` 3 above the 2 missed reloads it asks for.
* `stale_liveness` (`MCStaleLiveness.cfg`): `GoneServicesAreRemoved` and `LiveServicesAreStored`. Strong fairness of
  scanning a namespace, of an upsert, of the count and of a deletion says that an operation repeated for ever does not
  fail every time; `[]<><<Tick>>` that time goes on. The interval is shortened to one tick, equal to the margin: a
  document is then deleted after more than three ticks, still more than two intervals and less than four.
* `stale_failed_reload`: see section 5.

### DeploymentSync

The watcher, namespace after namespace; the forwarding goroutine; the updater in three steps; a reload as far as it
stores replicas; the deletion of stale services, document by document (`RemoveStale`); a restart, which may drop the
database and loads the map from the collection. When a document is old enough to be deleted is left to `StaleServices`:
here any may be at any time. History variables, since the start: `lost`, services an update of which failed; `deleted`,
services of which a removal was the last event forwarded; `overwritten`, services stored by a reload; `removed`, services
deleted as stale. `MaxChanges` bounds the changes of deployments and the deletions of documents together.

* `sync` (`MCDeploymentSync.cfg`): two deployments that share a label, three changes or deletions, one restart, one reload,
  channels of capacity 1. `StateMatchesStore`: with nothing on its way, no update failed and no reload since the start,
  map and collection agree, but for documents deleted as stale: their entries stay in the map, which nobody tells
  (`repository.go:394-426`), and the document is missing, or an update that was on its way has put it back as the map has
  it. `ScaleChangesArePickedUp`:
  a known service whose deployments come to have n replicas is stored with n, across a restart, under weak fairness of
  the goroutines and of Kubernetes' delivery, while their namespace is watched, no reload stores it and the last event
  forwarded was no removal. Two deployments of one label are what it takes for a `DELETED` event to be forwarded at all. 1.5 million states.
* `sync_namespaces`: see section 5.

## 3. Proofs

Each `...Proofs` module extends the module it is about. Together they state every safety property of the passing runs,
invariants and action properties alike, for any sets of readers, services, namespaces, deployments, clients, states and
objects of the cluster, any channel capacities, retention, intervals and numbers of changes, failures and restarts. They
use the named assumptions of the modules, which say of what kind a constant is (a capacity is a positive number, what is
counted is finite, a service is in a namespace that there is, the empty string is no state), and nothing else but the two
hypotheses named below. An `ASSUME` of a module is evaluated by TLC in the runs of that module.

Hardly any of the properties is inductive. Every inductive invariant below that is not a type was checked by TLC on the
instance of the run first; each is a conjunction of named parts, and its step has a lemma or a proof step per action.

| module | theorems | from the inductive invariant |
|---|---|---|
| `HealthCheckerProofs` | `TypeOK`, `ScrapeInv`, `InFlightCountsBusyReaders`, `VerdictMatchesAnswers`, `HealthyPodsMatchPodChecks`, `NeverBothMessages` | `ScrapeInv`, `StatusInv` |
| `CheckHistoryProofs` | `TypeOK`, `HistoryInv`, `PreviousStateDiffers`, `LatestStateSinceNotInFuture`, `StateSinceIsARealCheck`, `KeptChecksAreStored`, `RunsAreExact` | `HistoryInv`, `RunsInv` |
| `ScrapePipelineProofs` | `GaugeCoversQueue`, `LatestChecksAreLatest`, `ImplementsChecker`, `ImplementsHistory`, `Jobs!SafeSpec` | `SchedulerInv`, `GaugeInv`, `JobsInv`, `ReadersInv`, `ChecksInv` |
| `StaleServicesProofs` | `TypeOK`, `AgeInv`, `OneMissedReloadIsTolerated` | `AgeInv` |
| `ConfigReloadProofs` | `TypeOK`, `DuplicatesComeFromOverlap`, `CalmReloadsStoreTheCluster`, `ImplementsNamespaceReloads` | `CalmInv` |
| `ReloadApiProofs` | `TypeOK`, `AnsweredPostsHaveReloads` | `ApiInv` |
| `ServiceDocumentsProofs` | `TypeOK`, `StoredAnnotationsStay`, `AppPortIsTheTarget` | `TypeInv`, `StoredInv` |
| `DeploymentSyncProofs` | `TypeOK`, `StateMatchesStore` | `SyncInv` |

* `HealthCheckerProofs`: the gauge, by the cardinality of the set of busy readers, which one step changes by one; the
  verdicts, whose invariant `ScrapeInv` ties a reader's two counters to its list of responses. `VerdictsAlwaysMatch` needs a
  lemma on the least priority of a sequence; `BothMessagesAreDead` is arithmetic on the two messages once the counters
  are known to be naturals.
* `CheckHistoryProofs`: the facts a reader of the collection wants are not inductive: a check that is looked up may
  be deleted before the next is inserted, so `HistoryInv` says of the status in the inserter's hands that its history is
  true of a stored check or of its own time (`Witnessed(r) \/ r.stateSince <= r.checkTime`), and of the collection that
  what a run's beginning points to is stored or old enough to be gone. The cutoff of a deletion only grows staler, hence
  `tidy.cutoff <= clock - Retention`. `RunsInv` adds what `RunsAreExact` needs of a service whose statuses come in order:
  one check at a time at most, a status in hand that is younger than all checks, and a history in hand that goes on from
  the latest check unless that one may be gone, in which case those before it may be gone too.
* `ScrapePipelineProofs`: `PipelineImplementsChecker` needs only that the scheduler queues what a round found
  (`SchedulerInv`). `JobsInv` says that every job is in one of six places (with the scheduler, queued, with a reader,
  reported, with the inserter, recorded), once, and never in two, and counts the jobs of the channel of statuses and of
  the inserted checks; each action moves one job from one place to the next, which is at once the step of `CheckJobs`
  (`JobsAreDoneAtMostOnce`, the refinement but for its liveness) and the reason why a status always has room in the bound
  of `CheckHistory`. `PipelineImplementsHistory` also needs that what a reader has gathered fits its pods (`ReadersInv`).
  With the two refinements the theorems of the first two modules hold of the whole program (`CheckerHoldsInThePipeline`,
  `HistoryHoldsInThePipeline`; both proof modules are instantiated). `ChecksInv` says that with a list of namespaces
  nothing without replicas is anywhere on its way; with lemmas on the finders of `Queries`, which may return any order
  that their sort allows, it yields `LatestIsAlwaysLatest`.
* `StaleServicesProofs`: `AgeInv` bounds a document's age by the intervals of the reloads begun since it was stored and by
  what is left of the current one; it is inductive as it stands. `OneMissedReloadIsAlwaysTolerated` has the hypothesis
  `MaxBegun > 2`: the history variable must count further than the two reloads the property speaks of.
* `ConfigReloadProofs`: `CalmInv` says, where requests do not overlap, that only the last request's scan is at work
  (`OneScan`), that what is with the scan, in the channel, with the goroutines of any request and in the collection has
  one item or document for each key (`OneNamespaceEach`, `OneServiceEach`), and of what has not changed since the request
  that it is yet to be listed, on its way as it should be, or stored as it should be (`NamespacesAreListed`,
  `ServicesAreListed`). Lemmas state what a send, a receive, a replacement, an insertion and a lost upsert do to any
  channel and collection, once for namespaces and services. `ReloadsAreNamespaceReloads`, the refinement, goes through
  every action for a fixed namespace; its hypothesis is `~MayOverlap`, as `NamespaceReload` has one scan at a time, and
  the run that checks it makes the same choice. With overlap it is false, and so is what it abstracts (section 5).
  `TypeCorrect` holds with overlap too.
* `ReloadApiProofs`: `RequestsAreScanned` (each request taken has a scan that was started) and `PostsAreServedOnce` (who is
  in the queue waits there once; a request was taken for an answered client once, and for no other).
* `ServiceDocumentsProofs`: `TypeInv` gives types to what is on its way, as the documents' own come out of it. `StoredInv`
  follows the annotations of a confirmed service through all that may be written over them: the document, the updater's
  copy unless it was overtaken, what the reload has queued, and what its scan has listed, all current unless the cluster
  changed since the listing. It says of each of the ports on that way that it is the one found for the service, whence
  `AppPortIsTheTarget` by a lemma on the choice of a port.
* `DeploymentSyncProofs`: `SyncInv` says that what arrives last, of all that is on its way between the watcher and the
  collection, is what the map expects. The order of the two channels and the two goroutines matters: the last item about
  a service in the first of the four places that has one decides. If there is none, the document decides, unless it was
  deleted as stale.

Each proof module stands on its own but for `ScrapePipelineProofs`, which instantiates two others. The lemmas on annotations
(`OverridingIsEffective` and those it rests on) are therefore both in `ConfigReloadProofs` and in `ServiceDocumentsProofs`.

Model-checked only:

* everything with fairness, since the prover reaches neither liveness nor `ENABLED`: the last conjunct of
  `ImplementsJobs` (no job waits for ever), `PostsAreAnswered`, `ScansEnd`, `GoneServicesAreRemoved`,
  `LiveServicesAreStored`, `ScaleChangesArePickedUp`, `DocumentsFollowTheCluster`;
* the assumptions of the MC modules that compare algorithms with their reference over all bounded inputs
  (`VerdictOnBoundedAnswers`, `NearestAnnotationWins`, `AppPortIsKnown`); the theorems have lemmas to the same effect
  where a proof needs them, for what can be written without recursion: the least of a set, as in `mostSevereState` and in
  the choice of a port, stands for the loop;
* the three counterexamples of section 5.

## 4. Bounds

Every bound is a constant with "bound" in its comment: `MaxPods`, `MaxTime`, `MaxChecks`, `MaxRounds`, `Requests`,
`MaxChanges`, `MayOverlap`, `Ticks`, `MaxUpdates`, `MaxCrashes`, `MaxAge`, `MaxUpdaters`, `MaxBegun`, `MaxFailures`, `MaxRestarts`,
`MaxReloads`. Channel capacities (10 and
1000) and the number of readers (100) are constants as well and are 1 to 3 in the runs: a capacity of 1 is the one at
which a channel is full soonest, and nothing in the code depends on a capacity but whether a channel is full.

## 5. Where the code and its own words differ

Each is a run that TLC ends with a counterexample; the property states the words.

| run | the words | the code |
|---|---|---|
| `unhealthy_pods` | "report how many of the running pods are unhealthy" (`checks.go:126`) | only when more pods answer well than are desired |
| `stale_failed_reload` | no deletion "if the most recent reload did not succeed" (`repository.go:410`) | looks for any update within 80 minutes, which a failed reload, or the one before, may have made |
| `sync_namespaces` | watchers "within a list of provided namespaces" (`discovery.go:96`) | one namespace at a time, none of them twice |

Met while modelling, in the models as they are in the code, and not among the runs:

* services are deleted after 140 minutes (`repository.go:414`), where the comment at `repository.go:468` says 150;
* of overlapping reloads, the goroutine of the earlier may write its older copy of a service last (`discovery.go:69`);
  `README.md:178` has a reload pick up "any annotation changes". Hence `~MayOverlap` in the properties of `ConfigReload`;
* nor does a reload pick up annotations for good when the deployment updater read the document before the reload's upsert
  and writes it after (`repository.go:188-202`): the old annotations and port stay until the next reload. Hence
  `overtaken` in `ServiceDocuments`;
* documents of namespaces are never deleted;
* a service deleted as stale stays in the watcher's map (`repository.go:394-426`): until a reload stores it again, updates
  of it are forwarded and fail, or are passed over. Hence `removed` in `DeploymentSync`;
* a port that is no number keeps a service out of the collection only if the service has ports (`discovery.go:345-349`):
  in a namespace's annotation (`discovery.go:213-218`) and for a service without ports (`discovery.go:345, 359`) the text is
  stored as it is;
* without `RESTRICT_NAMESPACE` services without replicas are scraped, and the overview of a namespace passes their checks
  over and shows an older one (`repository.go:364`). Hence the premise of `LatestChecksAreLatest`;
* the gauge "Records the number of services queued awaiting" a scrape (`instrumentation.go:49`) as it
  was when the last round ended (`repository.go:453`). Hence the inequality in `GaugeCoversQueue`;
* the answer to POST /reload names an identifier that is not the one that was queued and is logged (`handlers.go:33-35`);
* `graceful(server, 10)` allows ten nanoseconds (`main.go:216, 257`);
* "Changes to deployments for services which health-aggregator knows about are automatically picked up"
  (`README.md:180`), but not until the next reload or restart when a reload that listed the deployments earlier stores
  its replicas after the change (`discovery.go:266`); nor for services stored by a reload since the start
  (`discovery.go:130`); nor when a deployment is deleted, whose event carries the replicas the map has already
  (`discovery.go:138`); nor when two deployments share a label, one of them is deleted, and the next event has the
  replicas the deleted one had: the document keeps the 0 of the deletion (`discovery.go:138`); nor at all without
  `RESTRICT_NAMESPACE`, when every namespace is scraped and none is watched (`discovery.go:102`). Hence the premises of `ScaleChangesArePickedUp`.

## 6. Not modelled

The ops server, CORS, routes and the layout of answers, the parsing of options, the creation of the index and of clients
and collectors, logging, histograms and the counter of outcomes. The database sessions and goroutines that each reload
leaves behind (`discovery.go:62-75`) are modelled for what they do, not for the memory they take. A client of the API that
gives up is not modelled: its handler waits on as if it had not; a client that tries again is one more client. That an
error is dropped when `errs` is full, and its sender goes on, is modelled as the code has it, and no property is about
it. MongoDB is taken to do
each operation on one document atomically and to lose nothing it has acknowledged; Kubernetes to deliver a watched
namespace's events in order.

## 7. Plan

Done: the modules above, in the order of section 2, and the proofs of section 3. Where the project may still grow:

* proofs: what the finders of `Queries` return, as lemmas about every collection; the reloads of `ServiceDocuments` as
  those of `NamespaceReload` with an environment; bounds on what a stored verdict says of the pods, end to end through
  the pipeline;
* model: several namespaces and the timed deletion in `ServiceDocuments`, with `StaleServices` as its abstraction;
  `ConfigReload` with overlapping requests as a `NamespaceReload` with several scans.
