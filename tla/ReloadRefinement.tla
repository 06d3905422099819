-------------------------- MODULE ReloadRefinement --------------------------
(***************************************************************************)
(* ConfigReload, whose scans, channels and goroutines are shared by all    *)
(* requests and namespaces, as a NamespaceReload of every namespace.       *)
(***************************************************************************)
EXTENDS ConfigReload

ServicesOf == [n \in Namespaces |-> {s \in Services : s.namespace = n}]

(* The scan of the last request, and where it is with a namespace: its     *)
(* annotations are listed with all others', long before its turn comes.    *)
Now == IF requests = 0 THEN NotStarted ELSE scan[requests]

Wait == [step |-> "wait"]
ReloadAt(n, at) ==
    IF at.step \in {"next", "services", "deployments", "send"} /\ n \in DOMAIN at.left
    THEN [step |-> "services", annotations |-> NamespaceAnnotations(at.left[n])]
    ELSE IF at.step = "services" /\ at.namespace = n
    THEN [step |-> "services", annotations |-> at.annotations]
    ELSE IF at.step = "deployments" /\ at.namespace = n
    THEN [step |-> "deployments", annotations |-> at.annotations, found |-> at.found]
    ELSE Wait

(* Items on their way: with the scan, in a channel, or with a goroutine of *)
(* any request.                                                            *)
Sending == IF Now.step = "send" THEN Now.items ELSE {}
Upserting(updater) == {r \in Reloads : updater[r].step \in {"upsert", "insert"}}
OnTheirWay(sending, channel, updater) ==
    sending \cup Range(channel) \cup {updater[r].item : r \in Upserting(updater)}
ServicesOnTheirWay == OnTheirWay(Sending, serviceChannel, serviceUpdater)

QueuedIn(n, ways) == {i \in ways : i.service.namespace = n}

DocumentsIn(n, docs) ==
    [s \in {d.service : d \in Range(docs)} \cap ServicesOf[n] |->
        CHOOSE d \in Range(docs) : d.service = s]

Reload(n) == INSTANCE NamespaceReload WITH
    Services <- ServicesOf[n], annotated <- annotated[n], cluster <- Restrict(cluster, ServicesOf[n]),
    reload <- ReloadAt(n, Now), queued <- QueuedIn(n, ServicesOnTheirWay),
    documents <- DocumentsIn(n, services)

(* All that the mapping looks at: other steps are stutters.                *)
mapped == <<cluster, annotated, requests, scan, serviceChannel, serviceUpdater, services>>

(* While requests do not overlap, all the machinery of scans, shared       *)
(* channels and goroutines does to each namespace's documents what a       *)
(* NamespaceReload of it alone does: no service is stored from another     *)
(* namespace's listing or settings, from a listing of an earlier request,  *)
(* or without having been listed (discovery.go:188-270, repository.go:     *)
(* 64-80).                                                                 *)
ImplementsNamespaceReloads ==
    /\ \A n \in Namespaces : Reload(n)!Init
    /\ [][mapped' # mapped => \A n \in Namespaces : [Reload(n)!Next]_(Reload(n)!vars)]_vars
=============================================================================
