-------------------------- MODULE NamespaceReload ---------------------------
(***************************************************************************)
(* What a reload promises to one namespace, where reloads do not overlap   *)
(* (internal/discovery/discovery.go, internal/db/repository.go): the       *)
(* annotations, the services and the deployments are listed one after the  *)
(* other, and what is found is stored, a service at a time, in any order   *)
(* and but for what fails.  Of channels and goroutines nothing is said:    *)
(* ReloadRefinement shows that those of ConfigReload do this, and          *)
(* ServiceDocuments composes it with the other writers of the documents.   *)
(***************************************************************************)
EXTENDS HealthAnnotations

CONSTANT Services       \* the namespace's services

VARIABLES
    annotated,          \* Kubernetes' namespace
    cluster,            \* Kubernetes' services, with their deployments
    reload,             \* the scan
    queued,             \* what is to be stored
    documents           \* what is stored, by service

vars == <<annotated, cluster, reload, queued, documents>>

Idle == [step |-> "wait"]

Init ==
    /\ reload = Idle /\ queued = {}
    /\ documents = <<>>

Begin ==
    /\ reload = Idle /\ queued = {}
    /\ reload' = [step |-> "services", annotations |-> NamespaceAnnotations(annotated)]
    /\ UNCHANGED <<annotated, cluster, queued, documents>>

ListServices ==
    /\ reload.step = "services"
    /\ reload' = [step |-> "deployments", annotations |-> reload.annotations,
                  found |-> [s \in {t \in Services : cluster[t].exists} |-> cluster[s]]]
    /\ UNCHANGED <<annotated, cluster, queued, documents>>

(* Mutation of ListDeployments: a malformed port does not matter.          *)
KeepMalformed ==
    /\ reload.step = "deployments"
    /\ queued' = {ServiceItem(s, reload.found[s], reload.annotations, cluster[s].replicas) :
                     s \in {t \in DOMAIN reload.found : cluster[t].replicas # None}}
    /\ reload' = Idle
    /\ UNCHANGED <<annotated, cluster, documents>>

(* Every service is kept that has a deployment and a port that can be      *)
(* parsed.                                                                 *)
ListDeployments ==
    /\ reload.step = "deployments"
    /\ LET items == {ServiceItem(s, reload.found[s], reload.annotations, cluster[s].replicas) :
                        s \in {t \in DOMAIN reload.found : cluster[t].replicas # None}}
       IN queued' = {i \in items : ~i.failed}
    /\ reload' = Idle
    /\ UNCHANGED <<annotated, cluster, documents>>

(* Something cannot be listed: nothing is found.                           *)
ScanFails ==
    /\ reload # Idle
    /\ reload' = Idle
    /\ UNCHANGED <<annotated, cluster, queued, documents>>

(* Mutation of Stored: a document that is there is left as it is.          *)
StoredOnce(s, document) ==
    documents' = [t \in DOMAIN documents \cup {s} |->
                     IF t \in DOMAIN documents THEN documents[t] ELSE document]

Stored(s, document) ==
    documents' = [t \in DOMAIN documents \cup {s} |-> IF t = s THEN document ELSE documents[t]]

Upsert(s) ==
    \E i \in queued :
        /\ i.service = s
        /\ queued' = queued \ {i}
        /\ Stored(s, i)
        /\ UNCHANGED <<annotated, cluster, reload>>

UpsertFails ==
    /\ \E i \in queued : queued' = queued \ {i}
    /\ UNCHANGED <<annotated, cluster, reload, documents>>

(* The cluster changes, at any time.                                       *)
Change == UNCHANGED <<reload, queued, documents>>

Next ==
    \/ Change
    \/ Begin \/ ListServices \/ ListDeployments \/ ScanFails
    \/ \E s \in Services : Upsert(s)
    \/ UpsertFails

Spec == Init /\ [][Next]_vars
=============================================================================
