------------------------------ MODULE Queries -------------------------------
(***************************************************************************)
(* The finders of internal/db/repository.go, for this program's scheduler  *)
(* and for the programs that read the collections.  A collection is a set  *)
(* of documents; where the order of equal times is open, a finder is the   *)
(* set of all its possible answers.  A query that fails has no answer.     *)
(***************************************************************************)
EXTENDS Integers, FiniteSets, SequencesExt

(* A document of the collection of services, as far as queries look at it. *)
Service(namespace, name, enableScrape, desiredReplicas) ==
    [namespace |-> namespace, name |-> name,
     enableScrape |-> enableScrape, desiredReplicas |-> desiredReplicas]

(* Mutation of FindAllServicesWithHealthScrapeEnabled: services without    *)
(* replicas are found as well.                                             *)
FindScaledDownServicesToo(services, restrictToNamespace) ==
    {s \in services : /\ s.enableScrape = "true"
                      /\ restrictToNamespace # {} => s.namespace \in restrictToNamespace}

(* The services to scrape.  Without a list of namespaces those without     *)
(* replicas are found as well.                                             *)
FindAllServicesWithHealthScrapeEnabled(services, restrictToNamespace) ==
    {s \in services : /\ s.enableScrape = "true"
                      /\ restrictToNamespace # {} =>
                            s.namespace \in restrictToNamespace /\ s.desiredReplicas > 0}

ByTime(checks) ==
    {order \in SetToSeqs(checks) :
        \A j, k \in DOMAIN order : j < k => order[j].checkTime >= order[k].checkTime}

(* The last 50 checks of a service, the latest first.                      *)
FindAllChecksForService(checks, n, s) ==
    LET found == {c \in checks : c.service.namespace = n /\ c.service.name = s}
    IN {SubSeq(order, 1, IF Len(order) < 50 THEN Len(order) ELSE 50) : order \in ByTime(found)}

(* The checks that may be shown as the latest of a namespace's services,   *)
(* by name: of the services to scrape, the first of the checks whose copy  *)
(* of the service has replicas.                                            *)
FindLatestChecksForNamespace(services, checks, n) ==
    LET names == {s.name : s \in FindAllServicesWithHealthScrapeEnabled(services, {n})}
        matched == {c \in checks : /\ c.service.name \in names
                                   /\ c.service.namespace = n
                                   /\ c.service.desiredReplicas > 0}
        firstOf(name) == {order[1] : order \in ByTime({c \in matched : c.service.name = name})}
    IN [name \in {c.service.name : c \in matched} |-> firstOf(name)]
=============================================================================
