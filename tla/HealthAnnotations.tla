------------------------- MODULE HealthAnnotations --------------------------
(***************************************************************************)
(* How the annotations of a Kubernetes service and of its namespace become *)
(* the configuration health-aggregator stores: the pure part of            *)
(* internal/discovery/discovery.go.  The text of a port annotation is a    *)
(* number, or one of the two negative numbers below.                       *)
(***************************************************************************)
EXTENDS Integers, Sequences, FiniteSetsExt

CONSTANTS
    DefaultPort,   \* 8081
    IntWidth       \* bits of the integers that hold a service's ports (32)

Unset == -1        \* no such annotation, or an empty one
Malformed == -2    \* a text that is no number
None == -1         \* no replicas: there is no deployment

ASSUME PortAssumption == DefaultPort \in Nat /\ IntWidth \in Nat \ {0}

(* A target port is a name or a number, NoName and 0 if there is none.     *)
NoName == ""
Targets == [name : STRING \cup {NoName}, number : Int]
ServicePorts == [port : Int, target : Targets]

(* What Kubernetes may hold of a service, with the replicas of its         *)
(* deployment, and of a namespace; "other" is any other text.              *)
SilentTexts == {"", "other"}
EnableTexts == {"true", "false"} \cup SilentTexts
ServiceObject ==
    [exists : BOOLEAN, enable : EnableTexts, port : Int, replicas : Nat \cup {None},
     ports : Seq(ServicePorts)]
NamespaceObject == [enable : EnableTexts, port : Int]

DefaultAnnotations == [port |-> DefaultPort, enableScrape |-> "true"]

(* A conversion to int32 keeps the low bits.                               *)
Int32(n) == ((n + 2^(IntWidth - 1)) % 2^IntWidth) - 2^(IntWidth - 1)

(* The annotations of an object: only "true" and "false" say anything      *)
(* about scraping, every text is taken as a port.                          *)
getHealthAnnotations(object) ==
    [port |-> object.port,
     enableScrape |-> IF object.enable \in {"true", "false"} THEN object.enable ELSE ""]

(* What the object does not say is taken from its parent.                  *)
overrideParentAnnotations(h, overrides) ==
    [port |-> IF h.port = Unset THEN overrides.port ELSE h.port,
     enableScrape |-> IF h.enableScrape = "" THEN overrides.enableScrape ELSE h.enableScrape]

NamespaceAnnotations(namespace) ==
    overrideParentAnnotations(getHealthAnnotations(namespace), DefaultAnnotations)

(* The text of a target port is its name, or else its number.              *)
TargetText(target) ==
    [name |-> target.name, number |-> IF target.name # NoName THEN 0 ELSE target.number]
PortText(port) == [name |-> NoName, number |-> port]
HasTarget(target) == target.name # NoName \/ target.number # 0

(* Mutation of getAppPortForService: the first port that matches is taken, *)
(* with a target or not.                                                   *)
FirstMatch(servicePorts, serviceScrapePort) ==
    LET hits == {k \in DOMAIN servicePorts : servicePorts[k].port = Int32(serviceScrapePort)}
    IN [failed |-> servicePorts # <<>> /\ serviceScrapePort = Malformed,
        appPort |-> IF hits = {} \/ serviceScrapePort = Malformed THEN PortText(serviceScrapePort)
                    ELSE TargetText(servicePorts[Min(hits)].target)]

(* The port of a pod to scrape: the target of the first of the service's   *)
(* ports that matches and has one, and else the text itself.  Without      *)
(* ports the text is not even parsed.                                      *)
getAppPortForService(servicePorts, serviceScrapePort) ==
    LET hits == {k \in DOMAIN servicePorts :
                    /\ servicePorts[k].port = Int32(serviceScrapePort)
                    /\ HasTarget(servicePorts[k].target)}
    IN [failed |-> servicePorts # <<>> /\ serviceScrapePort = Malformed,
        appPort |-> IF hits = {} \/ serviceScrapePort = Malformed THEN PortText(serviceScrapePort)
                    ELSE TargetText(servicePorts[Min(hits)].target)]

(* What is sent for a service, unless its port is malformed.               *)
ServiceItem(s, object, annotations, replicas) ==
    LET own == overrideParentAnnotations(getHealthAnnotations(object), annotations)
        port == getAppPortForService(object.ports, own.port)
    IN [failed |-> port.failed,
        service |-> s, annotations |-> own, appPort |-> port.appPort, replicas |-> replicas]
-----------------------------------------------------------------------------
(* Reference definitions.                                                  *)

(* The first of a list of texts that says something.                       *)
FirstSaid(texts, silent) == texts[Min({k \in DOMAIN texts : texts[k] \notin silent})]

(* "Annotations added to the Service override any annotations at the       *)
(* namespace level" (src/README.md:117), and the defaults come last.       *)
Effective(service, namespace) ==
    [port |-> FirstSaid(<<service.port, namespace.port, DefaultPort>>, {Unset}),
     enableScrape |-> FirstSaid(<<service.enable, namespace.enable, "true">>, SilentTexts)]
=============================================================================
