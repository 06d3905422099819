--------------------------- MODULE MCConfigReload ---------------------------
(***************************************************************************)
(* Small instances of ConfigReload: services of one name, each in its own  *)
(* namespace.  A service opts in, whatever its namespace says, and takes   *)
(* its port from the namespace, where it may be malformed.                 *)
(***************************************************************************)
EXTENDS ReloadRefinement, TLC

Symmetry == Permutations(Namespaces)

MCServices == {[namespace |-> n, name |-> "svc"] : n \in Namespaces}

OnePort == <<[port |-> 1, target |-> [name |-> "http", number |-> 0]]>>

Object(exists, enable, port, replicas, ports) ==
    [exists |-> exists, enable |-> enable, port |-> port, replicas |-> replicas, ports |-> ports]

(* The first has no ports, so that any port is stored for it.  The second  *)
(* has no deployment and a malformed port: changed into the first, or      *)
(* back, in the middle of a scan it has one of the two.                    *)
MCServiceObjects ==
    {Object(TRUE, "true", Unset, 1, <<>>), Object(TRUE, "true", Malformed, None, OnePort)}
MCNamespaceObjects == {[enable |-> "", port |-> Unset], [enable |-> "false", port |-> Malformed]}
-----------------------------------------------------------------------------
(* All annotations an object may have, one of them a number that does not  *)
(* fit, and all lists of up to two ports.                                  *)
AllAnnotations == [port : {Unset, Malformed, 1, 3, 2^IntWidth + 1}, enable : {"", "true", "false", "other"}]
AllPorts == UNION {[1..n -> [port : {1, 3}, target : [name : {"", "http"}, number : {0, 2}]]] : n \in 0..2}

(* What is stored for a service in a namespace.                            *)
StoredSettings(service, namespace) ==
    overrideParentAnnotations(getHealthAnnotations(service), NamespaceAnnotations(namespace))

(* The two calls of overrideParentAnnotations, the service's over the      *)
(* namespace's over the defaults, and the filter on the texts make every   *)
(* setting the nearest one that says something (discovery.go:213, 252).    *)
ASSUME NearestAnnotationWins ==
    \A service, namespace \in AllAnnotations :
        StoredSettings(service, namespace) = Effective(service, namespace)

(* The port that is found is never the empty text, also where a service's  *)
(* port matches and has no target (discovery.go:349-359).                  *)
ASSUME AppPortIsKnown ==
    \A service, namespace \in AllAnnotations, ports \in AllPorts :
        LET answer == getAppPortForService(ports, StoredSettings(service, namespace).port)
        IN ~answer.failed => answer.appPort.name # "" \/ answer.appPort.number \notin {0, Unset}
=============================================================================
