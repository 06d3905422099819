-------------------------- MODULE MCDeploymentSync --------------------------
(***************************************************************************)
(* Small instances of DeploymentSync: one deployment of one service, two   *)
(* deployments that share a label, or a service in each of two namespaces. *)
(***************************************************************************)
EXTENDS DeploymentSync

CONSTANTS s1, s2, d1, d2, n1, n2

OwnApp == [d \in Deployments |-> IF d = d1 THEN s1 ELSE s2]
SharedApp == [d \in Deployments |-> s1]
OwnDeployment == [s \in Services |-> IF s = s1 THEN d1 ELSE d2]
SameNamespace == [d \in Deployments |-> n1]
OwnNamespace == [d \in Deployments |-> IF d = d1 THEN n1 ELSE n2]
OneWatched == <<n1>>
BothWatched == <<n1, n2>>
=============================================================================
