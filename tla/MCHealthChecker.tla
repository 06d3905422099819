-------------------------- MODULE MCHealthChecker ---------------------------
(***************************************************************************)
(* Small instances of HealthChecker: services of one name that differ in   *)
(* the replicas they are to have.                                          *)
(***************************************************************************)
EXTENDS HealthChecker, TLC

CONSTANTS DesiredReplicas

MCServiceCopies == {[name |-> "svc", desiredReplicas |-> n] : n \in DesiredReplicas}
Symmetry == Permutations(Readers)
=============================================================================
