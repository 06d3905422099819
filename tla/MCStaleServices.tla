-------------------------- MODULE MCStaleServices ---------------------------
(***************************************************************************)
(* Small instances of StaleServices.  A tick is 20 minutes where the      *)
(* interval is 3 and the margin 1.                                         *)
(***************************************************************************)
EXTENDS StaleServices

CONSTANTS s1, s2, n1, n2

OneNamespace == [s \in Services |-> n1]
TwoNamespaces == [s \in Services |-> IF s = s1 THEN n1 ELSE n2]
=============================================================================
