--------------------------- MODULE MCCheckHistory ---------------------------
(***************************************************************************)
(* A small instance of CheckHistory: services of one name in several       *)
(* namespaces.  Namespaces are interchangeable, and so are states, of      *)
(* which the inserter only asks whether they are equal.                    *)
(***************************************************************************)
EXTENDS CheckHistory, TLC

CONSTANTS Namespaces

MCServiceCopies == {[namespace |-> ns, name |-> "svc"] : ns \in Namespaces}
MCDetails == {"details"}
Symmetry == Permutations(Namespaces) \cup Permutations(States)
=============================================================================
