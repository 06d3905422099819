---------------------------- MODULE MCReloadApi -----------------------------
(***************************************************************************)
(* Small instances of ReloadApi: a cluster that does not change, its       *)
(* services two in a namespace and all alike, so that a scan finds more    *)
(* than a channel and the failing goroutines take.                         *)
(***************************************************************************)
EXTENDS ReloadApi

MCServices == {[namespace |-> n, name |-> name] : n \in Namespaces, name \in {"svc", "job"}}

Annotated == [enable |-> "", port |-> -1]
MCNamespaceObjects == {Annotated}
MCServiceObjects ==
    {[exists |-> TRUE, enable |-> "", port |-> -1, replicas |-> 1,
      ports |-> <<[port |-> 1, target |-> [name |-> "http", number |-> 0]]>>]}
=============================================================================
