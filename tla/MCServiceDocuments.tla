------------------------- MODULE MCServiceDocuments -------------------------
(***************************************************************************)
(* Small instances of ServiceDocuments.  A service says nothing about its  *)
(* health annotations and has a port with a target behind one without, or  *)
(* it opts out and asks for a port by a number that is none of its own, or *)
(* it asks for one by a text that is no number, with ports and without.    *)
(***************************************************************************)
EXTENDS ServiceDocuments

Plain(n) == [exists |-> TRUE, enable |-> "", port |-> Unset, replicas |-> n,
             ports |-> <<[port |-> 1, target |-> [name |-> "", number |-> 0]],
                         [port |-> 1, target |-> [name |-> "http", number |-> 0]]>>]
OptedOut(n) == [Plain(n) EXCEPT !.enable = "false", !.port = 2]
Broken(n) == [Plain(n) EXCEPT !.port = Malformed]
Portless(n) == [Broken(n) EXCEPT !.ports = <<>>]

MCObjects == {Plain(0), Plain(1), OptedOut(1), Broken(1), Portless(1)}

MCNamespaceObjects == {[enable |-> "", port |-> Unset], [enable |-> "false", port |-> Unset]}
=============================================================================
