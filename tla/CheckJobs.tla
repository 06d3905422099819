----------------------------- MODULE CheckJobs ------------------------------
(***************************************************************************)
(* What the scraping of services promises, without its channels, pools and *)
(* collections: a service found by a round is a job; a job leaves by being *)
(* recorded, once, or by being given up; it never comes back; and no job   *)
(* waits for ever.  ScrapePipeline implements this.                        *)
(***************************************************************************)
CONSTANT Jobs

VARIABLES
    scheduled,   \* jobs that rounds have found so far
    pending,     \* jobs still to be recorded
    recorded     \* jobs whose check is, or was, in the collection

vars == <<scheduled, pending, recorded>>

Init == scheduled = {} /\ pending = {} /\ recorded = {}

(* A round schedules jobs nobody has seen before.                          *)
Schedule(found) ==
    /\ found \cap scheduled = {}
    /\ scheduled' = scheduled \cup found
    /\ pending' = pending \cup found
    /\ UNCHANGED recorded

Record(j) ==
    /\ j \in pending
    /\ recorded' = recorded \cup {j}
    /\ pending' = pending \ {j}
    /\ UNCHANGED scheduled

(* The pods cannot be listed, or the check cannot be stored.               *)
GiveUp(j) ==
    /\ j \in pending
    /\ pending' = pending \ {j}
    /\ UNCHANGED <<scheduled, recorded>>

(* The process dies with all its jobs.                                     *)
Crash ==
    /\ pending' = {}
    /\ UNCHANGED <<scheduled, recorded>>

Next ==
    \/ \E found \in SUBSET Jobs : Schedule(found)
    \/ \E j \in Jobs : Record(j) \/ GiveUp(j)
    \/ Crash

SafeSpec == Init /\ [][Next]_vars

Spec == SafeSpec /\ \A j \in Jobs : WF_vars(Record(j) \/ GiveUp(j))
=============================================================================
