-------------------------- MODULE MCScrapePipeline --------------------------
(***************************************************************************)
(* Small instances of ScrapePipeline: services of one name, in namespaces  *)
(* numbered in their sorting order.                                        *)
(***************************************************************************)
EXTENDS ScrapePipeline, SequencesExt

CONSTANTS Namespaces

MCServices == {[namespace |-> ns, name |-> "svc"] : ns \in Namespaces}

(* The verdict on every answer of up to three pods agrees with the table   *)
(* StateByAnswers: the runs' readers meet fewer kinds of answers than this.*)
ASSUME VerdictOnBoundedAnswers ==
    \A answers \in SeqOf(Answers \ {NullBody}, 3), desiredReplicas \in 0..4 :
        LET responses == [k \in DOMAIN answers |-> getHealthCheckForPod(answers[k])]
            failed == Cardinality({k \in DOMAIN answers : responses[k].error # NoError})
        IN Verdict(desiredReplicas, responses, failed).state
              = Checker!StateByAnswers(desiredReplicas, responses)
=============================================================================
