---------------------------- MODULE MCAccumulator ----------------------------
(* Accumulator for TLC: two workloads, one of them with two destinations,  *)
(* a profile whose target is first one and then the other, and a second    *)
(* profile with the same target; and a Deployment "web" with its pod       *)
(* "web-0".                                                                *)
EXTENDS Accumulator

TwoWorkloads == [d \in Dests |-> IF d = "b1" THEN "batch" ELSE "web"]
SharedTargets == {<<"web", "first">>, <<"batch", "first">>, <<"web", "second">>}

PodNames == [d \in Dests |-> "web-0"]
DeploymentNames == [d \in Dests |-> "web"]
OneTarget == {<<"web", "first">>}
=============================================================================
