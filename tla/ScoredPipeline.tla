---------------------------- MODULE ScoredPipeline ----------------------------
(***************************************************************************)
(* The rerouting graph under the eyes of its evaluation: what the metrics  *)
(* say of a trajectory, against what the pipeline did.                     *)
(***************************************************************************)
EXTENDS ReroutePipeline, TrajectoryMetrics

CONSTANT GroundTruth    \* what the scenario of each alert expects of a run

ASSUME GroundTruthAssumption == GroundTruth \in [Alerts -> Truth]

ground_truth == GroundTruth[alert]

\* The last step of a run that returned, as the edges saw it.
EndedInError ==
    /\ trajectory # <<>>
    /\ trajectory[Len(trajectory)].error # "none"

Composites == CompositeScores(trajectory, final_status, ground_truth)

-----------------------------------------------------------------------------
\* Two steps in a row are never of nodes whose transition the table of
\* metrics.py, kept by hand beside the edges of the graph, calls illegal.
TransitionsAreLegal ==
    \A i \in 2..Len(trajectory) :
        <<trajectory[i - 1].node, trajectory[i].node>> \in LEGAL_TRANSITIONS

\* The retries the metric counts are the failures of the lookup and the
\* execution the pipeline counted, less the one that ended the run, if one did.
RetriesMatchCounters ==
    node = "END" =>
        average_retries(trajectory)
            + (IF EndedInError
                   /\ trajectory[Len(trajectory)].node \in {"carrier_lookup", "execution"}
               THEN 1 ELSE 0)
          = retry_counts.carrier_lookup + retry_counts.execution

\* Full marks for recovery go to the runs in which no failure had the last
\* word, and to no other.
RecoveryTellsOutcome ==
    node = "END" =>
        (error_recovery_success_rate(trajectory) = 1000 <=> ~ EndedInError)

\* A run that ends as its scenario expects took the steps it expects: retries
\* do not count as new plan positions (the docstring of plan_coherence).
ExpectedRunsAreCoherent ==
    node = "END" /\ final_status = ground_truth.status =>
        plan_coherence(trajectory, ground_truth) = 1000

\* The composite tells a run that missed its expected status from one that
\* met it without ending in an error: three quarters at most, or more; and
\* a perfect run had no failed call but transient ones it recovered from.
CompositeTellsOutcome ==
    node = "END" =>
        \A score \in Composites :
            /\ final_status # ground_truth.status => score <= 3000
            /\ final_status = ground_truth.status /\ ~ EndedInError => score > 3000
            /\ score = 4000 =>
                 \A i \in ErrorSteps(trajectory) :
                     trajectory[i].error = "transient" /\ Recovered(trajectory, i)

\* A run that booked a carrier of the network nobody expected does not get away
\* with a hallucination rate of zero, whichever provider named the carrier.
UnexpectedBookingsAreSeen ==
    /\ execution_result.executed
    /\ execution_result.carrier \in Carriers \ ground_truth.entities
    =>
        /\ hallucination_rate(trajectory, ground_truth) > 0
        /\ execution_result.carrier \in
               rule_based_hallucination_check(trajectory, ground_truth.entities)

-----------------------------------------------------------------------------
(* What the documentation says and the metrics do not do.                  *)

\* A failed step that is followed by a successful retry of the same node
\* counts as recovered (docs/evaluation_framework.md).
RecoveredErrorsAreCredited ==
    \A i \in ErrorSteps(trajectory) :
        (\E j \in (i + 1)..Len(trajectory) :
            trajectory[j].node = trajectory[i].node /\ trajectory[j].error = "none")
        => Recovered(trajectory, i)

=============================================================================
