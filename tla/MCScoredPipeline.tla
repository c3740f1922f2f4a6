--------------------------- MODULE MCScoredPipeline ---------------------------
(***************************************************************************)
(* Ground truths for the alerts of MCReroutePipeline.                      *)
(***************************************************************************)
EXTENDS MCReroutePipeline, PlannedRuns

\* What the author of a scenario writes down for an alert, reading the fixture
\* as the shipped scenarios do: the carriers of the lane that may take over,
\* and how far the pipeline should get.
TruthOf(a, threshold) ==
    LET usable == {c \in Carriers : /\ {a.origin, a.destination} \subseteq Network[c].regions
                                    /\ c # a.affected
                                    /\ ~ Network[c].blocklisted}
        stages == IF \E s \in risk_scorer(a.alert_type, a.severity, a.affected) : s > threshold
                  THEN 1
                  ELSE IF usable = {} THEN 2
                  ELSE IF \A c \in usable : Network[c].hours > max_transit_hours THEN 3
                  ELSE 6
    IN  [order |-> SubSeq(FullOrder, 1, stages),
         tools |-> {tool_name[FullOrder[i]] : i \in 1..stages \ {6}},
         entities |-> usable,
         status |-> IF stages = 6 THEN "SUCCESS" ELSE "ESCALATED"]

\* Above the scores of all alerts but the critical ones about carrier 1.
TruthThreshold == 700

PricedTruth == [a \in PricedAlerts |-> TruthOf(a, TruthThreshold)]
AdapterTruth == [a \in AdapterAlerts |-> TruthOf(a, TruthThreshold)]

\* These truths, and the runs' settings, leave the expected order of a scenario
\* within what its runs reach.
ASSUME OrdersAreOfTheGraph

=============================================================================
