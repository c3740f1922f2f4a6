---------------------------- MODULE MCCommandLine ----------------------------
(***************************************************************************)
(* The shipped fixture and scenarios, and small suites, for TLC.           *)
(***************************************************************************)
EXTENDS CommandLine, PlannedRuns

ShippedRegions ==
    {"APAC-EAST", "US-WEST", "EU-WEST", "US-EAST", "EU-EAST",
     "AFRICA-SOUTH", "ANTARCTICA-RESEARCH"}

\* adapters/data/fixtures/mock_carriers.json.
ShippedNetwork == <<
    [regions |-> {"APAC-EAST", "US-WEST"}, cost |-> 210, hours |-> 36, reliability |-> 92, blocklisted |-> FALSE],
    [regions |-> {"EU-WEST", "US-EAST"}, cost |-> 185, hours |-> 48, reliability |-> 88, blocklisted |-> FALSE],
    [regions |-> {"APAC-EAST", "US-WEST"}, cost |-> 245, hours |-> 28, reliability |-> 81, blocklisted |-> FALSE],
    [regions |-> {"EU-WEST", "US-EAST"}, cost |-> 170, hours |-> 60, reliability |-> 65, blocklisted |-> FALSE],
    [regions |-> {"US-EAST", "US-WEST"}, cost |-> 260, hours |-> 20, reliability |-> 95, blocklisted |-> FALSE],
    [regions |-> {"EU-WEST", "EU-EAST"}, cost |-> 155, hours |-> 40, reliability |-> 70, blocklisted |-> TRUE] >>

ShippedAlert(type, severity, origin, destination, affected, inject) ==
    [alert_type |-> type, severity |-> severity, origin |-> origin,
     destination |-> destination, affected |-> affected,
     inject |-> [carrier_lookup |-> inject = "carrier_lookup",
                 execution |-> inject = "execution"]]

\* The alerts of the five shipped scenarios.
Alert1 == ShippedAlert("port_congestion", "high", "APAC-EAST", "US-WEST", 1, "nothing")
Alert2 == ShippedAlert("carrier_failure", "medium", "EU-WEST", "US-EAST", 2, "carrier_lookup")
Alert3 == ShippedAlert("weather_delay", "low", "US-EAST", "US-WEST", 0, "execution")
Alert4 == ShippedAlert("customs_hold", "none", "APAC-EAST", "US-WEST", 0, "nothing")
Alert5 == ShippedAlert("carrier_failure", "high", "AFRICA-SOUTH", "ANTARCTICA-RESEARCH", 0, "nothing")
ShippedAlerts == {Alert1, Alert2, Alert3, Alert4, Alert5}

FullTruth(entities) ==
    [order |-> <<"risk", "carrier_lookup", "route_optimizer", "validator", "execution", "audit">>,
     tools |-> {"risk_scorer", "carrier_lookup", "route_optimizer", "route_validator",
                "execution_simulator"},
     entities |-> entities, status |-> "SUCCESS"]

NoLaneTruth ==
    [order |-> <<"risk", "carrier_lookup">>, tools |-> {"risk_scorer", "carrier_lookup"},
     entities |-> {}, status |-> "ESCALATED"]

\* Their ground truths.
ShippedTruth ==
    [a \in ShippedAlerts |->
        CASE a = Alert1 -> FullTruth({3})
          [] a = Alert2 -> FullTruth({4})
          [] a = Alert3 -> FullTruth({5})
          [] a = Alert4 -> FullTruth({1, 3})
          [] a = Alert5 -> NoLaneTruth]

ShippedSettings ==
    [risk_escalation_threshold |-> 750, max_transit_hours |-> 72,
     max_retries_carrier_lookup |-> 2, max_retries_route_optimizer |-> 2,
     max_retries_execution |-> 1, write_audit_log_file |-> TRUE]
EvaluatedSettings == {ShippedSettings, [ShippedSettings EXCEPT !.write_audit_log_file = FALSE]}

ShippedSuites == {<<Alert1, Alert2, Alert3, Alert4, Alert5>>}
SmallSuites == UNION {[1..n -> {Alert2, Alert3, Alert5}] : n \in 1..3}
AllSuites == SmallSuites \cup ShippedSuites

DefaultProviders == {<<"mock", "mock_flaky">>}
\* A stub that raises may stand behind, or between, providers that answer.
StubbedProviders == {<<"mock", "claude">>, <<"claude", "mock">>, <<"mock_flaky", "mock">>}

AllProviders == DefaultProviders \cup StubbedProviders

\* The composite each run of the shipped suite is expected to have
\* (tests/regression/test_golden_scenarios.py), in the order of the runs.
GOLDEN_SCORES == <<4000, 4000, 4000, 3879, 4000, 4000, 4000, 4000, 3000, 3000>>

\* With the default providers, the report of the shipped scenarios has the golden scores and statuses, and
\* the summary the figures of README.md and docs/research_report.md.
ShippedReportIsGolden ==
    suite \in ShippedSuites /\ providers \in DefaultProviders =>
      \A cards \in NewReports :
        LET summary == aggregate_by_provider(cards)
        IN  /\ \A k \in DOMAIN cards :
                 /\ cards[k].card.composite_score = GOLDEN_SCORES[k]
                 /\ cards[k].card.final_status =
                        IF cards[k].run.alert = Alert5 THEN "ESCALATED" ELSE "SUCCESS"
            /\ summary["mock"].mean_composite_score = 3800
            /\ summary["mock_flaky"].mean_composite_score = 3776
            /\ summary["mock"].mean_retries = 400
            /\ summary["mock_flaky"].mean_retries = 800
            /\ \A p \in DOMAIN summary :
                 /\ summary[p].success_rate = 800
                 /\ summary[p].escalation_rate = 200
                 /\ summary[p].mean_hallucination_rate = 0

\* The shipped scenarios leave nothing to the rounding, inject no fault that the
\* ceilings do not absorb, and expect of their runs what the graph and the
\* fixture make of them.
ASSUME RoundingIsDecided(eval_settings)
ASSUME FaultsCanBeAbsorbed(eval_settings)
ASSUME OrdersAreOfTheGraph

=============================================================================
