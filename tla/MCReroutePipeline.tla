------------------------- MODULE MCReroutePipeline -------------------------
(***************************************************************************)
(* Small carrier networks, alerts and settings for TLC.                    *)
(***************************************************************************)
EXTENDS ReroutePipeline

MCRegions == {"A", "B", "C", "D"}

\* Lane A-B: two equally cheap carriers, one of them exactly at the transit
\* limit, behind a cheaper one that is an hour too slow and a cheaper one that
\* is blocklisted.  Lane A-C: a carrier, but too slow.  Lane B-D: none.
PricedNetwork == <<
    [regions |-> {"A", "B"}, cost |-> 3, hours |-> 72, reliability |-> 60, blocklisted |-> FALSE],
    [regions |-> {"A", "B"}, cost |-> 2, hours |-> 73, reliability |-> 90, blocklisted |-> FALSE],
    [regions |-> {"A", "B"}, cost |-> 3, hours |-> 30, reliability |-> 95, blocklisted |-> FALSE],
    [regions |-> {"A", "B"}, cost |-> 1, hours |-> 10, reliability |-> 80, blocklisted |-> TRUE],
    [regions |-> {"A", "C"}, cost |-> 1, hours |-> 90, reliability |-> 70, blocklisted |-> FALSE] >>

\* Lane A-B: a free carrier, which the validator turns down, and a priced one.
FreeCarrierNetwork == <<
    [regions |-> {"A", "B"}, cost |-> 2, hours |-> 48, reliability |-> 88, blocklisted |-> FALSE],
    [regions |-> {"A", "B"}, cost |-> 0, hours |-> 60, reliability |-> 65, blocklisted |-> FALSE],
    [regions |-> {"A", "C"}, cost |-> 0, hours |-> 40, reliability |-> 70, blocklisted |-> FALSE] >>

\* Only the lane A-B of it.
PairNetwork == SubSeq(FreeCarrierNetwork, 1, 2)

AlertOn(lanes, affected, severities, injections) ==
    {[alert_type |-> "unknown", severity |-> s, origin |-> l[1], destination |-> l[2],
      affected |-> a, inject |-> i] :
        l \in lanes, a \in affected, s \in severities, i \in injections}

AnyInjection == [carrier_lookup : BOOLEAN, execution : BOOLEAN]
NoInjection == [carrier_lookup |-> FALSE, execution |-> FALSE]

\* The risk that may exceed a threshold is the critical one about carrier 1; it
\* does so, or not, before the pipeline knows of any lane.
PricedAlerts ==
    AlertOn({<<"A", "B">>, <<"A", "C">>, <<"B", "D">>}, {0, 1, 3}, {"none"}, AnyInjection)
    \cup AlertOn({<<"A", "C">>, <<"B", "D">>}, {0, 3}, {"critical"}, AnyInjection)
    \cup AlertOn({<<"A", "B">>}, {0, 1, 3}, {"critical"}, AnyInjection)
FreeCarrierAlerts ==
    AlertOn({<<"A", "B">>, <<"A", "C">>, <<"B", "D">>}, {0, 1, 2}, {"none"}, AnyInjection)
\* About carrier 1, so that it may be booked although nobody expects it.
AdapterAlerts ==
    AlertOn({<<"A", "B">>, <<"B", "D">>}, {1}, {"none"}, {NoInjection})

\* 752 is the lower of the two scores of a critical alert about carrier 1.
Thresholds == {752, 1000}

SettingsWith(thresholds, lookups, routes, executions, writes) ==
    [risk_escalation_threshold : thresholds, max_transit_hours : {72},
     max_retries_carrier_lookup : lookups, max_retries_route_optimizer : routes,
     max_retries_execution : executions, write_audit_log_file : writes]

RetrySettings == SettingsWith(Thresholds, 1..2, {2}, 0..1, BOOLEAN)
LoopSettings == SettingsWith({1000}, {2}, 0..3, {1}, {TRUE})
AdapterSettings == SettingsWith({1000}, 1..2, {1}, 0..1, {TRUE})
\* A transit limit below the 72 hours the mock asks for.
TightTransitSettings ==
    {[s EXCEPT !.max_transit_hours = 48] : s \in SettingsWith({750}, {2}, {2}, {1}, {FALSE})}

=============================================================================
