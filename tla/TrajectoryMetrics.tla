-------------------------- MODULE TrajectoryMetrics --------------------------
(***************************************************************************)
(* The metrics of evaluation/metrics.py, the score card of                 *)
(* evaluation/scorer.py and the judge of evaluation/judge.py, as operators *)
(* on a trajectory t, the status it ended with and the ground truth of its *)
(* scenario.                                                               *)
(*                                                                         *)
(* A step is a record with fields node, tool, error, retry_of (0 for None) *)
(* and entities.  A step at one of the ToolNodes holds one tool call, any  *)
(* other none; the call was schema-valid unless its error is "schema".  No *)
(* list of entities holds one twice, so a list is a set.                   *)
(*                                                                         *)
(* Units: a metric that lies in [0, 1] and the composite are in            *)
(* thousandths, rubric scores in hundredths, latencies in milliseconds.    *)
(***************************************************************************)
EXTENDS ModelProvider, FiniteSets

Truth ==
    [order : Seq(ToolNodes \cup {"audit"}),
     tools : SUBSET ToolNames,
     entities : SUBSET Carriers,
     status : {"SUCCESS", "ESCALATED", "FAILED"}]

SYNTHETIC_LATENCY_MS ==
    [planner |-> 120, risk |-> 90, carrier_lookup |-> 150, route_optimizer |-> 180,
     validator |-> 80, execution |-> 200, audit |-> 60]

\* Faulty variant: forgets the edge from the validator back to the optimizer.
LEGAL_TRANSITIONS_Forward ==
    { <<"planner", "risk">>, <<"risk", "carrier_lookup">>,
      <<"carrier_lookup", "carrier_lookup">>, <<"carrier_lookup", "route_optimizer">>,
      <<"route_optimizer", "validator">>, <<"validator", "execution">>,
      <<"execution", "execution">>, <<"execution", "audit">> }

LEGAL_TRANSITIONS ==
    { <<"planner", "risk">>, <<"risk", "carrier_lookup">>,
      <<"carrier_lookup", "carrier_lookup">>, <<"carrier_lookup", "route_optimizer">>,
      <<"route_optimizer", "validator">>, <<"validator", "route_optimizer">>,
      <<"validator", "execution">>, <<"execution", "execution">>,
      <<"execution", "audit">> }

-----------------------------------------------------------------------------
\* The integer nearest to part / whole; a tie is rounded up.  Python rounds the
\* binary value to whichever side it lies on, but a metric only ties over a
\* multiple of 16 steps, calls or references, more than the runs here have.
Nearest(part, whole) == (2 * part + whole) \div (2 * whole)

\* round(part / whole, 3), in thousandths.
Ratio(part, whole) == Nearest(1000 * part, whole)

ToolCalls(t) == {i \in DOMAIN t : t[i].node \in ToolNodes}
ErrorSteps(t) == {i \in DOMAIN t : t[i].error # "none"}

\* Faulty variant: repeated nodes are kept.
collapsed_node_sequence_Whole(t) == DOMAIN t

\* Runs of steps at one node count as one: the positions where one starts.
collapsed_node_sequence(t) == {i \in DOMAIN t : i = 1 \/ t[i - 1].node # t[i].node}

\* Without the planner, the collapsed sequence is compared place by place.
plan_coherence(t, truth) ==
    LET actual == {i \in collapsed_node_sequence(t) : t[i].node # "planner"}
        place(i) == Cardinality({j \in actual : j <= i})
        matches == {k \in DOMAIN truth.order :
                        \E i \in actual : place(i) = k /\ t[i].node = truth.order[k]}
    IN  IF truth.order = <<>> THEN 1000
        ELSE Ratio(Cardinality(matches), Len(truth.order))

tool_selection_precision(t, truth) ==
    LET correct == {i \in ToolCalls(t) : t[i].tool \in truth.tools}
    IN  IF truth.tools = {} THEN 1000
        ELSE IF ToolCalls(t) = {} THEN 0
        ELSE Ratio(Cardinality(correct), Cardinality(ToolCalls(t)))

\* Faulty variant: the rate is over all steps.
schema_validity_rate_PerStep(t) ==
    IF t = <<>> THEN 1000
    ELSE Ratio(Cardinality({i \in DOMAIN t : t[i].error # "schema"}), Len(t))

schema_validity_rate(t) ==
    LET valid == {i \in ToolCalls(t) : t[i].error # "schema"}
    IN  IF ToolCalls(t) = {} THEN 1000
        ELSE Ratio(Cardinality(valid), Cardinality(ToolCalls(t)))

valid_transition_rate(t) ==
    LET valid == {i \in 2..Len(t) : <<t[i - 1].node, t[i].node>> \in LEGAL_TRANSITIONS}
    IN  IF Len(t) < 2 THEN 1000 ELSE Ratio(Cardinality(valid), Len(t) - 1)

\* The next step at the node of step i succeeded.
Recovered(t, i) ==
    \E j \in DOMAIN t :
        /\ j > i
        /\ t[j].node = t[i].node
        /\ t[j].error = "none"
        /\ \A k \in (i + 1)..(j - 1) : t[k].node # t[i].node

error_recovery_success_rate(t) ==
    LET recovered == {i \in ErrorSteps(t) : Recovered(t, i)}
    IN  IF ErrorSteps(t) = {} THEN 1000
        ELSE Ratio(Cardinality(recovered), Cardinality(ErrorSteps(t)))

\* A count, in spite of its name.
average_retries(t) == Cardinality({i \in DOMAIN t : t[i].retry_of # 0})

\* Faulty variant: leaves out what the execution node refers to.
References_BeforeExecution(t) ==
    UNION {{i} \X t[i].entities : i \in {j \in DOMAIN t : t[j].node # "execution"}}

\* Each reference counts, however often its entity is referred to.
References(t) == UNION {{i} \X t[i].entities : i \in DOMAIN t}

hallucination_rate(t, truth) ==
    LET hallucinated == {r \in References(t) : r[2] \notin truth.entities}
    IN  IF References(t) = {} THEN 0
        ELSE Ratio(Cardinality(hallucinated), Cardinality(References(t)))

task_completion(status, truth) == IF status = truth.status THEN 1000 ELSE 0

\* The latency of a step is that of its node.
total_latency_ms(t) ==
    LET spent(n) == SYNTHETIC_LATENCY_MS[n] * Cardinality({i \in DOMAIN t : t[i].node = n})
    IN  spent("planner") + spent("risk") + spent("carrier_lookup") + spent("route_optimizer")
        + spent("validator") + spent("execution") + spent("audit")

\* The entities of the trajectory that are not known.
rule_based_hallucination_check(t, known) == {r[2] : r \in References(t)} \ known

-----------------------------------------------------------------------------
(* The score card.  Token costs are 0 in every step this code records, so  *)
(* estimated_cost is left out.                                             *)

\* Four times the metric, to the nearest hundredth; there is never a tie.
to_rubric(value) == Nearest(4 * value, 10)

\* Faulty variant: task completion and hallucination have changed places.
composite_scores_Swapped(completion, recovery, correctness, transitions, hallucination, planning) ==
    LET sum == 7 * completion + 25 * recovery + 18 * correctness
               + 18 * transitions + 25 * hallucination + 7 * planning
    IN  {(sum + 4) \div 10, (sum + 5) \div 10}

\* The weighted sum is in ten-thousandths; half way between two thousandths
\* floating point decides, so the score is one of a set.
composite_scores(completion, recovery, correctness, transitions, hallucination, planning) ==
    LET sum == 25 * completion + 25 * recovery + 18 * correctness
               + 18 * transitions + 7 * hallucination + 7 * planning
    IN  {(sum + 4) \div 10, (sum + 5) \div 10}

\* The composites the trajectory may be given.
CompositeScores(t, status, truth) ==
    composite_scores(
        to_rubric(task_completion(status, truth)),
        to_rubric(error_recovery_success_rate(t)),
        to_rubric(schema_validity_rate(t)),
        to_rubric(valid_transition_rate(t)),
        to_rubric(1000 - hallucination_rate(t, truth)),
        to_rubric(plan_coherence(t, truth)))

\* The score cards the trajectory may be given, with the raw metrics.
compute_scorecard(t, status, truth) ==
    {[final_status |-> status,
      plan_coherence |-> plan_coherence(t, truth),
      tool_selection_precision |-> tool_selection_precision(t, truth),
      schema_validity_rate |-> schema_validity_rate(t),
      valid_transition_rate |-> valid_transition_rate(t),
      error_recovery_success_rate |-> error_recovery_success_rate(t),
      average_retries |-> average_retries(t),
      hallucination_rate |-> hallucination_rate(t, truth),
      task_completion |-> task_completion(status, truth),
      total_latency_ms |-> total_latency_ms(t),
      composite_score |-> score] :
        score \in CompositeScores(t, status, truth)}

=============================================================================
