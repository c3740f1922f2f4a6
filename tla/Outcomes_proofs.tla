---------------------------- MODULE Outcomes_proofs ----------------------------
(***************************************************************************)
(* Proofs about what the end of a run of a shipped provider says: that     *)
(* there was a viable carrier, that there was none, what was booked; for   *)
(* every network, set of alerts, settings and recursion limit.             *)
(***************************************************************************)
EXTENDS RetryCounts_proofs

-----------------------------------------------------------------------------
(* What the nodes know of the lane.                                        *)

\* From the optimizer on, the candidates are all carriers of the lane, unless
\* a failed lookup has gone unnoticed; without a proposal at the validator none
\* of them was feasible; the alternatives are those the proposal left over.
RouteInv ==
    provider # "adapter" =>
        /\ node \in {"route_optimizer", "validator"} =>
             \/ candidate_carriers = Lane
             \/ ~ LastErrorCarried /\ retry_counts.carrier_lookup > 0
        /\ node \in {"planner", "risk", "carrier_lookup"} => candidate_route = NoCarrier
        /\ node = "TypeError" \/ (node = "validator" /\ candidate_route = NoCarrier) =>
             \/ FeasibleCarriers(Lane, max_transit_hours) = {}
             \/ retry_counts.carrier_lookup > 0
        /\ node \in {"audit", "fail_execution"} \/ final_status = "SUCCESS" =>
             validation_result = "valid"
        /\ candidate_route # NoCarrier =>
             rejected_alternatives =
                 FeasibleCarriers(candidate_carriers, max_transit_hours) \ {candidate_route}

LEMMA RouteInit == Init => RouteInv
BY DEF Init, RouteInv

\* The inputs of a run, and so the lane of its alert, are fixed.
LEMMA InputsAreFixed ==
    [Next]_vars => UNCHANGED <<alert, provider, settings, Lane, ViableCarriers>>
BY DEF Next, NodeStep, Terminating, vars, inputs, Planner, Risk, CarrierLookup,
       RouteOptimizer, Validator, ValidateNothing, Execution, Audit,
       AuditWriteFails, EscalateHighRisk, EscalateNoViableRoute,
       FailExecution, Terminal, ProviderRaises, RecursionAbort, ResultIsNoModel,
       Lane, ViableCarriers

\* A carrier that could be booked is a feasible one of the lane.
LEMMA ViableAreFeasible == ViableCarriers \subseteq FeasibleCarriers(Lane, max_transit_hours)
BY DEF ViableCarriers, FeasibleCarriers, Lane, carrier_lookup, find_by_region

\* A lookup that reaches the optimizer has found the lane, or its failure is
\* not carried.
LEMMA LookupOutcome ==
    ASSUME TypeOK, ControlInv, CarrierLookup, node' = "route_optimizer"
    PROVE  \/ candidate_carriers' = Lane
           \/ ~ LastErrorCarried /\ retry_counts'.carrier_lookup > 0
<1>1. \/ candidate_carriers' = Lane
      \/ CountFailure("carrier_lookup") /\ SetLastError("carrier_lookup", FALSE)
    BY DEF CarrierLookup, Lane
<1>2. CASE CountFailure("carrier_lookup") /\ SetLastError("carrier_lookup", FALSE)
  <2>1. retry_counts'.carrier_lookup > 0
    BY <1>2 DEF CountFailure, TypeOK
  <2>2. ~ LastErrorCarried
    BY <1>2 DEF CarrierLookup, route_after_carrier_lookup, SetLastError
  <2> QED
    BY <2>1, <2>2
<1> QED
    BY <1>1, <1>2

LEMMA RouteStep ==
    TypeOK /\ ControlInv /\ ProposalInv /\ RouteInv /\ [Next]_vars => RouteInv'
<1> SUFFICES ASSUME TypeOK, ControlInv, ProposalInv, RouteInv, [Next]_vars,
                    provider' # "adapter"
             PROVE  RouteInv'
    BY DEF RouteInv
<1> USE DEF inputs, proposal, outcome, Stopped, Exceptions, Enters
<1>p. UNCHANGED <<alert, provider, settings, Lane>>
    BY InputsAreFixed
<1> HIDE DEF Lane
<1>s. provider # "adapter"
    BY <1>p
<1>1. CASE Planner
    BY <1>1, <1>p, <1>s DEF Planner, RouteInv
<1>2. CASE Risk
    BY <1>2, <1>p, <1>s DEF Risk, RouteInv, route_after_risk
<1>3. CASE CarrierLookup
  <2>1. /\ candidate_route = NoCarrier /\ candidate_route' = NoCarrier
        /\ validation_result' = validation_result /\ final_status' = final_status
        /\ node' \in {"route_optimizer", "carrier_lookup", "escalate_no_viable_route"}
    BY <1>3, <1>s DEF CarrierLookup, RouteInv, route_after_carrier_lookup
  <2> QED
    BY <1>3, <1>p, <1>s, <2>1, LookupOutcome DEF RouteInv
<1>4. CASE RouteOptimizer
  <2> DEFINE feasible == FeasibleCarriers(candidate_carriers, max_transit_hours)
  <2>1. /\ node = "route_optimizer"
        /\ UNCHANGED <<candidate_carriers, validation_result, retry_counts, final_status>>
        /\ node' \in {"validator", "escalate_no_viable_route"}
    BY <1>4 DEF RouteOptimizer, route_after_route_optimizer
  <2>2. \/ /\ candidate_route' \in route_optimizer(candidate_carriers, max_transit_hours)
           /\ rejected_alternatives' = feasible \ {candidate_route'}
        \/ feasible = {} /\ UNCHANGED proposal
    BY <1>4, <1>s, ShippedDecision DEF RouteOptimizer
  <2>3. ASSUME candidate_route' \in route_optimizer(candidate_carriers, max_transit_hours)
        PROVE  candidate_route' # NoCarrier
    BY <2>3, OptimizerChoosesCheapest DEF TypeOK, Carriers, NoCarrier
  <2>4. CASE candidate_route' \in route_optimizer(candidate_carriers, max_transit_hours)
    BY <1>p, <1>s, <2>1, <2>2, <2>3, <2>4 DEF RouteInv
  <2>5. CASE feasible = {} /\ UNCHANGED proposal
    BY <1>p, <1>s, <2>1, <2>5 DEF RouteInv
  <2> QED
    BY <2>2, <2>4, <2>5
<1>5. CASE Validator
  <2>1. /\ node = "validator" /\ candidate_route # NoCarrier
        /\ UNCHANGED <<candidate_carriers, proposal, final_status>>
        /\ retry_counts'.carrier_lookup = retry_counts.carrier_lookup
        /\ node' \in {"execution", "route_optimizer", "escalate_no_viable_route"}
    <3>1. PICK d \in Decisions(0) : d.carrier # NoCarrier
      BY <1>5, <1>s DEF Validator
    <3>2. retry_counts'.carrier_lookup = retry_counts.carrier_lookup
      BY <1>5 DEF Validator, CountFailure, TypeOK
    <3> QED
      BY <1>5, <1>s, <3>1, <3>2, ShippedDecision DEF Validator, route_after_validator
  <2> QED
    BY <1>p, <1>s, <2>1, <1>5 DEF RouteInv, ControlInv
<1>6. CASE ValidateNothing
  <2>1. candidate_route = NoCarrier
    BY <1>6, <1>s, ShippedDecision DEF ValidateNothing
  <2> QED
    BY <1>6, <1>p, <1>s, <2>1 DEF ValidateNothing, RouteInv
<1>7. CASE Execution
  <2>1. /\ node = "execution" /\ validation_result = "valid"
        /\ UNCHANGED <<candidate_carriers, proposal, final_status, validation_result>>
        /\ node' \in {"execution", "audit", "fail_execution"}
    BY <1>7, <1>s DEF Execution, ProposalInv, route_after_execution
  <2> QED
    BY <1>p, <1>s, <2>1 DEF RouteInv
<1>8. CASE Audit \/ AuditWriteFails
    BY <1>8, <1>p, <1>s DEF Audit, AuditWriteFails, RouteInv
<1>9. CASE EscalateHighRisk \/ EscalateNoViableRoute \/ FailExecution
    BY <1>9, <1>p, <1>s DEF EscalateHighRisk, EscalateNoViableRoute, FailExecution,
                            Terminal, RouteInv
<1>10. CASE ProviderRaises \/ RecursionAbort
    BY <1>10, <1>p, <1>s DEF ProviderRaises, RecursionAbort, RouteInv
<1>11. CASE UNCHANGED vars
    BY <1>11, <1>p, <1>s DEF vars, RouteInv
<1> QED
    BY <1>s, <1>1, <1>2, <1>3, <1>4, <1>5, <1>6, <1>7, <1>8, <1>9, <1>10, <1>11,
       ShippedResult DEF Next, NodeStep, Terminating

\* With a shipped provider a SUCCESS is about an alert with a viable carrier,
\* and the validator only meets a missing route when no carrier was feasible
\* or a lookup has failed: whether or not _last_error is carried.
THEOREM SuccessNeedsViableCarrier ==
    Spec => [](provider # "adapter" => NoSuccessWithoutViableCarrier)
<1>1. ASSUME TypeOK, ProposalInv, RouteInv, CountInv, provider # "adapter"
      PROVE  NoSuccessWithoutViableCarrier
  <2>1. ASSUME final_status = "SUCCESS"
        PROVE  ViableCarriers # {}
    <3>1. validation_result = "valid"
      BY <1>1, <2>1 DEF RouteInv
    <3>2. /\ candidate_route \in route_optimizer(Lane, max_transit_hours)
          /\ route_validator(candidate_route, max_transit_hours)
      BY <1>1, <3>1 DEF ProposalInv
    <3> QED
      BY <3>2, ValidChoiceIsCheapestViable
  <2>2. ASSUME node = "TypeError", retry_counts.carrier_lookup > 0
        PROVE  FailedStepsOf("carrier_lookup") # {}
    <3>1. Cardinality(FailedStepsOf("carrier_lookup")) # 0
      BY <1>1, <2>2 DEF CountInv, RetryCountsMatchTrajectory, TypeOK
    <3> QED
      BY <3>1, FS_EmptySet
  <2>3. node = "TypeError" => \/ FeasibleCarriers(Lane, max_transit_hours) = {}
                              \/ retry_counts.carrier_lookup > 0
    BY <1>1 DEF RouteInv
  <2> QED
    BY <2>1, <2>2, <2>3 DEF NoSuccessWithoutViableCarrier, Lane
<1>2. TypeOK /\ ProposalInv /\ RouteInv /\ CountInv
          => (provider # "adapter" => NoSuccessWithoutViableCarrier)
    BY <1>1
<1> QED
    BY <1>2, TypeCorrect, InitType, StepType, ControlInit, ControlStep, ProposalInit,
       ProposalStep, RouteInit, RouteStep, CountInit, CountStep, PTL DEF Spec

-----------------------------------------------------------------------------
(* An escalation for want of a route.                                      *)

\* No carrier of the lane is free, and a fault that the alert injects into the
\* lookup is within its retries: without the first the validator turns down a
\* route of a lane that may have others, without the second the spoilt call is
\* the only one.
Escalatable ==
    /\ \A c \in Lane : Network[c].cost > 0
    /\ alert.inject.carrier_lookup => settings.max_retries_carrier_lookup > 0

JustInv ==
    provider # "adapter" /\ Escalatable =>
        (node = "escalate_no_viable_route" \/ escalation_reason = "no_viable_route"
            => ViableCarriers = {})

\* Only the flaky mock spoils a lookup, and only the first one.
LEMMA OnlyTheFirstIsSpoilt ==
    ASSUME TypeOK, provider # "adapter", NEW failures, NEW d \in Decisions(failures),
           ~ d.schema_valid
    PROVE  alert.inject.carrier_lookup /\ failures = 0
<1>2. provider \in {"mock", "mock_flaky"}
    BY AnsweringProvider DEF MockProviders
<1>3. CASE provider = "mock"
  <2>1. d.schema_valid = TRUE
    BY <1>3 DEF Decisions, decide_tool_call, MockDecision
  <2> QED
    BY <2>1
<1>4. CASE provider = "mock_flaky"
  <2>1. d.schema_valid = ~ (/\ node = "carrier_lookup"
                            /\ alert.inject.carrier_lookup
                            /\ failures = 0)
    BY <1>4 DEF Decisions, decide_tool_call, FlakyDecision
  <2> QED
    BY <2>1
<1> QED
    BY <1>2, <1>3, <1>4

LEMMA JustStep ==
    TypeOK /\ ControlInv /\ ProposalInv /\ RouteInv /\ JustInv /\ [Next]_vars => JustInv'
<1> SUFFICES ASSUME TypeOK, ControlInv, ProposalInv, RouteInv, JustInv, [Next]_vars,
                    provider' # "adapter", Escalatable'
             PROVE  JustInv'
    BY DEF JustInv
<1> USE DEF inputs, proposal, outcome, Stopped, Exceptions, Enters
<1>p. UNCHANGED <<alert, provider, settings, Lane, ViableCarriers>>
    BY InputsAreFixed
<1>f. ViableCarriers \subseteq FeasibleCarriers(Lane, max_transit_hours)
    BY ViableAreFeasible
<1>s. provider # "adapter" /\ Escalatable
    BY <1>p DEF Escalatable
<1> HIDE DEF Lane, ViableCarriers
<1>w. ASSUME node' # "escalate_no_viable_route" \/ ViableCarriers = {},
             UNCHANGED escalation_reason
      PROVE  JustInv'
    BY <1>p, <1>s, <1>w DEF JustInv
<1>1. CASE Planner \/ Risk \/ ValidateNothing \/ Execution
    BY <1>1, <1>w DEF Planner, Risk, route_after_risk, ValidateNothing, Execution,
                      route_after_execution
<1>2. CASE CarrierLookup
  <2> DEFINE L == settings.max_retries_carrier_lookup
             lk == retry_counts.carrier_lookup
  <2>1. ASSUME node' = "escalate_no_viable_route"
        PROVE  ViableCarriers = {}
    <3>1. PICK d \in Decisions(lk) :
            \/ ClearLastError
            \/ /\ CountFailure("carrier_lookup")
               /\ ~ d.schema_valid \/ Lane = {}
      BY <1>2 DEF CarrierLookup, Lane
    <3>2. ~ ClearLastError /\ ~ (retry_counts'.carrier_lookup <= L)
      BY <1>2, <2>1 DEF CarrierLookup, route_after_carrier_lookup, ClearLastError,
                        NoError, ControlInv
    <3>3. retry_counts'.carrier_lookup = lk + 1 /\ lk \in Nat /\ L \in Nat
      BY <3>1, <3>2, SettingsType DEF CountFailure, TypeOK
    <3>4. ~ d.schema_valid => lk = 0 /\ L > 0
      BY <1>s, OnlyTheFirstIsSpoilt DEF Escalatable
    <3>5. Lane = {}
      BY <3>1, <3>2, <3>3, <3>4
    <3> QED
      BY <1>f, <3>5 DEF FeasibleCarriers
  <2> QED
    BY <1>2, <1>w, <2>1 DEF CarrierLookup
<1>3. CASE RouteOptimizer
  <2>1. ASSUME node' = "escalate_no_viable_route"
        PROVE  ViableCarriers = {}
    <3>1. LastErrorCarried /\ ~ ClearLastError
      BY <1>3, <2>1 DEF RouteOptimizer, route_after_route_optimizer, SetLastError,
                        ClearLastError, NoError, ControlInv
    <3>2. FeasibleCarriers(candidate_carriers, max_transit_hours) = {}
      BY <1>3, <1>s, <3>1, ShippedDecision DEF RouteOptimizer
    <3>3. candidate_carriers = Lane
      BY <1>3, <1>s, <3>1 DEF RouteOptimizer, RouteInv
    <3> QED
      BY <1>f, <3>2, <3>3
  <2> QED
    BY <1>3, <1>w, <2>1 DEF RouteOptimizer
<1>4. CASE Validator
  <2>1. PICK d \in Decisions(0) :
          /\ d.carrier # NoCarrier
          /\ \/ validation_result' = "valid"
             \/ ~ route_validator(d.carrier, max_transit_hours)
             \/ ~ d.schema_valid
    BY <1>4, <1>s, ShippedVerdict DEF Validator
  <2>2. d.carrier = candidate_route /\ d.schema_valid
    BY <1>4, <1>s, ShippedDecision DEF Validator
  <2>3. candidate_route \in route_optimizer(Lane, max_transit_hours)
    BY <1>s, <2>1, <2>2 DEF ProposalInv
  <2>4. candidate_route \in Lane /\ Network[candidate_route].hours <= max_transit_hours
    BY <2>3, OptimizerChoosesCheapest
  <2>5. Network[candidate_route].cost > 0 /\ Network[candidate_route].cost \in Int
    <3>1. candidate_route \in Carriers
      BY <2>1, <2>2, <2>4 DEF TypeOK
    <3> QED
      BY <1>s, <2>4, <3>1, CarrierType DEF Escalatable, Carrier
  <2>6. route_validator(candidate_route, max_transit_hours)
    BY <2>4, <2>5 DEF route_validator, estimated_cost
  <2>7. node' = "execution"
    BY <1>4, <2>1, <2>2, <2>6 DEF Validator, route_after_validator
  <2> QED
    BY <1>4, <1>w, <2>7 DEF Validator
<1>5. CASE Audit \/ AuditWriteFails \/ ProviderRaises \/ RecursionAbort
    BY <1>5, <1>w DEF Audit, AuditWriteFails, ProviderRaises, RecursionAbort
<1>6. CASE EscalateHighRisk \/ EscalateNoViableRoute \/ FailExecution
  <2>1. /\ node' = "END"
        /\ escalation_reason' = "no_viable_route" => node = "escalate_no_viable_route"
    BY <1>6 DEF EscalateHighRisk, EscalateNoViableRoute, FailExecution, Terminal
  <2> QED
    BY <1>p, <1>s, <2>1 DEF JustInv
<1>7. CASE UNCHANGED vars
    BY <1>7, <1>p, <1>s DEF vars, JustInv
<1> QED
    BY <1>s, <1>1, <1>2, <1>3, <1>4, <1>5, <1>6, <1>7, ShippedResult
       DEF Next, NodeStep, Terminating

\* A run of a shipped provider that ends for want of a route is about an alert
\* without a viable carrier, provided that no carrier of the lane is free and
\* that a fault injected into the lookup may be retried once.
THEOREM EscalationsAreJustified ==
    Spec => [](provider # "adapter" /\ Escalatable => EscalationIsJustified)
<1>1. JustInv => (provider # "adapter" /\ Escalatable => EscalationIsJustified)
    BY DEF JustInv, EscalationIsJustified
<1>2. Init => JustInv
    BY DEF Init, JustInv
<1> QED
    BY <1>1, <1>2, InitType, StepType, ControlInit, ControlStep, ProposalInit,
       ProposalStep, RouteInit, RouteStep, JustStep, PTL DEF Spec

-----------------------------------------------------------------------------
(* The audit record.                                                       *)

FaithInv == provider # "adapter" => AuditIsFaithful

\* The audit's own step is no tool call.
LEMMA AuditIsNoToolCall ==
    ASSUME TypeOK, Audit
    PROVE  total_tool_calls' = total_tool_calls
<1> DEFINE n == Len(trajectory)
           Calls == {i \in DOMAIN trajectory : trajectory[i].node \in ToolNodes}
<1>1. trajectory \in Seq(Step) /\ n \in Nat /\ DOMAIN trajectory = 1..n
    BY DEF TypeOK
<1>2. /\ DOMAIN trajectory' = (1..n) \cup {n + 1} /\ n + 1 \notin 1..n
      /\ \A i \in 1..n : trajectory'[i] = trajectory[i]
      /\ trajectory'[n + 1].node = "audit"
    BY <1>1 DEF Audit, add_step
<1>3. "audit" \notin ToolNodes
    BY DEF ToolNodes
<1>4. Calls' = Calls
    BY <1>1, <1>2, <1>3
<1> QED
    BY <1>4 DEF total_tool_calls

LEMMA FaithStep ==
    ASSUME LastErrorCarried
    PROVE  TypeOK /\ ControlInv /\ ProposalInv /\ RouteInv /\ FaithInv /\ [Next]_vars
               => FaithInv'
<1> SUFFICES ASSUME TypeOK, ControlInv, ProposalInv, RouteInv, FaithInv, [Next]_vars,
                    provider' # "adapter"
             PROVE  AuditIsFaithful'
    BY DEF FaithInv
<1> USE DEF inputs, proposal, outcome
<1>p. provider # "adapter" /\ AuditIsFaithful /\ settings' = settings
    BY InputsAreFixed DEF FaithInv
<1>l. audit_log \in Seq(AuditRecord) /\ Len(audit_log) \in Nat
    BY DEF TypeOK
\* Before its audit a run has no record.
<1>1. ASSUME node # "END"
      PROVE  final_status = "IN_PROGRESS" /\ Len(audit_log) = 0
  <2>1. final_status = "IN_PROGRESS"
    BY <1>1 DEF ControlInv
  <2> QED
    BY <1>p, <2>1 DEF AuditIsFaithful
<1>2. CASE Audit
  <2>1. /\ node = "audit" /\ final_status' = "SUCCESS"
        /\ UNCHANGED <<execution_result, candidate_carriers, risk_assessment>>
        /\ audit_log' = IF settings.write_audit_log_file
                        THEN Append(audit_log, audit_record) ELSE audit_log
    BY <1>2 DEF Audit, Enters
  <2>2. Len(audit_log) = 0
    BY <1>1, <2>1
  <2>3. /\ candidate_route # NoCarrier /\ execution_result.carrier = candidate_route
    BY <1>p, <2>1, LastErrorCarried DEF ControlInv, ProposalInv
  <2>4. rejected_alternatives =
            FeasibleCarriers(candidate_carriers, max_transit_hours) \ {candidate_route}
    BY <1>p, <2>3 DEF RouteInv
  <2>5. /\ audit_record.chosen_route = candidate_route
        /\ audit_record.rejected_alternatives = rejected_alternatives
        /\ audit_record.risk_score = risk_assessment
        /\ audit_record.tool_call_count = total_tool_calls
    BY DEF audit_record
  <2>6. total_tool_calls' = total_tool_calls
    BY <1>2, AuditIsNoToolCall
  <2>7. CASE settings.write_audit_log_file
    <3>1. Len(audit_log') = 1 /\ DOMAIN audit_log' = {1} /\ audit_log'[1] = audit_record
      BY <1>l, <2>1, <2>2, <2>7
    <3> QED
      BY <1>p, <2>1, <2>3, <2>4, <2>5, <2>6, <2>7, <3>1 DEF AuditIsFaithful
  <2>8. CASE ~ settings.write_audit_log_file
    <3>1. Len(audit_log') = 0 /\ DOMAIN audit_log' = {}
      BY <1>l, <2>1, <2>2, <2>8
    <3> QED
      BY <1>p, <2>1, <2>8, <3>1 DEF AuditIsFaithful
  <2> QED
    BY <2>7, <2>8
<1>3. CASE NodeStep /\ ~ Audit
  <2>1. /\ node # "END" /\ UNCHANGED audit_log
        /\ final_status' # "SUCCESS" \/ UNCHANGED final_status
    BY <1>3, <1>p, ShippedResult DEF NodeStep, Planner, Risk, CarrierLookup, RouteOptimizer, Validator,
                ValidateNothing, Execution, AuditWriteFails, EscalateHighRisk,
                EscalateNoViableRoute, FailExecution, Terminal, ProviderRaises,
                RecursionAbort, Enters, Nodes, StepNodes, ToolNodes, TerminalNodes
  <2>2. final_status' # "SUCCESS" /\ Len(audit_log') = 0 /\ DOMAIN audit_log' = {}
    BY <1>1, <1>l, <2>1
  <2> QED
    BY <2>2 DEF AuditIsFaithful
<1>4. CASE UNCHANGED vars
    BY <1>4, <1>p DEF vars, AuditIsFaithful, total_tool_calls
<1> QED
    BY <1>2, <1>3, <1>4 DEF Next, Terminating

\* With a shipped provider the audit file gets one record for each SUCCESS that
\* asks for it; it names the carrier that was booked, the alternatives that
\* were feasible, the score and every tool call of the run.
THEOREM AuditsAreFaithful ==
    ASSUME LastErrorCarried
    PROVE  Spec => [](provider # "adapter" => AuditIsFaithful)
<1>1. FaithInv => (provider # "adapter" => AuditIsFaithful)
    BY DEF FaithInv
<1>2. Init => FaithInv
    BY DEF Init, FaithInv, AuditIsFaithful
<1> QED
    BY <1>1, <1>2, InitType, StepType, ControlInit, ControlStep, ProposalInit,
       ProposalStep, RouteInit, RouteStep, FaithStep, PTL DEF Spec

=============================================================================
