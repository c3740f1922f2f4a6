---------------------- MODULE ReroutePipeline_proofs ----------------------
(***************************************************************************)
(* Proofs about ReroutePipeline, for every network, set of alerts,         *)
(* settings, providers and recursion limit.                                *)
(***************************************************************************)
EXTENDS ReroutePipeline, FiniteSetTheorems, TLAPS

-----------------------------------------------------------------------------
(* The operators the nodes call.                                           *)

\* Every position of the network holds a carrier.
LEMMA CarrierType ==
    ASSUME NEW c \in Carriers
    PROVE  Network[c] \in Carrier
BY NetworkAssumption DEF NetworkAssumption, Carriers

\* The weighted sum is at most 1865 half thousandths, so a risk score lies
\* between 0 and 1000 without the clamp of risk_scorer.py.
LEMMA RiskScoreRange ==
    ASSUME NEW type \in AlertTypes, NEW severity \in Severities, NEW affected
    PROVE  risk_scorer(type, severity, affected) \subseteq 0..1000
<1>1. PICK t \in 0..25 : t = AlertTypeWeight[type]
    BY DEF AlertTypes, AlertTypeWeight
<1>2. PICK s \in 0..95 : s = SeverityWeight[severity]
    BY DEF Severities, SeverityWeight
<1>3. PICK u \in 0..100 : u = Unreliability(affected)
  <2>1. ASSUME affected \in Carriers
        PROVE  Network[affected].reliability \in 0..100
    BY <2>1, CarrierType DEF Carrier
  <2> QED
    BY <2>1 DEF Unreliability
<1> DEFINE halves == 12 * s + 5 * t + 6 * u
<1>4. halves \in 0..1865
    OBVIOUS
<1>6. risk_scorer(type, severity, affected) = {halves \div 2, (halves + 1) \div 2}
    BY <1>1, <1>2, <1>3, Zenon DEF risk_scorer
<1>5. halves \div 2 \in 0..1000 /\ (halves + 1) \div 2 \in 0..1000
  <2> HIDE DEF halves
  <2> QED
    BY <1>4
<1> QED
    BY <1>5, <1>6

\* The route the optimizer returns is one of the candidates and feasible, and
\* no feasible candidate is cheaper.
LEMMA OptimizerChoosesCheapest ==
    ASSUME NEW candidates, NEW hours, NEW c \in route_optimizer(candidates, hours)
    PROVE  /\ c \in candidates
           /\ Network[c].hours <= hours
           /\ \A other \in FeasibleCarriers(candidates, hours) : SortsBefore(c, other)
BY DEF route_optimizer, FeasibleCarriers

\* What a mock answers calls the node's own tool and names the candidate route,
\* and only a lookup may be malformed.
LEMMA MockNamesCandidate ==
    ASSUME NEW p \in MockProviders, NEW n, NEW a, NEW route, NEW failures,
           NEW d \in decide_tool_call(p, n, a, route, failures)
    PROVE  /\ d.tool = tool_name[n]
           /\ d.carrier = route
           /\ n # "carrier_lookup" => d.schema_valid
<1>1. CASE p = "mock"
  <2>1. d = MockDecision(n, route, failures)
    BY <1>1 DEF decide_tool_call
  <2> QED
    BY <2>1 DEF MockDecision
<1>2. CASE p = "mock_flaky"
  <2>1. d = FlakyDecision(n, a, route, failures)
    BY <1>2 DEF decide_tool_call
  <2> QED
    BY <2>1 DEF FlakyDecision
<1> QED
    BY <1>1, <1>2 DEF MockProviders

\* A provider that answers is a mock or an adapter, whose answers are decisions.
LEMMA AnsweringProvider ==
    ASSUME TypeOK, NEW failures, NEW d \in Decisions(failures)
    PROVE  \/ provider \in MockProviders
           \/ /\ provider = "adapter" /\ d \in Decision
              /\ d.schema_valid => ReachesTool(node, d)
<1>1. provider \in Providers
    BY InputAssumption DEF TypeOK, InputAssumption
<1>2. CASE provider \in StubProviders
    BY <1>2 DEF Decisions, decide_tool_call, StubProviders
<1>3. CASE provider = "adapter"
    BY <1>3 DEF Decisions, decide_tool_call
<1> QED
    BY <1>1, <1>2, <1>3 DEF Providers

\* The answer names a tool, registered or not, and a carrier, known or not.
LEMMA DecisionType ==
    ASSUME TypeOK, node \in ToolNodes, NEW failures, NEW d \in Decisions(failures)
    PROVE  /\ d.tool \in ToolNames \cup {Unregistered}
           /\ d.carrier \in Carriers \cup {NoCarrier}
<1>1. CASE provider = "adapter" /\ d \in Decision
    BY <1>1 DEF Decision
<1>2. CASE provider \in MockProviders
  <2>1. d.tool = tool_name[node] /\ d.carrier = candidate_route
    BY <1>2, MockNamesCandidate DEF Decisions
  <2> QED
    BY <2>1 DEF tool_name, ToolNodes, ToolNames, TypeOK
<1> QED
    BY <1>1, <1>2, AnsweringProvider

LEMMA ShippedDecision ==
    ASSUME TypeOK, provider # "adapter", NEW failures, NEW d \in Decisions(failures)
    PROVE  /\ d.tool = tool_name[node]
           /\ d.carrier = candidate_route
           /\ node # "carrier_lookup" => d.schema_valid
<1>1. provider \in MockProviders
    BY AnsweringProvider
<1> QED
    BY <1>1, MockNamesCandidate DEF Decisions

\* So a shipped provider's risk call returns a score, and its execution call
\* books or fails transiently.
LEMMA ShippedCall ==
    ASSUME TypeOK, provider # "adapter", NEW failures, NEW d \in Decisions(failures)
    PROVE  /\ node = "risk" => d.tool = "risk_scorer" /\ CallError(d) = "none"
           /\ node = "execution" =>
                /\ d.tool = "execution_simulator"
                /\ CallError(d) = IF FailsTransiently(d.force, d.attempt)
                                  THEN "transient" ELSE "none"
<1>1. d.tool = tool_name[node] /\ (node # "carrier_lookup" => d.schema_valid)
    BY ShippedDecision
<1>2. CASE node = "risk"
  <2>1. d.tool = "risk_scorer" /\ d.schema_valid
    BY <1>1, <1>2 DEF tool_name
  <2> QED
    BY <1>2, <2>1 DEF CallError, NoModelError
<1>3. CASE node = "execution"
  <2>1. d.tool = "execution_simulator" /\ d.schema_valid
    BY <1>1, <1>3 DEF tool_name
  <2> QED
    BY <1>3, <2>1 DEF CallError, NoModelError
<1> QED
    BY <1>2, <1>3

\* Nor does it make a plain node take a list for a model.
LEMMA ShippedResult ==
    ASSUME TypeOK, provider # "adapter"
    PROVE  ~ ResultIsNoModel
<1> SUFFICES ASSUME ResultIsNoModel
             PROVE  FALSE
    OBVIOUS
<1>1. node \in {"risk", "execution"}
    BY DEF ResultIsNoModel, PlainNodes
<1>2. PICK failures : \E d \in Decisions(failures) : d.tool \in DOMAIN NoModelError
    BY DEF ResultIsNoModel
<1> QED
    BY <1>1, <1>2, ShippedCall DEF NoModelError

\* And the validator's verdict is the one the network's figures call for.
LEMMA ShippedVerdict ==
    ASSUME provider # "adapter", NEW route
    PROVE  /\ TRUE \in Verdicts(provider, route)
                 <=> route_validator(route, max_transit_hours)
           /\ FALSE \in Verdicts(provider, route)
                 <=> ~ route_validator(route, max_transit_hours)
BY DEF Verdicts, route_validator

LEMMA ErrorOfCall == \A d : CallError(d) \in Errors
<1>1. \A d : d.tool \in DOMAIN NoModelError => NoModelError[d.tool] \in Errors
    BY DEF NoModelError, Errors
<1> QED
    BY <1>1 DEF CallError, Errors

\* What the node does whose call returned a list or a tuple.
LEMMA NoModelStep ==
    ASSUME ResultIsNoModel
    PROVE  /\ node \in {"risk", "execution"}
           /\ Enters(node)
           /\ node' = "AttributeError"
           /\ \E tool \in ToolNames :
                \/ /\ node = "execution"
                   /\ add_step("execution", tool, "none", retry_of_step("execution"),
                               {NoCarrier})
                \/ node = "risk" /\ add_step("risk", tool, "none", 0, {})
           /\ UNCHANGED <<inputs, risk_assessment, candidate_carriers, proposal,
                          validation_result, execution_result, retry_counts,
                          last_error, outcome, audit_log>>
<1>1. node \in {"risk", "execution"}
    BY DEF ResultIsNoModel, PlainNodes
<1>2. PICK failures : \E d \in Decisions(failures) :
          /\ d.tool \in DOMAIN NoModelError
          /\ IF node = "execution"
             THEN add_step(node, d.tool, "none", retry_of_step("execution"), {NoCarrier})
             ELSE add_step(node, d.tool, "none", 0, {})
    BY DEF ResultIsNoModel
<1>3. DOMAIN NoModelError \subseteq ToolNames
    BY DEF NoModelError, ToolNames
<1> QED
    BY <1>1, <1>2, <1>3 DEF ResultIsNoModel

-----------------------------------------------------------------------------
(* Type correctness.                                                       *)

LEMMA PreviousStepType ==
    ASSUME TypeOK, NEW n \in {"carrier_lookup", "execution"}
    PROVE  retry_of_step(n) \in Nat
<1>1. PreviousStep(n) \in Nat
  <2>1. \A i \in DOMAIN trajectory : i \in Nat
    BY DEF TypeOK
  <2> QED
    BY <2>1 DEF PreviousStep
<1> QED
    BY <1>1 DEF retry_of_step

LEMMA AddStepType ==
    ASSUME TypeOK, NEW n \in StepNodes, NEW e \in Errors, NEW r \in Nat,
           NEW tool \in StepTools,
           NEW entities \in SUBSET (Carriers \cup {NoCarrier}),
           add_step(n, tool, e, r, entities)
    PROVE  trajectory' \in Seq(Step)
<1>1. [node |-> n, tool |-> tool, error |-> e, retry_of |-> r, entities |-> entities]
          \in Step
    BY DEF Step
<1> QED
    BY <1>1 DEF add_step, TypeOK

LEMMA AddPlainStepType ==
    ASSUME TypeOK, NEW n \in StepNodes, add_step(n, "none", "none", 0, {})
    PROVE  trajectory' \in Seq(Step)
<1>1. [node |-> n, tool |-> "none", error |-> "none", retry_of |-> 0, entities |-> {}]
          \in Step
    BY DEF Step, StepTools, Errors
<1> QED
    BY <1>1 DEF add_step, TypeOK

LEMMA CountFailureType ==
    ASSUME TypeOK, NEW n \in DOMAIN NoRetries, CountFailure(n)
    PROVE  retry_counts' \in
               [carrier_lookup : Nat, route_optimizer : Nat, execution : Nat]
BY DEF TypeOK, CountFailure, NoRetries

LEMMA LastErrorType ==
    ASSUME TypeOK, NEW n \in ToolNodes, NEW transient \in BOOLEAN,
           SetLastError(n, transient) \/ ClearLastError
    PROVE  last_error' \in [node : ToolNodes \cup {"none"}, transient : BOOLEAN]
<1>1. last_error \in [node : ToolNodes \cup {"none"}, transient : BOOLEAN]
    BY DEF TypeOK
<1>2. CASE SetLastError(n, transient)
    BY <1>1, <1>2 DEF SetLastError
<1>3. CASE ClearLastError
    BY <1>1, <1>3 DEF ClearLastError, NoError
<1> QED
    BY <1>2, <1>3

LEMMA ToolCallsType == TypeOK => total_tool_calls \in Nat
<1> SUFFICES ASSUME TypeOK
             PROVE  total_tool_calls \in Nat
    OBVIOUS
<1>1. DOMAIN trajectory = 1..Len(trajectory) /\ Len(trajectory) \in Nat
    BY DEF TypeOK
<1>2. IsFiniteSet(DOMAIN trajectory)
    BY <1>1, FS_Interval
<1>3. IsFiniteSet({i \in DOMAIN trajectory : trajectory[i].node \in ToolNodes})
    BY <1>2, FS_Subset
<1> QED
    BY <1>3, FS_CardinalityType DEF total_tool_calls

LEMMA InitType == Init => TypeOK
BY InputAssumption
   DEF Init, TypeOK, NotExecuted, NoRetries, NoError, NoScore, Nodes, StepNodes,
       InputAssumption

LEMMA StepType == TypeOK /\ [Next]_vars => TypeOK'
<1> SUFFICES ASSUME TypeOK, [Next]_vars
             PROVE  TypeOK'
    OBVIOUS
<1> USE DEF inputs, proposal, outcome
<1> DEFINE RetryType == [carrier_lookup : Nat, route_optimizer : Nat, execution : Nat]
           ErrorType == [node : ToolNodes \cup {"none"}, transient : BOOLEAN]
<1>n. /\ {"planner", "audit", "risk", "carrier_lookup", "route_optimizer",
          "validator", "execution"} = StepNodes
      /\ {"carrier_lookup", "route_optimizer", "validator", "execution"}
             \subseteq ToolNodes
      /\ StepNodes \subseteq Nodes
      /\ {"escalate_high_risk", "escalate_no_viable_route", "fail_execution"}
             \subseteq Nodes
      /\ {"END", "ProviderError", "TypeError", "AttributeError", "OSError",
          "GraphRecursionError"} \subseteq Stopped
    BY DEF StepNodes, ToolNodes, Nodes, TerminalNodes, Stopped, Exceptions
<1>e. Errors = {"none", "schema", "no_carrier", "infeasible", "transient"}
    BY DEF Errors
<1>d. node \in ToolNodes =>
          \A failures : \A d \in Decisions(failures) :
              /\ d.tool \in StepTools
              /\ d.carrier \in Carriers \cup {NoCarrier}
    BY DecisionType DEF StepTools
<1>s. "none" \in StepTools /\ ToolNames \subseteq StepTools
    BY DEF StepTools
<1>1. CASE Planner
  <2>1. trajectory' \in Seq(Step)
    BY <1>1, <1>n, AddPlainStepType DEF Planner
  <2> QED
    BY <1>1, <1>n, <2>1 DEF Planner, TypeOK
<1>2. CASE Risk
  <2>0. node \in ToolNodes
    BY <1>2 DEF Risk, Enters, ToolNodes
  <2>1. /\ \E tool \in StepTools, error \in Errors :
               add_step("risk", tool, error, 0, {})
        /\ \/ risk_assessment' \in
                  risk_scorer(alert.alert_type, alert.severity, alert.affected)
           \/ UNCHANGED risk_assessment
        /\ node' = route_after_risk(risk_assessment')
    BY <1>2, <1>d, <2>0, ErrorOfCall DEF Risk
  <2>2. trajectory' \in Seq(Step)
    BY <1>n, <2>1, AddStepType
  <2>3. alert.alert_type \in AlertTypes /\ alert.severity \in Severities
    BY InputAssumption DEF TypeOK, Alert, InputAssumption
  <2>4. risk_scorer(alert.alert_type, alert.severity, alert.affected) \subseteq 0..1000
    BY <2>3, RiskScoreRange
  <2>5. risk_assessment' \in {NoScore} \cup 0..1000
    <3>1. risk_assessment \in {NoScore} \cup 0..1000
      BY DEF TypeOK
    <3>2. risk_assessment' \in 0..1000 \/ risk_assessment' = risk_assessment
      BY <2>1, <2>4
    <3> QED
      BY <3>1, <3>2
  <2>6. node' \in Nodes \cup Stopped
    BY <1>n, <2>1 DEF route_after_risk
  <2> QED
    BY <1>2, <2>2, <2>5, <2>6 DEF Risk, TypeOK
<1>3. CASE CarrierLookup
  <2> DEFINE found == carrier_lookup(alert.origin, alert.destination, alert.affected)
             retry == retry_of_step("carrier_lookup")
  <2>0. node \in ToolNodes
    BY <1>3 DEF CarrierLookup, Enters, ToolNodes
  <2>1. /\ \/ /\ candidate_carriers' = found
              /\ \E tool \in StepTools :
                     add_step("carrier_lookup", tool, "none", retry, found)
              /\ ClearLastError
              /\ UNCHANGED retry_counts
           \/ /\ \E error \in {"schema", "no_carrier"},
                    tool \in StepTools :
                     add_step("carrier_lookup", tool, error, retry, {})
              /\ CountFailure("carrier_lookup")
              /\ SetLastError("carrier_lookup", FALSE)
              /\ UNCHANGED candidate_carriers
        /\ node' = route_after_carrier_lookup(last_error', retry_counts'.carrier_lookup)
    BY <1>3, <1>d, <2>0 DEF CarrierLookup
  <2>2. found \in SUBSET Carriers
    BY DEF carrier_lookup, find_by_region
  <2>3. retry \in Nat
    BY PreviousStepType
  <2> HIDE DEF found, retry
  <2>4. trajectory' \in Seq(Step)
    BY <1>n, <1>e, <2>1, <2>2, <2>3, AddStepType
  <2>5. retry_counts' \in RetryType
    BY <2>1, CountFailureType DEF TypeOK, NoRetries
  <2>6. last_error' \in ErrorType
    BY <1>n, <2>1, LastErrorType
  <2>7. candidate_carriers' \in SUBSET Carriers
    BY <2>1, <2>2 DEF TypeOK
  <2>8. node' \in Nodes \cup Stopped
    BY <1>n, <2>1 DEF route_after_carrier_lookup
  <2> QED
    BY <1>3, <2>4, <2>5, <2>6, <2>7, <2>8 DEF CarrierLookup, TypeOK
<1>4. CASE RouteOptimizer
  <2> DEFINE feasible == FeasibleCarriers(candidate_carriers, max_transit_hours)
  <2>0. node \in ToolNodes
    BY <1>4 DEF RouteOptimizer, Enters, ToolNodes
  <2>1. /\ \/ /\ candidate_route' \in route_optimizer(candidate_carriers, max_transit_hours)
              /\ rejected_alternatives' = feasible \ {candidate_route'}
              /\ \E tool \in StepTools :
                     add_step("route_optimizer", tool, "none", 0, feasible)
              /\ ClearLastError
           \/ /\ \E error \in {"infeasible", "schema"},
                    tool \in StepTools :
                     add_step("route_optimizer", tool, error, 0, {})
              /\ SetLastError("route_optimizer", FALSE)
              /\ UNCHANGED proposal
        /\ node' = route_after_route_optimizer(last_error')
    BY <1>4, <1>d, <2>0 DEF RouteOptimizer
  <2>2. feasible \in SUBSET Carriers
    BY DEF FeasibleCarriers, TypeOK
  <2>3. route_optimizer(candidate_carriers, max_transit_hours) \in SUBSET Carriers
    BY DEF route_optimizer, FeasibleCarriers, TypeOK
  <2> HIDE DEF feasible
  <2>4. trajectory' \in Seq(Step)
    BY <1>n, <1>e, <2>1, <2>2, AddStepType
  <2>5. last_error' \in ErrorType
    BY <1>n, <2>1, LastErrorType
  <2>6. /\ candidate_route' \in Carriers \cup {NoCarrier}
        /\ rejected_alternatives' \in SUBSET Carriers
    <3>1. /\ candidate_route \in Carriers \cup {NoCarrier}
          /\ rejected_alternatives \in SUBSET Carriers
      BY DEF TypeOK
    <3>2. \/ /\ candidate_route' \in route_optimizer(candidate_carriers, max_transit_hours)
             /\ rejected_alternatives' = feasible \ {candidate_route'}
          \/ UNCHANGED <<candidate_route, rejected_alternatives>>
      BY <2>1
    <3> QED
      BY <2>2, <2>3, <3>1, <3>2
  <2>7. node' \in Nodes \cup Stopped
    BY <1>n, <2>1 DEF route_after_route_optimizer
  <2> QED
    BY <1>4, <2>4, <2>5, <2>6, <2>7 DEF RouteOptimizer, TypeOK
<1>5. CASE Validator
  <2>0. node \in ToolNodes
    BY <1>5 DEF Validator, Enters, ToolNodes
  <2>1. PICK d \in Decisions(0) :
          /\ \/ /\ validation_result' = "valid"
                /\ add_step("validator", d.tool, "none", 0, {d.carrier})
                /\ UNCHANGED <<retry_counts, last_error>>
             \/ /\ validation_result' = "invalid"
                /\ CountFailure("route_optimizer")
                /\ add_step("validator", d.tool, "none", 0, {d.carrier})
                /\ UNCHANGED last_error
             \/ /\ SetLastError("validator", FALSE)
                /\ add_step("validator", d.tool, "schema", 0, {d.carrier})
                /\ UNCHANGED <<validation_result, retry_counts>>
          /\ node' = route_after_validator(validation_result', retry_counts'.route_optimizer)
    BY <1>5 DEF Validator
  <2>2. /\ {d.carrier} \in SUBSET (Carriers \cup {NoCarrier})
        /\ d.tool \in StepTools
    BY <1>d, <2>0
  <2>3. trajectory' \in Seq(Step)
    BY <1>n, <1>e, <2>1, <2>2, AddStepType
  <2>4. retry_counts' \in RetryType
    BY <2>1, CountFailureType DEF TypeOK, NoRetries
  <2>5. last_error' \in ErrorType
    BY <1>n, <2>1, LastErrorType DEF TypeOK
  <2>6. validation_result' \in {"none", "valid", "invalid"}
    BY <2>1 DEF TypeOK
  <2>7. node' \in Nodes \cup Stopped
    BY <1>n, <2>1 DEF route_after_validator
  <2> QED
    BY <1>5, <2>3, <2>4, <2>5, <2>6, <2>7 DEF Validator, TypeOK
<1>6. CASE ValidateNothing
    BY <1>6, <1>n DEF ValidateNothing, TypeOK
<1>7. CASE Execution
  <2> DEFINE retry == retry_of_step("execution")
  <2>0. node \in ToolNodes
    BY <1>7 DEF Execution, Enters, ToolNodes
  <2>1. PICK d \in Decisions(retry_counts.execution), error \in Errors :
          /\ add_step("execution", d.tool, error, retry, {d.carrier})
          /\ \/ /\ execution_result' \in
                       {[executed |-> TRUE, carrier |-> d.carrier], NotExecuted}
                /\ ClearLastError
                /\ UNCHANGED retry_counts
             \/ /\ CountFailure("execution")
                /\ SetLastError("execution", error = "transient")
                /\ UNCHANGED execution_result
          /\ node' = route_after_execution(last_error', retry_counts'.execution)
    BY <1>7, ErrorOfCall DEF Execution
  <2>2. /\ d.carrier \in Carriers \cup {NoCarrier}
        /\ d.tool \in StepTools
    BY <1>d, <2>0
  <2>3. retry \in Nat
    BY PreviousStepType
  <2> HIDE DEF retry
  <2>4. trajectory' \in Seq(Step)
    <3>1. "execution" \in StepNodes /\ {d.carrier} \in SUBSET (Carriers \cup {NoCarrier})
      BY <1>n, <2>2
    <3>2. add_step("execution", d.tool, error, retry, {d.carrier})
      BY <2>1
    <3> QED
      BY <2>2, <2>3, <3>1, <3>2, AddStepType
  <2>5. retry_counts' \in RetryType
    BY <2>1, CountFailureType DEF TypeOK, NoRetries
  <2>6. last_error' \in ErrorType
    BY <1>n, <2>1, LastErrorType
  <2>7. execution_result' \in
            [executed : BOOLEAN, carrier : Carriers \cup {NoCarrier}]
    <3>1. execution_result \in
              [executed : BOOLEAN, carrier : Carriers \cup {NoCarrier}]
      BY DEF TypeOK
    <3>2. \/ execution_result' = [executed |-> TRUE, carrier |-> d.carrier]
          \/ execution_result' = NotExecuted
          \/ execution_result' = execution_result
      BY <2>1
    <3>3. {[executed |-> TRUE, carrier |-> d.carrier], NotExecuted} \subseteq
              [executed : BOOLEAN, carrier : Carriers \cup {NoCarrier}]
      BY <2>2 DEF NotExecuted
    <3> QED
      BY <3>1, <3>2, <3>3, Zenon
  <2>8. node' \in Nodes \cup Stopped
    BY <1>n, <2>1 DEF route_after_execution
  <2> QED
    BY <1>7, <2>4, <2>5, <2>6, <2>7, <2>8 DEF Execution, TypeOK
<1>8. CASE Audit
  <2>1. trajectory' \in Seq(Step)
    BY <1>8, <1>n, AddPlainStepType DEF Audit
  <2>2. audit_record \in AuditRecord
    BY ToolCallsType DEF audit_record, AuditRecord, TypeOK
  <2>3. audit_log' \in Seq(AuditRecord)
    BY <1>8, <2>2 DEF Audit, TypeOK
  <2> QED
    BY <1>8, <1>n, <2>1, <2>3 DEF Audit, TypeOK
<1>9. CASE AuditWriteFails
    BY <1>9, <1>n DEF AuditWriteFails, TypeOK
<1>10. CASE EscalateHighRisk
    BY <1>10, <1>n DEF EscalateHighRisk, Terminal, TypeOK
<1>11. CASE EscalateNoViableRoute
    BY <1>11, <1>n DEF EscalateNoViableRoute, Terminal, TypeOK
<1>12. CASE FailExecution
    BY <1>12, <1>n DEF FailExecution, Terminal, TypeOK
<1>13. CASE ProviderRaises
    BY <1>13, <1>n DEF ProviderRaises, TypeOK
<1>14. CASE RecursionAbort
    BY <1>14, <1>n DEF RecursionAbort, TypeOK
<1>15. CASE UNCHANGED vars
    BY <1>15 DEF vars, TypeOK
<1>16. CASE ResultIsNoModel
  <2>1. retry_of_step("execution") \in Nat
    BY PreviousStepType
  <2>2. \E n \in {"execution", "risk"}, tool \in StepTools, r \in Nat,
           entities \in SUBSET (Carriers \cup {NoCarrier}) :
             add_step(n, tool, "none", r, entities)
    <3>1. PICK tool \in ToolNames :
            \/ add_step("execution", tool, "none", retry_of_step("execution"), {NoCarrier})
            \/ add_step("risk", tool, "none", 0, {})
      BY <1>16, NoModelStep
    <3>2. CASE add_step("execution", tool, "none", retry_of_step("execution"), {NoCarrier})
      BY <1>s, <2>1, <3>2
    <3>3. CASE add_step("risk", tool, "none", 0, {})
      BY <1>s, <3>3
    <3> QED
      BY <3>1, <3>2, <3>3
  <2>3. trajectory' \in Seq(Step)
    BY <1>n, <1>e, <2>2, AddStepType
  <2> QED
    BY <1>16, <1>n, <2>3, NoModelStep DEF TypeOK
<1> QED
    BY <1>1, <1>2, <1>3, <1>4, <1>5, <1>6, <1>7, <1>8, <1>9, <1>10, <1>11,
       <1>12, <1>13, <1>14, <1>15, <1>16 DEF Next, NodeStep, Terminating

\* Every variable keeps its type in every run, whatever the network, the
\* settings, the provider and the runtime's treatment of _last_error.
THEOREM TypeCorrect == Spec => []TypeOK
<1> QED
    BY InitType, StepType, PTL DEF Spec

\* The settings of a run are numbers an edge may compare with.
LEMMA SettingsType ==
    ASSUME TypeOK
    PROVE  /\ settings.risk_escalation_threshold \in 0..1000
           /\ settings.max_retries_carrier_lookup \in Nat
           /\ settings.max_retries_route_optimizer \in Nat
           /\ settings.max_retries_execution \in Nat
<1>1. settings \in Settings
    BY InputAssumption DEF TypeOK, InputAssumption
<1> QED
    BY <1>1 DEF Settings

-----------------------------------------------------------------------------
(* A SUCCESS is a confirmed booking, or an adapter's call of another tool.  *)

\* Where a confirmed booking and a final status can be found.  A booking is
\* confirmed in the step that leads to the audit node; when _last_error is
\* carried, that is the only way there, unless an adapter's call of another
\* tool stood in for it.
ControlInv ==
    /\ execution_result.executed => node \in {"audit"} \cup Stopped
    /\ node = "END" <=> final_status # "IN_PROGRESS"
    /\ LastErrorCarried =>
         /\ node = "audit" => execution_result.executed \/ provider = "adapter"
         /\ final_status = "SUCCESS" =>
              execution_result.executed \/ provider = "adapter"
         /\ execution_result.executed /\ node = "END" => final_status = "SUCCESS"
    /\ ~ LastErrorCarried => last_error = NoError

LEMMA ControlInit == Init => ControlInv
BY DEF Init, ControlInv, NotExecuted

LEMMA ControlStep == TypeOK /\ ControlInv /\ [Next]_vars => ControlInv'
<1> SUFFICES ASSUME TypeOK, ControlInv, [Next]_vars
             PROVE  ControlInv'
    OBVIOUS
<1> USE DEF inputs, proposal, outcome, Stopped, Exceptions, Enters, NoError
<1>1. CASE Planner
    BY <1>1 DEF Planner, ControlInv
<1>2. CASE Risk
    BY <1>2 DEF Risk, ControlInv, route_after_risk
<1>3. CASE CarrierLookup
    BY <1>3 DEF CarrierLookup, ControlInv, route_after_carrier_lookup,
                SetLastError, ClearLastError
<1>4. CASE RouteOptimizer
    BY <1>4 DEF RouteOptimizer, ControlInv, route_after_route_optimizer,
                SetLastError, ClearLastError
<1>5. CASE Validator
    BY <1>5 DEF Validator, ControlInv, route_after_validator, SetLastError
<1>6. CASE ValidateNothing
    BY <1>6 DEF ValidateNothing, ControlInv
<1>7. CASE Execution
    BY <1>7, ShippedCall DEF Execution, ControlInv, route_after_execution,
                SetLastError, ClearLastError, NotExecuted
<1>8. CASE Audit
    BY <1>8 DEF Audit, ControlInv
<1>9. CASE AuditWriteFails
    BY <1>9 DEF AuditWriteFails, ControlInv
<1>10. CASE EscalateHighRisk
    BY <1>10 DEF EscalateHighRisk, Terminal, ControlInv
<1>11. CASE EscalateNoViableRoute
    BY <1>11 DEF EscalateNoViableRoute, Terminal, ControlInv
<1>12. CASE FailExecution
    BY <1>12 DEF FailExecution, Terminal, ControlInv
<1>13. CASE ProviderRaises
    BY <1>13 DEF ProviderRaises, ControlInv, Nodes, StepNodes, ToolNodes, TerminalNodes
<1>14. CASE RecursionAbort
    BY <1>14 DEF RecursionAbort, ControlInv, Nodes, StepNodes, ToolNodes, TerminalNodes
<1>15. CASE UNCHANGED vars
    BY <1>15 DEF vars, ControlInv
<1>16. CASE ResultIsNoModel
    BY <1>16, NoModelStep DEF ControlInv
<1> QED
    BY <1>1, <1>2, <1>3, <1>4, <1>5, <1>6, <1>7, <1>8, <1>9, <1>10, <1>11,
       <1>12, <1>13, <1>14, <1>15, <1>16 DEF Next, NodeStep, Terminating

\* When the runtime carries _last_error, a run of a shipped provider that
\* returns reports SUCCESS exactly when the execution tool confirmed a booking.
THEOREM SuccessMeansConfirmed ==
    ASSUME LastErrorCarried
    PROVE  Spec => [](provider # "adapter" => SuccessIsConfirmed)
<1>1. ControlInv => (provider # "adapter" => SuccessIsConfirmed)
    BY LastErrorCarried DEF ControlInv, SuccessIsConfirmed
<1> QED
    BY InitType, StepType, ControlInit, ControlStep, <1>1, PTL DEF Spec

\* Is step i of the trajectory t an execution call of another tool than the one
\* that books, which raised no error?
Miscalled(t, i) ==
    /\ t[i].node = "execution"
    /\ t[i].error = "none"
    /\ t[i].tool # "execution_simulator"

\* Without a booking the audit node is entered after such a call only, and adds
\* the one step that follows it.
MiscallInv ==
    /\ node = "audit" => trajectory # <<>>
    /\ node = "audit" /\ ~ execution_result.executed =>
         Miscalled(trajectory, Len(trajectory))
    /\ final_status = "SUCCESS" /\ ~ execution_result.executed =>
         Miscalled(trajectory, Len(trajectory) - 1)

LEMMA MiscallInit == Init => MiscallInv
BY DEF Init, MiscallInv

LEMMA MiscallStep ==
    ASSUME LastErrorCarried, TypeOK, ControlInv, MiscallInv, [Next]_vars
    PROVE  MiscallInv'
<1> USE DEF inputs, proposal, outcome, Stopped, Exceptions, Enters
<1>r. final_status = "SUCCESS" => node = "END"
    BY DEF ControlInv
<1>t. trajectory \in Seq(Step) /\ Len(trajectory) \in Nat
    BY DEF TypeOK
<1>1. CASE Execution
  <2>1. node = "execution" /\ final_status' # "SUCCESS"
    BY <1>1, <1>r DEF Execution
  <2>2. PICK d \in Decisions(retry_counts.execution) :
          /\ add_step("execution", d.tool, CallError(d), retry_of_step("execution"),
                      {d.carrier})
          /\ \/ /\ CallError(d) = "none"
                /\ d.tool = "execution_simulator" => execution_result'.executed
             \/ /\ CallError(d) # "none"
                /\ SetLastError("execution", CallError(d) = "transient")
          /\ node' = route_after_execution(last_error', retry_counts'.execution)
    <3>1. PICK d \in Decisions(retry_counts.execution) :
            /\ add_step("execution", d.tool, CallError(d), retry_of_step("execution"),
                        {d.carrier})
            /\ \/ /\ CallError(d) = "none"
                  /\ execution_result' = IF d.tool = "execution_simulator"
                         THEN [executed |-> TRUE, carrier |-> d.carrier] ELSE NotExecuted
               \/ /\ CallError(d) # "none"
                  /\ SetLastError("execution", CallError(d) = "transient")
            /\ node' = route_after_execution(last_error', retry_counts'.execution)
      BY <1>1 DEF Execution
    <3>2. d.tool = "execution_simulator" /\ CallError(d) = "none" =>
              execution_result'.executed
      BY <3>1
    <3> QED
      BY <3>1, <3>2
  <2>3. CASE CallError(d) # "none"
    <3>1. node' # "audit"
      BY <2>2, <2>3, LastErrorCarried, SMT DEF SetLastError, route_after_execution
    <3> QED
      BY <2>1, <3>1 DEF MiscallInv
  <2>4. CASE CallError(d) = "none"
    <3>1. \/ execution_result'.executed
          \/ d.tool # "execution_simulator"
      BY <2>2, <2>4
    <3>2. /\ Len(trajectory') = Len(trajectory) + 1
          /\ trajectory'[Len(trajectory) + 1]
               = [node |-> "execution", tool |-> d.tool, error |-> CallError(d),
                  retry_of |-> retry_of_step("execution"), entities |-> {d.carrier}]
      BY <2>2, <1>t DEF add_step
    <3>3. d.tool # "execution_simulator" => Miscalled(trajectory', Len(trajectory'))
      BY <3>2, <2>4 DEF Miscalled
    <3> QED
      BY <2>1, <3>1, <3>2, <3>3, <1>t DEF MiscallInv
  <2> QED
    BY <2>3, <2>4
<1>2. CASE Audit
  <2>1. /\ node = "audit" /\ node' = "END" /\ execution_result' = execution_result
        /\ add_step("audit", "none", "none", 0, {})
    BY <1>2 DEF Audit
  <2>2. CASE execution_result.executed
    BY <2>1, <2>2 DEF MiscallInv
  <2>3. CASE ~ execution_result.executed
    <3>1. Miscalled(trajectory, Len(trajectory))
      BY <2>1, <2>3 DEF MiscallInv
    <3>2. Len(trajectory) > 0
      BY <2>1, <1>t DEF MiscallInv
    <3>3. /\ Len(trajectory') - 1 = Len(trajectory)
          /\ trajectory'[Len(trajectory)] = trajectory[Len(trajectory)]
      BY <2>1, <1>t, <3>2 DEF add_step
    <3>4. Miscalled(trajectory', Len(trajectory') - 1)
      BY <3>1, <3>3 DEF Miscalled
    <3> QED
      BY <2>1, <3>4 DEF MiscallInv
  <2> QED
    BY <2>2, <2>3
<1>3. CASE \/ Planner \/ Risk \/ CarrierLookup \/ RouteOptimizer \/ Validator
           \/ ValidateNothing \/ ResultIsNoModel \/ AuditWriteFails
           \/ EscalateHighRisk \/ EscalateNoViableRoute \/ FailExecution
           \/ ProviderRaises \/ RecursionAbort
  <2>1. node # "END" /\ node' # "audit" /\ final_status' \in {final_status, "ESCALATED", "FAILED"}
    BY <1>3, NoModelStep
       DEF Planner, Risk, CarrierLookup, RouteOptimizer, Validator, ValidateNothing,
           AuditWriteFails, EscalateHighRisk, EscalateNoViableRoute,
           FailExecution, Terminal, ProviderRaises, RecursionAbort, route_after_risk,
           route_after_carrier_lookup, route_after_route_optimizer,
           route_after_validator, Nodes, StepNodes, ToolNodes, TerminalNodes
  <2> QED
    BY <2>1, <1>r DEF MiscallInv
<1>4. CASE UNCHANGED vars
    BY <1>4 DEF vars, MiscallInv
<1> QED
    BY <1>1, <1>2, <1>3, <1>4 DEF Next, NodeStep, Terminating

\* When the runtime carries _last_error, a booking ends in SUCCESS with any
\* provider, and a SUCCESS without one follows an execution call that went to
\* another tool and raised no error.
THEOREM UnbookedSuccessesShow ==
    ASSUME LastErrorCarried
    PROVE  Spec => []UnbookedSuccessIsMiscalled
<1>1. ControlInv /\ MiscallInv => UnbookedSuccessIsMiscalled
    BY LastErrorCarried DEF ControlInv, MiscallInv, Miscalled, UnbookedSuccessIsMiscalled
<1>2. TypeOK /\ ControlInv /\ MiscallInv /\ [Next]_vars => MiscallInv'
    BY LastErrorCarried, MiscallStep
<1> QED
    BY InitType, StepType, ControlInit, ControlStep, MiscallInit, <1>1, <1>2, PTL DEF Spec

-----------------------------------------------------------------------------
(* A high risk keeps the pipeline away from the carriers.                  *)

HighRisk == risk_assessment > settings.risk_escalation_threshold

\* Only the risk node scores, and its edge parts the runs with a high risk
\* from the others for good.
RiskInv ==
    /\ node \in {"planner", "risk"} => risk_assessment = NoScore
    /\ HighRisk \/ node \in {"planner", "risk", "escalate_high_risk"} =>
         \A i \in DOMAIN trajectory : trajectory[i].node \in {"planner", "risk"}
    /\ HighRisk => node \in {"escalate_high_risk"} \cup Stopped
    /\ node = "escalate_high_risk" => HighRisk
    /\ HighRisk /\ node = "END" => escalation_reason = "high_risk"
    /\ escalation_reason = "high_risk" => HighRisk

\* No threshold is below the value that stands for a missing score.
LEMMA NoScoreIsLow ==
    ASSUME TypeOK
    PROVE  ~ (NoScore > settings.risk_escalation_threshold)
<1>1. PICK threshold \in 0..1000 : threshold = settings.risk_escalation_threshold
    BY SettingsType
<1>2. ~ (NoScore > threshold)
    BY DEF NoScore
<1> QED
    BY <1>1, <1>2

LEMMA RiskInit == TypeOK /\ Init => RiskInv
<1> SUFFICES ASSUME TypeOK, Init PROVE RiskInv
    OBVIOUS
<1>1. ~ HighRisk
    BY NoScoreIsLow DEF Init, HighRisk
<1> QED
    BY <1>1 DEF Init, RiskInv

LEMMA RiskStep == TypeOK /\ RiskInv /\ [Next]_vars => RiskInv'
<1> SUFFICES ASSUME TypeOK, RiskInv, [Next]_vars
             PROVE  RiskInv'
    OBVIOUS
<1> USE DEF inputs, proposal, outcome, Stopped, Exceptions, Enters
<1>t. trajectory \in Seq(Step)
    BY DEF TypeOK
<1>n. risk_assessment = NoScore => ~ HighRisk
    BY NoScoreIsLow DEF HighRisk
<1>a. ASSUME NEW tool, NEW e, NEW r, NEW entities, NEW n \in {"planner", "risk"},
             add_step(n, tool, e, r, entities),
             \A i \in DOMAIN trajectory : trajectory[i].node \in {"planner", "risk"}
      PROVE  \A i \in DOMAIN trajectory' : trajectory'[i].node \in {"planner", "risk"}
    BY <1>a, <1>t DEF add_step
<1>h. ASSUME UNCHANGED <<risk_assessment, settings>>
      PROVE  HighRisk' <=> HighRisk
    BY <1>h DEF HighRisk
<1>1. CASE Planner
  <2>1. /\ node = "planner" /\ node' = "risk"
        /\ UNCHANGED <<risk_assessment, settings, escalation_reason>>
        /\ add_step("planner", "none", "none", 0, {})
    BY <1>1 DEF Planner
  <2>2. risk_assessment = NoScore /\ ~ HighRisk
    BY <2>1, <1>n DEF RiskInv
  <2>3. \A i \in DOMAIN trajectory' : trajectory'[i].node \in {"planner", "risk"}
    BY <2>1, <1>a DEF RiskInv
  <2> QED
    BY <2>1, <2>2, <2>3, <1>h DEF RiskInv
<1>2. CASE Risk
  <2>1. /\ node = "risk" /\ UNCHANGED <<settings, escalation_reason>>
        /\ node' = route_after_risk(risk_assessment')
        /\ \E tool, e : add_step("risk", tool, e, 0, {})
    BY <1>2 DEF Risk
  <2>2. risk_assessment = NoScore /\ ~ HighRisk /\ escalation_reason # "high_risk"
    BY <2>1, <1>n DEF RiskInv
  <2>3. \A i \in DOMAIN trajectory' : trajectory'[i].node \in {"planner", "risk"}
    BY <2>1, <1>a DEF RiskInv
  <2>4. \/ node' = "escalate_high_risk" /\ HighRisk'
        \/ node' = "carrier_lookup" /\ ~ HighRisk'
    <3>1. settings' = settings /\ (risk_assessment' = NoScore => ~ HighRisk')
      BY <2>1, NoScoreIsLow DEF HighRisk
    <3> QED
      BY <2>1, <3>1 DEF route_after_risk, HighRisk
  <2> QED
    BY <2>1, <2>2, <2>3, <2>4 DEF RiskInv
<1>3. CASE CarrierLookup \/ RouteOptimizer \/ Validator \/ Execution
  <2>1. /\ node \in {"carrier_lookup", "route_optimizer", "validator", "execution"}
        /\ node' \in {"carrier_lookup", "route_optimizer", "validator", "execution",
                      "audit", "escalate_no_viable_route", "fail_execution"}
        /\ UNCHANGED <<risk_assessment, settings, escalation_reason>>
    BY <1>3 DEF CarrierLookup, RouteOptimizer, Validator, Execution,
                route_after_carrier_lookup, route_after_route_optimizer,
                route_after_validator, route_after_execution
  <2>2. ~ HighRisk /\ escalation_reason # "high_risk"
    BY <2>1 DEF RiskInv
  <2> QED
    BY <2>1, <2>2, <1>h DEF RiskInv
<1>4. CASE Audit
  <2>1. /\ node = "audit" /\ node' = "END"
        /\ UNCHANGED <<risk_assessment, settings, escalation_reason>>
    BY <1>4 DEF Audit
  <2>2. ~ HighRisk /\ escalation_reason # "high_risk"
    BY <2>1 DEF RiskInv
  <2> QED
    BY <2>1, <2>2, <1>h DEF RiskInv
<1>5. CASE EscalateHighRisk
  <2>1. /\ node = "escalate_high_risk" /\ node' = "END"
        /\ escalation_reason' = "high_risk"
        /\ UNCHANGED <<risk_assessment, settings, trajectory>>
    BY <1>5 DEF EscalateHighRisk, Terminal
  <2> QED
    BY <2>1, <1>h DEF RiskInv
<1>6. CASE EscalateNoViableRoute \/ FailExecution
  <2>1. /\ node \in {"escalate_no_viable_route", "fail_execution"} /\ node' = "END"
        /\ escalation_reason' # "high_risk"
        /\ UNCHANGED <<risk_assessment, settings>>
    BY <1>6 DEF EscalateNoViableRoute, FailExecution, Terminal
  <2>2. ~ HighRisk
    BY <2>1 DEF RiskInv
  <2> QED
    BY <2>1, <2>2, <1>h DEF RiskInv
<1>7. CASE ValidateNothing \/ AuditWriteFails \/ ProviderRaises \/ RecursionAbort
  <2>1. /\ node' \in Exceptions
        /\ UNCHANGED <<risk_assessment, settings, trajectory, escalation_reason>>
    BY <1>7 DEF ValidateNothing, AuditWriteFails, ProviderRaises, RecursionAbort
  <2> QED
    BY <2>1, <1>h DEF RiskInv
<1>8. CASE UNCHANGED vars
    BY <1>8, <1>h DEF vars, RiskInv
<1>9. CASE ResultIsNoModel
  <2>1. /\ node' = "AttributeError"
        /\ UNCHANGED <<risk_assessment, settings, escalation_reason>>
    BY <1>9, NoModelStep
  <2>2. \/ node = "execution"
        \/ node = "risk" /\ \E tool : add_step("risk", tool, "none", 0, {})
    BY <1>9, NoModelStep
  <2>3. ~ HighRisk /\ escalation_reason # "high_risk"
    BY <2>2, <1>n DEF RiskInv
  <2> QED
    BY <2>1, <2>3, <1>h DEF RiskInv
<1> QED
    BY <1>1, <1>2, <1>3, <1>4, <1>5, <1>6, <1>7, <1>8, <1>9
       DEF Next, NodeStep, Terminating

\* A run whose score exceeds the threshold never reaches a carrier and, if it
\* returns, was escalated for its risk; no other run is, with any provider.
THEOREM HighRiskStaysAway == Spec => []HighRiskIsEscalated
<1>1. RiskInv => HighRiskIsEscalated
    BY DEF RiskInv, HighRiskIsEscalated, HighRisk
<1> QED
    BY InitType, StepType, RiskInit, RiskStep, <1>1, PTL DEF Spec

-----------------------------------------------------------------------------
(* What is booked was validated, and is the cheapest viable carrier.       *)

Lane == carrier_lookup(alert.origin, alert.destination, alert.affected)

\* What the state holds about the route at each point of a run of a shipped
\* provider: candidates, if any, are those of the lane; the candidate route is
\* the optimizer's choice among them; a valid result is about the candidate
\* route, which no later node replaces.
ProposalInv ==
    provider # "adapter" =>
        /\ candidate_carriers \in {{}, Lane}
        /\ candidate_route # NoCarrier =>
             candidate_route \in route_optimizer(Lane, max_transit_hours)
        /\ validation_result = "valid" =>
             /\ node \in {"execution", "audit", "fail_execution"} \cup Stopped
             /\ candidate_route # NoCarrier
             /\ route_validator(candidate_route, max_transit_hours)
        /\ node = "execution" => validation_result = "valid"
        /\ execution_result.executed =>
             /\ validation_result = "valid"
             /\ execution_result.carrier = candidate_route

LEMMA ProposalInit == Init => ProposalInv
BY DEF Init, ProposalInv, NotExecuted

LEMMA ProposalStep ==
    TypeOK /\ ControlInv /\ ProposalInv /\ [Next]_vars => ProposalInv'
<1> SUFFICES ASSUME TypeOK, ControlInv, ProposalInv, [Next]_vars, provider' # "adapter"
             PROVE  ProposalInv'
    BY DEF ProposalInv
<1> USE DEF inputs, proposal, outcome, Stopped, Exceptions, Enters
<1>p. alert' = alert /\ provider' = provider /\ Lane' = Lane
    BY DEF Next, NodeStep, Terminating, vars, Planner, Risk, CarrierLookup,
           RouteOptimizer, Validator, ValidateNothing, Execution, ResultIsNoModel,
           Audit, AuditWriteFails, EscalateHighRisk, EscalateNoViableRoute,
           FailExecution, Terminal, ProviderRaises, RecursionAbort, Lane
<1> HIDE DEF Lane
<1>1. CASE Planner
    BY <1>1, <1>p DEF Planner, ProposalInv
<1>2. CASE Risk
    BY <1>2, <1>p DEF Risk, ProposalInv, route_after_risk
<1>3. CASE CarrierLookup
    BY <1>3, <1>p DEF CarrierLookup, ProposalInv, route_after_carrier_lookup, Lane
<1>4. CASE RouteOptimizer
    BY <1>4, <1>p DEF RouteOptimizer, ProposalInv, route_after_route_optimizer,
                      route_optimizer, FeasibleCarriers, ControlInv
<1>5. CASE Validator
  <2>1. ~ execution_result.executed /\ provider # "adapter"
    BY <1>5, <1>p DEF Validator, ControlInv
  <2>2. PICK d \in Decisions(0) :
          /\ d.carrier # NoCarrier
          /\ \/ validation_result' = "invalid"
             \/ UNCHANGED validation_result
             \/ /\ validation_result' = "valid"
                /\ route_validator(d.carrier, max_transit_hours)
    BY <1>5, <2>1, ShippedVerdict DEF Validator
  <2>3. d.carrier = candidate_route
    BY <2>1, ShippedDecision
  <2>4. validation_result # "valid"
    BY <1>5, <2>1 DEF Validator, ProposalInv
  <2>5. validation_result' = "valid" =>
            /\ node' = "execution"
            /\ candidate_route' # NoCarrier
            /\ route_validator(candidate_route', max_transit_hours)
    BY <1>5, <2>2, <2>3, <2>4 DEF Validator, route_after_validator
  <2>6. node' = "execution" => validation_result' = "valid"
    BY <1>5 DEF Validator, route_after_validator
  <2> QED
    BY <1>5, <1>p, <2>1, <2>5, <2>6 DEF Validator, ProposalInv
<1>6. CASE ValidateNothing
    BY <1>6, <1>p DEF ValidateNothing, ProposalInv
<1>7. CASE Execution
    BY <1>7, <1>p, ShippedDecision, ShippedCall
       DEF Execution, ProposalInv, route_after_execution
<1>8. CASE Audit
    BY <1>8, <1>p DEF Audit, ProposalInv
<1>9. CASE AuditWriteFails
    BY <1>9, <1>p DEF AuditWriteFails, ProposalInv
<1>10. CASE EscalateHighRisk
    BY <1>10, <1>p DEF EscalateHighRisk, Terminal, ProposalInv
<1>11. CASE EscalateNoViableRoute
    BY <1>11, <1>p DEF EscalateNoViableRoute, Terminal, ProposalInv
<1>12. CASE FailExecution
    BY <1>12, <1>p DEF FailExecution, Terminal, ProposalInv
<1>13. CASE ProviderRaises
    BY <1>13, <1>p DEF ProviderRaises, ProposalInv
<1>14. CASE RecursionAbort
    BY <1>14, <1>p DEF RecursionAbort, ProposalInv
<1>15. CASE UNCHANGED vars
    BY <1>15, <1>p DEF vars, ProposalInv
<1>16. ~ ResultIsNoModel
    BY <1>p, ShippedResult
<1> QED
    BY <1>1, <1>2, <1>3, <1>4, <1>5, <1>6, <1>7, <1>8, <1>9, <1>10, <1>11,
       <1>12, <1>13, <1>14, <1>15, <1>16 DEF Next, NodeStep, Terminating

\* With the providers this repository ships, the execution node books the
\* route the validator accepted, even though it never looks at the result.
THEOREM BookingsAreValidated ==
    Spec => [](provider # "adapter" => ExecutedRouteWasValidated)
<1>1. ProposalInv => (provider # "adapter" => ExecutedRouteWasValidated)
    BY DEF ProposalInv, ExecutedRouteWasValidated
<1> QED
    BY InitType, StepType, ControlInit, ControlStep, ProposalInit, ProposalStep,
       <1>1, PTL DEF Spec

\* A choice of the optimizer that the validator accepts is viable, and no
\* viable carrier is cheaper.
LEMMA ValidChoiceIsCheapestViable ==
    ASSUME NEW c \in route_optimizer(Lane, max_transit_hours),
           route_validator(c, max_transit_hours)
    PROVE  /\ c \in ViableCarriers
           /\ \A other \in ViableCarriers : Network[c].cost <= Network[other].cost
<1>1. /\ c \in Lane
      /\ \A other \in FeasibleCarriers(Lane, max_transit_hours) : SortsBefore(c, other)
    BY OptimizerChoosesCheapest
<1>2. Lane \subseteq Carriers /\ \A x \in Carriers : Network[x].cost \in Int
    BY CarrierType DEF Carrier, Lane, carrier_lookup, find_by_region
<1>3. Network[c].cost > 0 /\ Network[c].hours <= max_transit_hours
    BY <1>1, <1>2 DEF route_validator, estimated_cost
<1>4. c \in ViableCarriers
    BY <1>1, <1>3 DEF ViableCarriers, Lane, carrier_lookup, find_by_region
<1>5. ASSUME NEW other \in ViableCarriers
      PROVE  Network[c].cost <= Network[other].cost
  <2>1. other \in FeasibleCarriers(Lane, max_transit_hours)
    BY DEF ViableCarriers, FeasibleCarriers, Lane, carrier_lookup, find_by_region
  <2>2. SortsBefore(c, other) /\ other \in Carriers
    BY <1>1, <2>1 DEF ViableCarriers
  <2> QED
    BY <1>1, <1>2, <2>2 DEF SortsBefore
<1> QED
    BY <1>4, <1>5

\* With the providers this repository ships, a booked carrier serves the lane,
\* is neither affected nor blocklisted, meets the transit limit, costs
\* something, and no such carrier is cheaper.
THEOREM BookingsAreCheapestViable ==
    Spec => [](provider # "adapter" => BookedCarrierIsCheapestViable)
<1>1. ASSUME ProposalInv, provider # "adapter", execution_result.executed
      PROVE  /\ execution_result.carrier \in route_optimizer(Lane, max_transit_hours)
             /\ route_validator(execution_result.carrier, max_transit_hours)
    BY <1>1 DEF ProposalInv
<1>2. ProposalInv => (provider # "adapter" => BookedCarrierIsCheapestViable)
    BY <1>1, ValidChoiceIsCheapestViable DEF BookedCarrierIsCheapestViable
<1> QED
    BY InitType, StepType, ControlInit, ControlStep, ProposalInit, ProposalStep,
       <1>2, PTL DEF Spec

-----------------------------------------------------------------------------
(* The retry ceilings keep a run within the recursion limit.               *)

\* How many steps s a run of a shipped provider has taken when it is about to
\* enter node n, with lk, rt and ex failures counted against the ceilings L, R
\* and E.  Every retry loop pays for its rounds with a counter that its edge
\* compares with a ceiling.
Budget(n, s, lk, rt, ex, L, R, E) ==
    /\ n = "planner" => s = 0 /\ lk = 0
    /\ n = "risk" => s = 1 /\ lk = 0
    /\ n = "carrier_lookup" => s = 2 + lk /\ lk <= L
    /\ n \in {"planner", "risk", "carrier_lookup"} => rt = 0
    /\ n \in {"planner", "risk", "carrier_lookup",
              "route_optimizer", "validator"} => ex = 0
    /\ n = "route_optimizer" => s <= 3 + L + 2 * rt /\ rt <= R
    /\ n = "validator" => s <= 4 + L + 2 * rt /\ rt <= R
    /\ n = "execution" => s <= 5 + L + 2 * R + ex /\ ex <= E
    /\ n \in {"audit"} \cup TerminalNodes => s <= 6 + L + 2 * R + E

BudgetInv ==
    provider # "adapter" =>
        /\ Budget(node, Len(trajectory), retry_counts.carrier_lookup,
                  retry_counts.route_optimizer, retry_counts.execution,
                  settings.max_retries_carrier_lookup,
                  settings.max_retries_route_optimizer,
                  settings.max_retries_execution)
        /\ WithinRecursionBudget

LEMMA BudgetInit == Init /\ TypeOK => BudgetInv
BY DEF Init, BudgetInv, Budget, NoRetries, TerminalNodes, WithinRecursionBudget

LEMMA BudgetStep ==
    TypeOK /\ TypeOK' /\ ControlInv /\ BudgetInv /\ [Next]_vars => BudgetInv'
<1> SUFFICES ASSUME TypeOK, TypeOK', ControlInv, BudgetInv, [Next]_vars,
                    provider' # "adapter"
             PROVE  BudgetInv'
    BY DEF BudgetInv
<1> USE DEF inputs, proposal, outcome, Enters
<1>p. provider' = provider /\ settings' = settings
    BY DEF Next, NodeStep, Terminating, vars, Planner, Risk, CarrierLookup,
           RouteOptimizer, Validator, ValidateNothing, Execution, ResultIsNoModel,
           Audit, AuditWriteFails, EscalateHighRisk, EscalateNoViableRoute,
           FailExecution, Terminal, ProviderRaises, RecursionAbort
\* The numbers of the budget before the step and, with a 2, after it.
<1>t. PICK L \in Nat, R \in Nat, E \in Nat :
        /\ L = settings.max_retries_carrier_lookup
        /\ R = settings.max_retries_route_optimizer
        /\ E = settings.max_retries_execution
    BY SettingsType
<1>c. PICK lk \in Nat, rt \in Nat, ex \in Nat, s \in Nat :
        /\ lk = retry_counts.carrier_lookup
        /\ rt = retry_counts.route_optimizer
        /\ ex = retry_counts.execution
        /\ s = Len(trajectory)
    BY DEF TypeOK
<1>d. PICK lk2 \in Nat, rt2 \in Nat, ex2 \in Nat, s2 \in Nat :
        /\ lk2 = retry_counts'.carrier_lookup
        /\ rt2 = retry_counts'.route_optimizer
        /\ ex2 = retry_counts'.execution
        /\ s2 = Len(trajectory')
    BY DEF TypeOK
<1>b. Budget(node, s, lk, rt, ex, L, R, E)
    BY <1>p, <1>t, <1>c DEF BudgetInv
<1>g. ASSUME Budget(node', s2, lk2, rt2, ex2, L, R, E), WithinRecursionBudget'
      PROVE  BudgetInv'
    BY <1>g, <1>p, <1>t, <1>d DEF BudgetInv
<1>w. node' # "GraphRecursionError" => WithinRecursionBudget'
    BY DEF WithinRecursionBudget
<1>l. ASSUME NEW n, NEW tool, NEW e, NEW r, NEW entities,
             add_step(n, tool, e, r, entities)
      PROVE  s2 = s + 1
    BY <1>l, <1>c, <1>d DEF add_step, TypeOK
<1>k. retry_counts' = retry_counts => lk2 = lk /\ rt2 = rt /\ ex2 = ex
    BY <1>c, <1>d
<1>u. retry_counts \in [carrier_lookup : Nat, route_optimizer : Nat, execution : Nat]
    BY DEF TypeOK
<1>v. ASSUME NEW n, CountFailure(n)
      PROVE  /\ n = "carrier_lookup" => lk2 = lk + 1 /\ rt2 = rt /\ ex2 = ex
             /\ n = "route_optimizer" => lk2 = lk /\ rt2 = rt + 1 /\ ex2 = ex
             /\ n = "execution" => lk2 = lk /\ rt2 = rt /\ ex2 = ex + 1
    BY <1>v, <1>c, <1>d, <1>u DEF CountFailure
<1>1. CASE Planner
  <2>1. node = "planner" /\ node' = "risk" /\ retry_counts' = retry_counts /\ s2 = s + 1
    BY <1>1, <1>l DEF Planner
  <2>2. Budget(node', s2, lk2, rt2, ex2, L, R, E)
    BY <2>1, <1>b, <1>k DEF Budget, TerminalNodes
  <2> QED
    BY <2>1, <2>2, <1>g, <1>w
<1>2. CASE Risk
  <2>1. node = "risk" /\ retry_counts' = retry_counts /\ s2 = s + 1
    BY <1>2, <1>l DEF Risk
  <2>2. node' \in {"escalate_high_risk", "carrier_lookup"}
    BY <1>2 DEF Risk, route_after_risk
  <2>3. Budget(node', s2, lk2, rt2, ex2, L, R, E)
    BY <2>1, <2>2, <1>b, <1>k DEF Budget, TerminalNodes
  <2> QED
    BY <2>2, <2>3, <1>g, <1>w
<1>3. CASE CarrierLookup
  <2>1. node = "carrier_lookup" /\ s2 = s + 1
    BY <1>3, <1>l DEF CarrierLookup
  <2>2. \/ retry_counts' = retry_counts /\ ClearLastError
        \/ CountFailure("carrier_lookup")
    BY <1>3 DEF CarrierLookup
  <2>3. ClearLastError => last_error'.node # "carrier_lookup"
    <3>1. LastErrorCarried \/ last_error = NoError
      BY DEF ControlInv
    <3> QED
      BY <3>1 DEF ClearLastError, NoError
  <2>4. \/ node' \in {"route_optimizer", "escalate_no_viable_route"}
        \/ node' = "carrier_lookup" /\ lk2 <= L /\ last_error'.node = "carrier_lookup"
    BY <1>3, <1>t, <1>d, <1>p DEF CarrierLookup, route_after_carrier_lookup
  <2>5. \/ lk2 = lk /\ rt2 = rt /\ ex2 = ex /\ node' # "carrier_lookup"
        \/ lk2 = lk + 1 /\ rt2 = rt /\ ex2 = ex
    BY <2>2, <2>3, <2>4, <1>k, <1>v
  <2>6. node' \in {"route_optimizer", "escalate_no_viable_route", "carrier_lookup"}
        /\ (node' = "carrier_lookup" => lk2 <= L)
    BY <2>4
  <2>7. Budget(node', s2, lk2, rt2, ex2, L, R, E)
    BY <2>1, <2>5, <2>6, <1>b DEF Budget, TerminalNodes
  <2> QED
    BY <2>6, <2>7, <1>g, <1>w
<1>4. CASE RouteOptimizer
  <2>1. node = "route_optimizer" /\ retry_counts' = retry_counts /\ s2 = s + 1
    BY <1>4, <1>l DEF RouteOptimizer
  <2>2. node' \in {"validator", "escalate_no_viable_route"}
    BY <1>4 DEF RouteOptimizer, route_after_route_optimizer
  <2>3. Budget(node', s2, lk2, rt2, ex2, L, R, E)
    BY <2>1, <2>2, <1>b, <1>k DEF Budget, TerminalNodes
  <2> QED
    BY <2>2, <2>3, <1>g, <1>w
<1>5. CASE Validator
  <2>1. node = "validator" /\ s2 = s + 1
    BY <1>5, <1>l DEF Validator
  <2>2. PICK d \in Decisions(0) :
          \/ validation_result' = "valid" /\ retry_counts' = retry_counts
          \/ validation_result' = "invalid" /\ CountFailure("route_optimizer")
          \/ ~ d.schema_valid
    BY <1>5 DEF Validator
  <2>3. d.schema_valid
    BY <1>5, <1>p, ShippedDecision DEF Validator
  <2>4. \/ validation_result' = "valid" /\ lk2 = lk /\ rt2 = rt /\ ex2 = ex
        \/ validation_result' = "invalid" /\ lk2 = lk /\ rt2 = rt + 1 /\ ex2 = ex
    BY <2>2, <2>3, <1>k, <1>v
  <2>5. \/ node' \in {"execution", "escalate_no_viable_route"}
        \/ node' = "route_optimizer" /\ validation_result' = "invalid" /\ rt2 <= R
    BY <1>5, <1>t, <1>d, <1>p DEF Validator, route_after_validator
  <2>6. Budget(node', s2, lk2, rt2, ex2, L, R, E)
    <3>1. s <= 4 + L + 2 * rt /\ rt <= R /\ ex = 0
      BY <2>1, <1>b DEF Budget
    <3> QED
      BY <3>1, <2>1, <2>4, <2>5 DEF Budget, TerminalNodes
  <2> QED
    BY <2>5, <2>6, <1>g, <1>w
<1>6. CASE ValidateNothing
  <2>1. node' = "TypeError"
    BY <1>6 DEF ValidateNothing
  <2> QED
    BY <2>1, <1>g, <1>w DEF Budget, TerminalNodes
<1>7. CASE Execution
  <2>1. node = "execution" /\ s2 = s + 1
    BY <1>7, <1>l DEF Execution
  <2>2. \/ retry_counts' = retry_counts /\ ClearLastError
        \/ CountFailure("execution")
    BY <1>7 DEF Execution
  <2>3. ClearLastError => last_error'.node # "execution"
    <3>1. LastErrorCarried \/ last_error = NoError
      BY DEF ControlInv
    <3> QED
      BY <3>1 DEF ClearLastError, NoError
  <2>4. \/ node' \in {"audit", "fail_execution"}
        \/ node' = "execution" /\ ex2 <= E /\ last_error'.node = "execution"
    BY <1>7, <1>t, <1>d, <1>p DEF Execution, route_after_execution
  <2>5. \/ ex2 = ex /\ node' # "execution"
        \/ ex2 = ex + 1
    BY <2>2, <2>3, <2>4, <1>k, <1>v
  <2>6. Budget(node', s2, lk2, rt2, ex2, L, R, E)
    <3>1. s <= 5 + L + 2 * R + ex /\ ex <= E
      BY <2>1, <1>b DEF Budget
    <3> QED
      BY <3>1, <2>1, <2>4, <2>5 DEF Budget, TerminalNodes
  <2> QED
    BY <2>4, <2>6, <1>g, <1>w
<1>8. CASE node' \in {"END", "OSError", "ProviderError"}
    BY <1>8, <1>g, <1>w DEF Budget, TerminalNodes
<1>9. CASE RecursionAbort
  <2>1. s <= 6 + L + 2 * R + E
    BY <1>9, <1>b DEF RecursionAbort, Budget, Nodes, StepNodes, ToolNodes, TerminalNodes
  <2>2. s >= RecursionLimit /\ RecursionLimit \in Nat
    BY <1>9, <1>c, InputAssumption DEF RecursionAbort, InputAssumption
  <2>3. StepBudget' = 7 + L + 2 * R + E
    BY <1>p, <1>t DEF StepBudget
  <2>4. StepBudget' >= RecursionLimit
    BY <2>1, <2>2, <2>3
  <2>5. node' = "GraphRecursionError" /\ WithinRecursionBudget'
    BY <1>9, <2>4 DEF RecursionAbort, WithinRecursionBudget
  <2>6. Budget(node', s2, lk2, rt2, ex2, L, R, E)
    BY <2>5 DEF Budget, TerminalNodes
  <2> QED
    BY <2>5, <2>6, <1>g
<1>10. CASE UNCHANGED vars
  <2>1. /\ node' = node /\ retry_counts' = retry_counts /\ trajectory' = trajectory
        /\ WithinRecursionBudget'
    BY <1>10, <1>p DEF vars, BudgetInv, WithinRecursionBudget, StepBudget
  <2>2. Budget(node', s2, lk2, rt2, ex2, L, R, E)
    BY <2>1, <1>b, <1>c, <1>d
  <2> QED
    BY <2>1, <2>2, <1>g
<1>11. CASE Audit \/ AuditWriteFails \/ EscalateHighRisk \/ EscalateNoViableRoute
            \/ FailExecution \/ ProviderRaises
  <2>1. node' \in {"END", "OSError", "ProviderError"}
    BY <1>11 DEF Audit, AuditWriteFails, EscalateHighRisk, EscalateNoViableRoute,
                 FailExecution, Terminal, ProviderRaises
  <2> QED
    BY <2>1, <1>8
<1>12. ~ ResultIsNoModel
    BY <1>p, ShippedResult
<1> QED
    BY <1>1, <1>2, <1>3, <1>4, <1>5, <1>6, <1>7, <1>9, <1>10, <1>11, <1>12
       DEF Next, NodeStep, Terminating

\* With the providers this repository ships, a run whose retry settings fit
\* the recursion limit never ends in a GraphRecursionError: all its loops
\* together take at most StepBudget nodes.
THEOREM RunsFitRecursionLimit ==
    Spec => [](provider # "adapter" => WithinRecursionBudget)
<1>1. BudgetInv => (provider # "adapter" => WithinRecursionBudget)
    BY DEF BudgetInv
<1> QED
    BY InitType, StepType, ControlInit, ControlStep, BudgetInit, BudgetStep, <1>1,
       PTL DEF Spec

-----------------------------------------------------------------------------
(* The pipeline implements the contract of run().                          *)

\* Every step of a run of a shipped provider is a step of the contract or
\* leaves the contract's variables alone: the execution node books, the audit
\* node reports the success, and a terminal node gives up.
LEMMA ContractStep ==
    ASSUME LastErrorCarried, TypeOK, ControlInv, ProposalInv,
           provider # "adapter", Next
    PROVE  [Contract!Next]_Contract!vars
<1> USE DEF inputs, proposal, outcome, Enters
<1> DEFINE Still == /\ ViableCarriers' = ViableCarriers
                    /\ execution_result' = execution_result
                    /\ final_status' = final_status
<1>s. ASSUME Still
      PROVE  UNCHANGED Contract!vars
    BY <1>s DEF Contract!vars, Booked
<1>v. ViableCarriers' = ViableCarriers
    BY DEF Next, NodeStep, Terminating, vars, Planner, Risk, CarrierLookup,
           RouteOptimizer, Validator, ValidateNothing, Execution, ResultIsNoModel,
           Audit, AuditWriteFails, EscalateHighRisk, EscalateNoViableRoute,
           FailExecution, Terminal, ProviderRaises, RecursionAbort, ViableCarriers
<1>1. CASE Planner \/ Risk \/ CarrierLookup \/ RouteOptimizer \/ Validator
           \/ ValidateNothing \/ AuditWriteFails \/ ProviderRaises \/ RecursionAbort
           \/ Terminating
  <2>1. Still
    BY <1>1, <1>v DEF Planner, Risk, CarrierLookup, RouteOptimizer, Validator,
           ValidateNothing, AuditWriteFails, ProviderRaises, RecursionAbort,
           Terminating, vars
  <2> QED
    BY <2>1, <1>s
<1>2. CASE Execution
  <2>1. ~ execution_result.executed /\ final_status = "IN_PROGRESS"
    BY <1>2 DEF Execution, ControlInv, Stopped, Exceptions
  <2>2. final_status' = final_status
    BY <1>2 DEF Execution
  <2>3. CASE execution_result' = execution_result
    BY <2>2, <2>3, <1>v, <1>s
  <2>4. CASE execution_result' # execution_result
    <3>1. PICK d \in Decisions(retry_counts.execution) :
              execution_result' = [executed |-> TRUE, carrier |-> d.carrier]
      BY <1>2, <2>4, ShippedCall DEF Execution
    <3>2. d.carrier = candidate_route
      BY ShippedDecision
    <3>3. /\ candidate_route \in route_optimizer(Lane, max_transit_hours)
          /\ route_validator(candidate_route, max_transit_hours)
      BY <1>2 DEF Execution, ProposalInv
    <3>4. execution_result'.carrier \in ViableCarriers
      BY <3>1, <3>2, <3>3, ValidChoiceIsCheapestViable
    <3>5. Booked = {} /\ Booked' = {execution_result'.carrier}
      BY <2>1, <3>1 DEF Booked
    <3> QED
      BY <2>1, <2>2, <3>4, <3>5, <1>v DEF Contract!Next, Contract!Book
  <2> QED
    BY <2>3, <2>4
<1>3. CASE Audit
  <2>1. /\ execution_result.executed /\ final_status = "IN_PROGRESS"
        /\ final_status' = "SUCCESS" /\ execution_result' = execution_result
    BY <1>3, LastErrorCarried DEF Audit, ControlInv
  <2> QED
    BY <2>1, <1>v DEF Contract!Next, Contract!Succeed, Booked
<1>4. CASE EscalateHighRisk \/ EscalateNoViableRoute \/ FailExecution
  <2>1. /\ node \in TerminalNodes
        /\ final_status' \in {"ESCALATED", "FAILED"}
        /\ execution_result' = execution_result
    BY <1>4 DEF EscalateHighRisk, EscalateNoViableRoute, FailExecution, Terminal,
                TerminalNodes
  <2>2. ~ execution_result.executed /\ final_status = "IN_PROGRESS"
    BY <2>1 DEF TerminalNodes, ControlInv, Stopped, Exceptions
  <2> QED
    BY <2>1, <2>2, <1>v DEF Contract!Next, Contract!GiveUp, Booked
<1>5. ~ ResultIsNoModel
    BY ShippedResult
<1> QED
    BY <1>1, <1>2, <1>3, <1>4, <1>5 DEF Next, NodeStep

\* When the runtime carries _last_error, a run of a shipped provider books at
\* most one carrier, a viable one, before it reports SUCCESS, and none before
\* or after it reports ESCALATED or FAILED.
THEOREM PipelineImplementsContract ==
    ASSUME LastErrorCarried, "adapter" \notin RunProviders
    PROVE  Spec => ImplementsContract
<1>1. Init => Contract!Init
    BY DEF Init, Contract!Init, NotExecuted, Booked, ViableCarriers
<1>2. TypeOK => provider # "adapter"
    BY DEF TypeOK
<1>3. TypeOK /\ ControlInv /\ ProposalInv /\ [Next]_vars
          => [Contract!Next]_Contract!vars
  <2>1. UNCHANGED vars => UNCHANGED Contract!vars
    BY DEF vars, inputs, outcome, Contract!vars, Booked, ViableCarriers
  <2> QED
    BY <2>1, <1>2, ContractStep
<1> QED
    BY InitType, StepType, ControlInit, ControlStep, ProposalInit, ProposalStep,
       <1>1, <1>3, PTL DEF Spec, ImplementsContract, Contract!Spec

=============================================================================
