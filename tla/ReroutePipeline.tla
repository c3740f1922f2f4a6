-------------------------- MODULE ReroutePipeline --------------------------
(***************************************************************************)
(* One run of the rerouting graph (graph/build_graph.py): the nodes of     *)
(* graph/nodes, the conditional edges of graph/edges.py and the GraphState *)
(* they share, from a fresh alert to a terminal node or an exception.      *)
(*                                                                         *)
(* LangGraph runs one node at a time and then evaluates the node's         *)
(* outgoing edge on the updated state, so an action is a whole node        *)
(* followed by its edge.  The alert, the provider and the settings of the  *)
(* run are variables chosen by Init and never changed.                     *)
(*                                                                         *)
(* LastErrorCarried says whether the runtime keeps the key _last_error of  *)
(* a node's update.  GraphState does not declare that key; the nodes and   *)
(* the edges are written as if it were kept.                               *)
(***************************************************************************)
EXTENDS ModelProvider, FiniteSets

CONSTANTS
    Alerts,             \* the alerts a run may start from
    RunProviders,       \* the providers a run may be configured with
    SettingsSpace,      \* the settings a run may be configured with
    RecursionLimit,     \* LangGraph's recursion_limit; 50 in the code
    LastErrorCarried    \* does an undeclared state key survive an update?

Settings ==
    [risk_escalation_threshold : 0..1000, max_transit_hours : Nat,
     max_retries_carrier_lookup : Nat, max_retries_route_optimizer : Nat,
     max_retries_execution : Nat, write_audit_log_file : BOOLEAN]

ASSUME InputAssumption ==
    /\ Alerts \subseteq Alert
    /\ RunProviders \subseteq Providers
    /\ SettingsSpace \subseteq Settings
    /\ RecursionLimit \in Nat \ {0}
    /\ LastErrorCarried \in BOOLEAN

VARIABLES
    alert, provider, settings,  \* the inputs of the run
    node,                   \* the node to run next, or how the run stopped
    risk_assessment,        \* the risk score, or NoScore
    candidate_carriers,     \* what the last successful lookup found
    candidate_route,        \* the proposed carrier, or NoCarrier
    rejected_alternatives,  \* the feasible carriers the optimizer passed over
    validation_result,      \* "none", "valid" or "invalid"
    execution_result,       \* has a booking been confirmed, and with whom?
    retry_counts,           \* failures counted against each retry ceiling
    last_error,             \* _last_error: the failing node, and if transient
    final_status, escalation_reason,
    trajectory,             \* the recorded steps
    audit_log               \* the records the audit node appended to its file

inputs   == <<alert, provider, settings>>
proposal == <<candidate_route, rejected_alternatives>>
outcome  == <<final_status, escalation_reason>>
vars == <<inputs, node, risk_assessment, candidate_carriers, proposal,
          validation_result, execution_result, retry_counts, last_error,
          outcome, trajectory, audit_log>>

-----------------------------------------------------------------------------
StepNodes == ToolNodes \cup {"planner", "audit"}
TerminalNodes == {"escalate_high_risk", "escalate_no_viable_route", "fail_execution"}
Nodes == StepNodes \cup TerminalNodes

\* A run that is not about to enter a node has returned or raised.
Exceptions ==
    {"ProviderError", "TypeError", "AttributeError", "OSError", "GraphRecursionError"}
Stopped == {"END"} \cup Exceptions

NoScore == -1
NotExecuted == [executed |-> FALSE, carrier |-> NoCarrier]
NoError == [node |-> "none", transient |-> FALSE]
NoRetries == [carrier_lookup |-> 0, route_optimizer |-> 0, execution |-> 0]

Errors == {"none", "schema", "no_carrier", "infeasible", "transient"}

StepTools == ToolNames \cup {Unregistered, "none"}

\* A step of the trajectory, with the tool it called or tried to call; positions
\* count from 1 and 0 is None.
Step ==
    [node : StepNodes, tool : StepTools, error : Errors, retry_of : Nat,
     entities : SUBSET (Carriers \cup {NoCarrier})]

AuditRecord ==
    [chosen_route : Carriers \cup {NoCarrier},
     rejected_alternatives : SUBSET Carriers,
     risk_score : {NoScore} \cup 0..1000, tool_call_count : Nat]

Init ==
    /\ alert \in Alerts
    /\ provider \in RunProviders
    /\ settings \in SettingsSpace
    /\ node = "planner"
    /\ risk_assessment = NoScore
    /\ candidate_carriers = {}
    /\ candidate_route = NoCarrier
    /\ rejected_alternatives = {}
    /\ validation_result = "none"
    /\ execution_result = NotExecuted
    /\ retry_counts = NoRetries
    /\ last_error = NoError
    /\ final_status = "IN_PROGRESS"
    /\ escalation_reason = "none"
    /\ trajectory = <<>>
    /\ audit_log = <<>>

-----------------------------------------------------------------------------
(* The edges, evaluated on the state the node left behind.                 *)

\* Faulty variant: escalates at the threshold, not only above it.
route_after_risk_AtThreshold(score) ==
    IF score # NoScore /\ score >= settings.risk_escalation_threshold
    THEN "escalate_high_risk"
    ELSE "carrier_lookup"

route_after_risk(score) ==
    IF score # NoScore /\ score > settings.risk_escalation_threshold
    THEN "escalate_high_risk"
    ELSE "carrier_lookup"

\* Faulty variant: one retry short of the ceiling.
route_after_carrier_lookup_OneShort(error, failures) ==
    IF error.node # "carrier_lookup" THEN "route_optimizer"
    ELSE IF failures < settings.max_retries_carrier_lookup
         THEN "carrier_lookup"
         ELSE "escalate_no_viable_route"

route_after_carrier_lookup(error, failures) ==
    IF error.node # "carrier_lookup" THEN "route_optimizer"
    ELSE IF failures <= settings.max_retries_carrier_lookup
         THEN "carrier_lookup"
         ELSE "escalate_no_viable_route"

\* Faulty variant: a proposed route goes straight to execution.
route_after_route_optimizer_Unvalidated(error) ==
    IF error.node = "route_optimizer" THEN "escalate_no_viable_route" ELSE "execution"

route_after_route_optimizer(error) ==
    IF error.node = "route_optimizer" THEN "escalate_no_viable_route" ELSE "validator"

\* Faulty variants: one proposal too many; and an invalid route is executed
\* once the ceiling is reached.
route_after_validator_OneMore(result, failures) ==
    IF result = "valid" THEN "execution"
    ELSE IF result = "invalid" /\ failures <= settings.max_retries_route_optimizer + 1
         THEN "route_optimizer"
         ELSE "escalate_no_viable_route"

route_after_validator_FailOpen(result, failures) ==
    IF result = "invalid" /\ failures <= settings.max_retries_route_optimizer
    THEN "route_optimizer"
    ELSE "execution"

route_after_validator(result, failures) ==
    IF result = "valid" THEN "execution"
    ELSE IF result = "invalid" /\ failures <= settings.max_retries_route_optimizer
         THEN "route_optimizer"
         ELSE "escalate_no_viable_route"

\* Faulty variants: an exhausted execution is audited like a confirmed one; one
\* retry short of the ceiling; and failures are told from the counter alone.
route_after_execution_FailOpen(error, failures) ==
    IF error.node = "execution" /\ error.transient
           /\ failures <= settings.max_retries_execution
    THEN "execution"
    ELSE "audit"

route_after_execution_OneShort(error, failures) ==
    IF error.node # "execution" THEN "audit"
    ELSE IF error.transient /\ failures < settings.max_retries_execution
         THEN "execution"
         ELSE "fail_execution"

route_after_execution_ByCount(error, failures) ==
    IF failures = 0 THEN "audit"
    ELSE IF failures <= settings.max_retries_execution
         THEN "execution"
         ELSE "fail_execution"

route_after_execution(error, failures) ==
    IF error.node # "execution" THEN "audit"
    ELSE IF error.transient /\ failures <= settings.max_retries_execution
         THEN "execution"
         ELSE "fail_execution"

-----------------------------------------------------------------------------
(* What the nodes share.                                                   *)

\* Each node run adds one step, except the terminal nodes, and those end the
\* run: the trajectory's length counts the supersteps LangGraph has taken.
Enters(n) == node = n /\ Len(trajectory) < RecursionLimit

add_step(n, tool, error, retry_of, entities) ==
    trajectory' = Append(trajectory,
        [node |-> n, tool |-> tool, error |-> error, retry_of |-> retry_of,
         entities |-> entities])

\* The update of _last_error, as far as the runtime lets it through.
SetLastError(n, transient) ==
    last_error' = IF LastErrorCarried THEN [node |-> n, transient |-> transient]
                                      ELSE last_error

ClearLastError == last_error' = IF LastErrorCarried THEN NoError ELSE last_error

\* Faulty variant: the incremented copy of the counters is never returned.
CountFailure_Lost(n) == n \in DOMAIN retry_counts /\ UNCHANGED retry_counts

CountFailure(n) == retry_counts' = [retry_counts EXCEPT ![n] = @ + 1]

\* Faulty variant: the search runs forwards.
PreviousStep_First(n) ==
    LET at == {i \in DOMAIN trajectory : trajectory[i].node = n}
        first == {i \in at : \A j \in at : i <= j}
    IN  IF first = {} THEN 0 ELSE CHOOSE i \in first : TRUE

\* The latest step of node n, as _previous_carrier_lookup_step and
\* _previous_execution_step find it by searching backwards.
PreviousStep(n) ==
    LET at == {i \in DOMAIN trajectory : trajectory[i].node = n}
        latest == {i \in at : \A j \in at : j <= i}
    IN  IF latest = {} THEN 0 ELSE CHOOSE i \in latest : TRUE

\* Faulty variant: the first retry is not marked as one.
retry_of_step_Late(n) == IF retry_counts[n] > 1 THEN PreviousStep(n) ELSE 0

retry_of_step(n) == IF retry_counts[n] > 0 THEN PreviousStep(n) ELSE 0

total_tool_calls ==
    Cardinality({i \in DOMAIN trajectory : trajectory[i].node \in ToolNodes})

Decisions(failures) == decide_tool_call(provider, node, alert, candidate_route, failures)

-----------------------------------------------------------------------------
Planner ==
    /\ Enters("planner")
    /\ provider \notin StubProviders
    /\ add_step("planner", "none", "none", 0, {})
    /\ node' = "risk"
    /\ UNCHANGED <<inputs, risk_assessment, candidate_carriers, proposal,
                   validation_result, execution_result, retry_counts,
                   last_error, outcome, audit_log>>

\* A failed risk call leaves no score, and no trace in _last_error; nor is there
\* a score in what another tool returns.
Risk ==
    /\ Enters("risk")
    /\ \E d \in Decisions(0) :
         /\ add_step("risk", d.tool, CallError(d), 0, {})
         /\ IF CallError(d) = "none" /\ d.tool = "risk_scorer"
            THEN risk_assessment' \in
                     risk_scorer(alert.alert_type, alert.severity, alert.affected)
            ELSE UNCHANGED risk_assessment
    /\ node' = route_after_risk(risk_assessment')
    /\ UNCHANGED <<inputs, candidate_carriers, proposal, validation_result,
                   execution_result, retry_counts, last_error, outcome, audit_log>>

CarrierLookup ==
    /\ Enters("carrier_lookup")
    /\ \E d \in Decisions(retry_counts.carrier_lookup) :
         LET found == carrier_lookup(alert.origin, alert.destination, alert.affected)
             error == IF ~ d.schema_valid THEN "schema"
                      ELSE IF found = {} THEN "no_carrier" ELSE "none"
         IN  \/ /\ error = "none"
                /\ candidate_carriers' = found
                /\ add_step("carrier_lookup", d.tool, "none", retry_of_step("carrier_lookup"), found)
                /\ ClearLastError
                /\ UNCHANGED retry_counts
             \/ /\ error # "none"
                /\ add_step("carrier_lookup", d.tool, error, retry_of_step("carrier_lookup"), {})
                /\ CountFailure("carrier_lookup")
                /\ SetLastError("carrier_lookup", FALSE)
                /\ UNCHANGED candidate_carriers
    /\ node' = route_after_carrier_lookup(last_error', retry_counts'.carrier_lookup)
    /\ UNCHANGED <<inputs, risk_assessment, proposal, validation_result,
                   execution_result, outcome, audit_log>>

RouteOptimizer ==
    /\ Enters("route_optimizer")
    /\ \E d \in Decisions(0) :
         LET feasible == FeasibleCarriers(candidate_carriers, max_transit_hours)
         IN  \/ /\ d.schema_valid
                /\ candidate_route' \in route_optimizer(candidate_carriers, max_transit_hours)
                /\ rejected_alternatives' = feasible \ {candidate_route'}
                /\ add_step("route_optimizer", d.tool, "none", 0, feasible)
                /\ ClearLastError
             \/ /\ ~ d.schema_valid \/ feasible = {}
                /\ add_step("route_optimizer", d.tool,
                            IF d.schema_valid THEN "infeasible" ELSE "schema", 0, {})
                /\ SetLastError("route_optimizer", FALSE)
                /\ UNCHANGED proposal
    /\ node' = route_after_route_optimizer(last_error')
    /\ UNCHANGED <<inputs, risk_assessment, candidate_carriers, validation_result,
                   execution_result, retry_counts, outcome, audit_log>>

\* The node validates the route the decision names, which for the mocks is the
\* candidate route; an adapter's may be of a carrier nobody knows.  An invalid
\* route is charged to the route optimizer.  A call the registry refuses changes
\* neither the result nor any count.
Validator ==
    /\ Enters("validator")
    /\ \E d \in Decisions(0) :
         /\ provider # "adapter" => d.carrier # NoCarrier
         /\ \/ /\ d.schema_valid
               /\ TRUE \in Verdicts(provider, d.carrier)
               /\ validation_result' = "valid"
               /\ add_step("validator", d.tool, "none", 0, {d.carrier})
               /\ UNCHANGED <<retry_counts, last_error>>
            \/ /\ d.schema_valid
               /\ FALSE \in Verdicts(provider, d.carrier)
               /\ validation_result' = "invalid"
               /\ CountFailure("route_optimizer")
               /\ add_step("validator", d.tool, "none", 0, {d.carrier})
               /\ UNCHANGED last_error
            \/ /\ ~ d.schema_valid
               /\ SetLastError("validator", FALSE)
               /\ add_step("validator", d.tool, "schema", 0, {d.carrier})
               /\ UNCHANGED <<validation_result, retry_counts>>
    /\ node' = route_after_validator(validation_result', retry_counts'.route_optimizer)
    /\ UNCHANGED <<inputs, risk_assessment, candidate_carriers, proposal,
                   execution_result, outcome, audit_log>>

\* RouteCandidate(**None): there is no route to validate, and the node raises
\* before it records a step.
ValidateNothing ==
    /\ Enters("validator")
    /\ \E d \in Decisions(0) : d.carrier = NoCarrier
    /\ node' = "TypeError"
    /\ UNCHANGED <<inputs, risk_assessment, candidate_carriers, proposal,
                   validation_result, execution_result, retry_counts,
                   last_error, outcome, trajectory, audit_log>>

\* The node books the carrier the decision names; it does not compare it with
\* the route that was validated.  Whatever model the call returns becomes the
\* execution result: only the execution tool's says that it was executed.
Execution ==
    /\ Enters("execution")
    /\ \E d \in Decisions(retry_counts.execution) :
         LET error == CallError(d)
         IN  /\ add_step("execution", d.tool, error, retry_of_step("execution"), {d.carrier})
             /\ \/ /\ error = "none"
                   /\ execution_result' = IF d.tool = "execution_simulator"
                                          THEN [executed |-> TRUE, carrier |-> d.carrier]
                                          ELSE NotExecuted
                   /\ ClearLastError
                   /\ UNCHANGED retry_counts
                \/ /\ error # "none"
                   /\ CountFailure("execution")
                   /\ SetLastError("execution", error = "transient")
                   /\ UNCHANGED execution_result
    /\ node' = route_after_execution(last_error', retry_counts'.execution)
    /\ UNCHANGED <<inputs, risk_assessment, candidate_carriers, proposal,
                   validation_result, outcome, audit_log>>

\* A plain node asks a list or a tuple for its model_dump: it has recorded its
\* step by then, and an execution step names no carrier.
ResultIsNoModel ==
    /\ node \in PlainNodes
    /\ Enters(node)
    /\ \E d \in Decisions(IF node = "execution" THEN retry_counts.execution ELSE 0) :
         /\ d.schema_valid
         /\ d.tool \in DOMAIN NoModelError
         /\ IF node = "execution"
            THEN add_step(node, d.tool, "none", retry_of_step("execution"), {NoCarrier})
            ELSE add_step(node, d.tool, "none", 0, {})
    /\ node' = "AttributeError"
    /\ UNCHANGED <<inputs, risk_assessment, candidate_carriers, proposal,
                   validation_result, execution_result, retry_counts,
                   last_error, outcome, audit_log>>

\* Faulty variant: counts steps for tool calls.
audit_record_CountsSteps ==
    [chosen_route |-> candidate_route,
     rejected_alternatives |-> rejected_alternatives,
     risk_score |-> risk_assessment,
     tool_call_count |-> Len(trajectory)]

audit_record ==
    [chosen_route |-> candidate_route,
     rejected_alternatives |-> rejected_alternatives,
     risk_score |-> risk_assessment,
     tool_call_count |-> total_tool_calls]

Audit ==
    /\ Enters("audit")
    /\ audit_log' = IF settings.write_audit_log_file
                    THEN Append(audit_log, audit_record) ELSE audit_log
    /\ add_step("audit", "none", "none", 0, {})
    /\ final_status' = "SUCCESS"
    /\ node' = "END"
    /\ UNCHANGED <<inputs, risk_assessment, candidate_carriers, proposal,
                   validation_result, execution_result, retry_counts,
                   last_error, escalation_reason>>

\* The directory or the file cannot be written: the exception leaves the run
\* before the step and the status are recorded.
AuditWriteFails ==
    /\ Enters("audit")
    /\ settings.write_audit_log_file
    /\ node' = "OSError"
    /\ UNCHANGED <<inputs, risk_assessment, candidate_carriers, proposal,
                   validation_result, execution_result, retry_counts,
                   last_error, outcome, trajectory, audit_log>>

\* Faulty variant: the node's edge leads back to itself instead of to END.
Terminal_Loops(n, status, reason) ==
    /\ Enters(n)
    /\ final_status' = status
    /\ escalation_reason' = reason
    /\ UNCHANGED <<inputs, node, risk_assessment, candidate_carriers, proposal,
                   validation_result, execution_result, retry_counts,
                   last_error, trajectory, audit_log>>

Terminal(n, status, reason) ==
    /\ Enters(n)
    /\ final_status' = status
    /\ escalation_reason' = reason
    /\ node' = "END"
    /\ UNCHANGED <<inputs, risk_assessment, candidate_carriers, proposal,
                   validation_result, execution_result, retry_counts,
                   last_error, trajectory, audit_log>>

EscalateHighRisk == Terminal("escalate_high_risk", "ESCALATED", "high_risk")
EscalateNoViableRoute ==
    Terminal("escalate_no_viable_route", "ESCALATED", "no_viable_route")
FailExecution == Terminal("fail_execution", "FAILED", "execution_failed")

ProviderRaises ==
    /\ node \in Nodes
    /\ Len(trajectory) < RecursionLimit
    /\ MayRaise(provider, node)
    /\ node' = "ProviderError"
    /\ UNCHANGED <<inputs, risk_assessment, candidate_carriers, proposal,
                   validation_result, execution_result, retry_counts,
                   last_error, outcome, trajectory, audit_log>>

RecursionAbort ==
    /\ node \in Nodes
    /\ Len(trajectory) >= RecursionLimit
    /\ node' = "GraphRecursionError"
    /\ UNCHANGED <<inputs, risk_assessment, candidate_carriers, proposal,
                   validation_result, execution_result, retry_counts,
                   last_error, outcome, trajectory, audit_log>>

\* A stopped run stays as it is.
Terminating == node \in Stopped /\ UNCHANGED vars

NodeStep ==
    \/ Planner \/ Risk \/ CarrierLookup \/ RouteOptimizer
    \/ Validator \/ ValidateNothing \/ Execution \/ ResultIsNoModel
    \/ Audit \/ AuditWriteFails
    \/ EscalateHighRisk \/ EscalateNoViableRoute \/ FailExecution
    \/ ProviderRaises \/ RecursionAbort

Next == NodeStep \/ Terminating

Spec == Init /\ [][Next]_vars

\* app.invoke runs the graph synchronously to its end: a run that can take a
\* step takes one.
FairSpec == Spec /\ WF_vars(NodeStep)

-----------------------------------------------------------------------------
(* Invariants.                                                             *)

\* Every variable keeps its type; the routes under consideration are
\* carriers of the network, and a run is IN_PROGRESS until it ends.
TypeOK ==
    /\ alert \in Alerts
    /\ provider \in RunProviders
    /\ settings \in SettingsSpace
    /\ node \in Nodes \cup Stopped
    /\ risk_assessment \in {NoScore} \cup 0..1000
    /\ candidate_carriers \in SUBSET Carriers
    /\ candidate_route \in Carriers \cup {NoCarrier}
    /\ rejected_alternatives \in SUBSET Carriers
    /\ validation_result \in {"none", "valid", "invalid"}
    /\ execution_result \in
           [executed : BOOLEAN, carrier : Carriers \cup {NoCarrier}]
    /\ retry_counts \in
           [carrier_lookup : Nat, route_optimizer : Nat, execution : Nat]
    /\ last_error \in [node : ToolNodes \cup {"none"}, transient : BOOLEAN]
    /\ final_status \in {"IN_PROGRESS", "SUCCESS", "ESCALATED", "FAILED"}
    /\ escalation_reason \in
           {"none", "high_risk", "no_viable_route", "execution_failed"}
    /\ trajectory \in Seq(Step)
    /\ audit_log \in Seq(AuditRecord)

\* The carriers that could really be booked for the alert: they serve the
\* lane, are neither affected nor blocklisted, meet the transit limit and
\* cost something.
ViableCarriers ==
    {c \in Carriers : /\ alert.origin \in Network[c].regions
                      /\ alert.destination \in Network[c].regions
                      /\ c # alert.affected
                      /\ ~ Network[c].blocklisted
                      /\ Network[c].hours <= max_transit_hours
                      /\ Network[c].cost > 0}

StepsOf(n) == {i \in DOMAIN trajectory : trajectory[i].node = n}
FailedStepsOf(n) == {i \in StepsOf(n) : trajectory[i].error # "none"}

\* What execution.py books is the candidate route, and the validator's last
\* word on it was that it is valid.
ExecutedRouteWasValidated ==
    execution_result.executed =>
        /\ validation_result = "valid"
        /\ execution_result.carrier = candidate_route

\* A booked carrier is viable, and no viable carrier is cheaper, although the
\* lookup, the optimizer, the validator and the execution node each act on
\* what an earlier node left in the state.
BookedCarrierIsCheapestViable ==
    execution_result.executed =>
        /\ execution_result.carrier \in ViableCarriers
        /\ \A c \in ViableCarriers :
             Network[execution_result.carrier].cost <= Network[c].cost

\* A run that returns says SUCCESS exactly when the execution tool confirmed a
\* booking, whatever errors and retries lie in between.
SuccessIsConfirmed ==
    node = "END" => (final_status = "SUCCESS" <=> execution_result.executed)

\* With any provider, a booking ends in SUCCESS, and a SUCCESS without one can
\* be told from the trajectory: its last call, at the execution node, went to
\* another tool than the one that books, and raised no error.
UnbookedSuccessIsMiscalled ==
    node = "END" =>
        /\ execution_result.executed => final_status = "SUCCESS"
        /\ final_status = "SUCCESS" /\ ~ execution_result.executed =>
             LET last == trajectory[Len(trajectory) - 1]
             IN  /\ last.node = "execution"
                 /\ last.error = "none"
                 /\ last.tool # "execution_simulator"

\* A score above the threshold, and no other, keeps the pipeline away from the
\* carriers altogether and ends in escalation.
HighRiskIsEscalated ==
    /\ risk_assessment > settings.risk_escalation_threshold =>
        /\ \A i \in DOMAIN trajectory : trajectory[i].node \in {"planner", "risk"}
        /\ node = "END" => escalation_reason = "high_risk"
    /\ escalation_reason = "high_risk" =>
        risk_assessment > settings.risk_escalation_threshold

\* The retry counters are the failures the trajectory shows: of the lookup, of
\* the execution, and the routes the validator turned down.
RetryCountsMatchTrajectory ==
    /\ retry_counts.carrier_lookup = Cardinality(FailedStepsOf("carrier_lookup"))
    /\ retry_counts.execution = Cardinality(FailedStepsOf("execution"))
    /\ retry_counts.route_optimizer
           + (IF validation_result = "valid" THEN 1 ELSE 0)
         = Cardinality(StepsOf("validator") \ FailedStepsOf("validator"))

\* No node is tried more often than its ceiling allows: once, and once more
\* for each retry its setting grants.
AttemptCeilings ==
    /\ Cardinality(StepsOf("carrier_lookup")) <= settings.max_retries_carrier_lookup + 1
    /\ Cardinality(StepsOf("route_optimizer")) <= settings.max_retries_route_optimizer + 1
    /\ Cardinality(StepsOf("execution")) <= settings.max_retries_execution + 1

\* A repeated lookup or execution is recorded as a retry of the step just
\* before it, which failed; nothing else is recorded as a retry.
RetryLinks ==
    \A i \in DOMAIN trajectory :
        LET step == trajectory[i]
            repeated == /\ step.node \in {"carrier_lookup", "execution"}
                        /\ \E j \in 1..(i - 1) : trajectory[j].node = step.node
        IN  /\ step.retry_of = (IF repeated THEN i - 1 ELSE 0)
            /\ repeated => /\ trajectory[i - 1].node = step.node
                           /\ trajectory[i - 1].error # "none"

\* The pipeline asks a human for want of a route only when there is none.
EscalationIsJustified ==
    escalation_reason = "no_viable_route" => ViableCarriers = {}

\* A run fails only on an execution error it may not retry: one that is not
\* transient, or one that used up the ceiling.
FailureIsFinal ==
    final_status = "FAILED" =>
        LET last == trajectory[Len(trajectory)]
        IN  /\ last.node = "execution"
            /\ last.error # "none"
            /\ last.error = "transient" =>
                 Cardinality(StepsOf("execution")) = settings.max_retries_execution + 1
            /\ ~ execution_result.executed

\* The audit file gets one record for each SUCCESS that asks for it and none
\* otherwise; the record names the carrier that was booked, the alternatives
\* that were feasible but not cheaper, and every tool call of the run.
AuditIsFaithful ==
    /\ Len(audit_log) = (IF final_status = "SUCCESS" /\ settings.write_audit_log_file
                         THEN 1 ELSE 0)
    /\ \A i \in DOMAIN audit_log :
         LET record == audit_log[i]
         IN  /\ record.chosen_route = execution_result.carrier
             /\ record.rejected_alternatives =
                    FeasibleCarriers(candidate_carriers, max_transit_hours)
                        \ {record.chosen_route}
             /\ record.risk_score = risk_assessment
             /\ record.tool_call_count = total_tool_calls

\* The nodes a run enters at most, with both retry loops exhausted.
StepBudget ==
    7 + settings.max_retries_carrier_lookup
      + 2 * settings.max_retries_route_optimizer
      + settings.max_retries_execution

\* LangGraph's recursion limit never cuts off a run whose retries fit in it.
WithinRecursionBudget ==
    node = "GraphRecursionError" => StepBudget >= RecursionLimit

-----------------------------------------------------------------------------
(* What is left of the promises when _last_error is dropped.               *)

\* Nothing is retried or failed for want of a carried error: the errors of
\* the lookup, the optimizer and the execution node go unnoticed.
LostErrorsAreNeverRetried ==
    /\ final_status # "FAILED"
    /\ \A i \in DOMAIN trajectory : trajectory[i].retry_of = 0

\* An alert without a viable carrier is still never reported a success; if it
\* gets past the risk threshold it ends in the validator's TypeError instead
\* of an escalation, unless the validator could turn a route down.
NoSuccessWithoutViableCarrier ==
    /\ final_status = "SUCCESS" => ViableCarriers # {}
    /\ node = "TypeError" =>
         FeasibleCarriers(
             carrier_lookup(alert.origin, alert.destination, alert.affected),
             max_transit_hours) = {} \/ FailedStepsOf("carrier_lookup") # {}

-----------------------------------------------------------------------------
(* Liveness.                                                               *)

\* Every run returns or raises.
EventuallyStops == <>(node \in Stopped)

\* The alerts a mock pipeline should carry through on its own: a viable and
\* no invalid carrier to propose, a score the threshold lets pass, a ceiling
\* that allows for the faults the alert injects, and an audit that needs no
\* file.
Routine ==
    /\ provider \in MockProviders
    /\ ViableCarriers # {}
    /\ ViableCarriers = FeasibleCarriers(
           carrier_lookup(alert.origin, alert.destination, alert.affected),
           max_transit_hours)
    /\ \A score \in risk_scorer(alert.alert_type, alert.severity, alert.affected) :
           score <= settings.risk_escalation_threshold
    /\ alert.inject.carrier_lookup => settings.max_retries_carrier_lookup > 0
    /\ alert.inject.execution => settings.max_retries_execution > 0
    /\ ~ settings.write_audit_log_file
    /\ StepBudget < RecursionLimit

\* Such an alert is carried through, to a confirmed booking and SUCCESS, its
\* injected faults absorbed by the retries.
RoutineAlertsSucceed == Routine ~> (final_status = "SUCCESS" /\ execution_result.executed)

-----------------------------------------------------------------------------
(* The promise of run() as an abstract specification.                      *)

Booked == IF execution_result.executed THEN {execution_result.carrier} ELSE {}

Contract == INSTANCE RerouteContract WITH
    AllCarriers <- Carriers, viable <- ViableCarriers,
    booked <- Booked, status <- final_status

\* Node by node, a run of the mocks does what the contract allows: one booking
\* at most, of a viable carrier, then SUCCESS; no booking before or after an
\* escalation or a failure.
ImplementsContract == Contract!Spec

-----------------------------------------------------------------------------
(* What the documentation says and the code does not do.                   *)

\* The setting max_transit_hours tunes the pipeline (config/settings.py): a
\* booked carrier meets it.
TransitWithinSettings ==
    execution_result.executed /\ execution_result.carrier \in Carriers =>
        Network[execution_result.carrier].hours <= settings.max_transit_hours

=============================================================================
