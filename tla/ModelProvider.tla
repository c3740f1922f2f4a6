--------------------------- MODULE ModelProvider ---------------------------
(***************************************************************************)
(* The ModelProvider port (ports/model_provider.py) and the adapters       *)
(* behind it.  A provider never changes the pipeline's state: it is a      *)
(* constant-level relation between what it is asked and the tool-call      *)
(* decisions it may answer with.  A decision keeps what later steps tell   *)
(* apart: the tool it names, whether the registry accepts its arguments,   *)
(* the carrier of the route it asks to validate or to execute and, for the *)
(* execution tool, the failure flag and the attempt number.                *)
(***************************************************************************)
EXTENDS Tools

\* What else than a node's own tool an adapter may name there.
CONSTANT AdapterTools

\* Stands for every name the registry does not know.
Unregistered == "unregistered"

ASSUME AdapterToolsAssumption == AdapterTools \subseteq ToolNames \cup {Unregistered}

\* The nodes that call a tool, with arguments a provider decides.
ToolNodes == {"risk", "carrier_lookup", "route_optimizer", "validator", "execution"}

\* The tool each node is there to call, and the mocks name.
tool_name ==
    [risk |-> "risk_scorer", carrier_lookup |-> "carrier_lookup",
     route_optimizer |-> "route_optimizer", validator |-> "route_validator",
     execution |-> "execution_simulator"]

\* The alert's fields the pipeline reads; inject is extra["inject_failures"].
Alert ==
    [alert_type : AlertTypes, severity : Severities,
     origin : Regions, destination : Regions,
     affected : Carriers \cup {NoCarrier},
     inject : [carrier_lookup : BOOLEAN, execution : BOOLEAN]]

StubProviders == {"claude", "openai", "ollama"}

\* The adapters this repository ships; the mocks are the ones that answer.
MockProviders == {"mock", "mock_flaky"}

\* "adapter" is another implementation of the port, such as a language model.
\* It may raise, send a call the registry refuses, name another tool than the
\* node's own, name any carrier to the validator and to the execution tool, and
\* state any figures and limit to the validator.  What it asks the risk, lookup
\* and optimizer tools at their own nodes is about the alert and the state's
\* candidates, as with the mocks.
Providers == MockProviders \cup StubProviders \cup {"adapter"}

Decision ==
    [tool : ToolNames \cup {Unregistered}, schema_valid : BOOLEAN,
     carrier : Carriers \cup {NoCarrier}, force : BOOLEAN, attempt : {1, 2}]

-----------------------------------------------------------------------------
\* MockProvider reads max_transit_hours from a key of the state that no node
\* ever writes, so the limit it asks for is always its own default.
max_transit_hours == 72

Attempt(failures) == IF failures = 0 THEN 1 ELSE 2

MockDecision(node, route, failures) ==
    [tool |-> tool_name[node], schema_valid |-> TRUE, carrier |-> route,
     force |-> FALSE, attempt |-> Attempt(failures)]

\* The flaky mock spoils the first lookup, and asks every execution to fail
\* on its first attempt, when the alert tells it to.
FlakyDecision(node, alert, route, failures) ==
    [tool |-> tool_name[node],
     schema_valid |-> ~ ( /\ node = "carrier_lookup"
                          /\ alert.inject.carrier_lookup
                          /\ failures = 0 ),
     carrier |-> route,
     force |-> node = "execution" /\ alert.inject.execution,
     attempt |-> Attempt(failures)]

\* The nodes that hand a tool the decision's arguments as they are.  The other
\* three add one of their own, the repository, the carriers or the route.
PlainNodes == {"risk", "execution"}

\* A call that the registry accepts and a tool understands is one of the node's
\* own tool, or comes from a plain node: the others' arguments are unknown to any
\* tool but their own.  So is carrier_id, which the execution node goes on to
\* read, to any but the execution tool.
ReachesTool(node, d) ==
    \/ d.tool = tool_name[node]
    \/ node \in PlainNodes /\ d.tool \in ToolNames /\ d.carrier = NoCarrier

\* What provider may answer at a node that has failed so many times, with
\* route the candidate route of the state; a stub never answers.
decide_tool_call(provider, node, alert, route, failures) ==
    CASE provider = "mock" -> {MockDecision(node, route, failures)}
      [] provider = "mock_flaky" -> {FlakyDecision(node, alert, route, failures)}
      [] provider = "adapter" ->
             {d \in Decision : /\ d.tool \in AdapterTools \cup {tool_name[node]}
                               /\ d.schema_valid => ReachesTool(node, d)}
      [] OTHER -> {}

\* The tools that return no model but a list or a tuple, and the DomainError
\* they may raise instead.
NoModelError == [carrier_lookup |-> "no_carrier", route_optimizer |-> "infeasible"]

\* The error of a call whose result the node takes for a model: "none" says
\* that some model was returned, not which one.
CallError(d) ==
    IF ~ d.schema_valid THEN "schema"
    ELSE IF d.tool \in DOMAIN NoModelError THEN NoModelError[d.tool]
    ELSE IF d.tool = "execution_simulator" /\ FailsTransiently(d.force, d.attempt)
         THEN "transient"
    ELSE "none"

\* The verdicts the validator may come to on the route a decision names.  A mock
\* repeats the state's route and its own limit; an adapter states both itself.
Verdicts(provider, route) ==
    IF provider = "adapter" THEN BOOLEAN ELSE {route_validator(route, max_transit_hours)}

\* The stubs raise NotImplementedError as soon as they are asked for a plan;
\* an adapter may raise in any call.  The same outcome stands for a decision
\* the node cannot use at all: arguments a node unpacks before the registry
\* sees them (a route or a carrier of the wrong shape), calls on which the
\* registry itself raises something other than SchemaValidationError, and calls
\* that pass a tool an argument it does not know.
MayRaise(provider, node) ==
    \/ provider \in StubProviders /\ node = "planner"
    \/ provider = "adapter" /\ node \in ToolNodes \cup {"planner"}

=============================================================================
