----------------------------- MODULE ToolRegistry -----------------------------
(***************************************************************************)
(* The tool registry (tools/registry.py), the tools a run registers in it  *)
(* (graph/build_graph.py) and the one way nodes call a tool through it     *)
(* (graph/nodes/_tool_helpers.py).  The registry of a run never changes    *)
(* once it is built, and a run calls one tool at a time.                   *)
(*                                                                         *)
(* Of an argument only its kind is kept, its Python type as far as the     *)
(* registry or a tool tells it from others: "severity" is a string that is *)
(* one of the severities or empty, "list" a list of carriers, "other" any  *)
(* object not named here, as a dict.  The arguments of a call are a        *)
(* function from their names to kinds.                                     *)
(***************************************************************************)
EXTENDS Naturals, Sequences, FiniteSets

Kinds == {"str", "severity", "float", "int", "bool", "NoneType", "list",
          "Repository", "RouteCandidate", "other"}

ArgumentNames ==
    {"alert_type", "severity", "affected_carrier_reliability", "repository",
     "origin_region", "destination_region", "exclude_carrier_id", "carriers",
     "max_transit_hours", "route", "carrier_id", "alert_id",
     "force_transient_failure_then_succeed", "attempt_number", "undeclared"}

Tools == {"risk_scorer", "carrier_lookup", "route_optimizer", "route_validator",
          "execution_simulator"}

\* Is r a call a node may make: a tool's name, known or not, and the arguments
\* a provider decided on, completed by the node?
IsRequest(r) ==
    /\ r = [tool |-> r.tool, arguments |-> r.arguments]
    /\ r.tool \in Tools \cup {"no_such_tool"}
    /\ DOMAIN r.arguments \subseteq ArgumentNames
    /\ r.arguments \in [DOMAIN r.arguments -> Kinds]

CONSTANT Requests

ASSUME RequestsAssumption == \A r \in Requests : IsRequest(r)

VARIABLES
    stage,          \* how far the call has come
    request,
    verdict,        \* what validate_arguments makes of it
    entered,        \* has the tool's function been called?
    result,         \* "ok", the exception that was raised, or "none"
    recorded        \* the ToolCall that was recorded for it, or NoCall

vars == <<stage, request, verdict, entered, result, recorded>>

Stages == {"ready", "asked", "calling", "returned", "recorded", "raised"}

DomainErrors ==
    {"SchemaValidationError", "NoViableCarrierError", "RouteInfeasibleError",
     "ExecutionError"}
OtherErrors == {"AttributeError", "TypeError", "KeyError"}

NoCall == [schema_valid |-> FALSE, error |-> "none", result |-> FALSE]
NoRequest == [tool |-> "no_such_tool", arguments |-> <<>>]

-----------------------------------------------------------------------------
(* Types.  A type is a sequence of type names: one for a type, more for a  *)
(* tuple of types.                                                         *)

\* bool is a subclass of int; int is no subclass of float.
instances ==
    [str |-> {"str", "severity"}, float |-> {"float"}, int |-> {"int", "bool"},
     bool |-> {"bool"}, list |-> {"list"}, NoneType |-> {"NoneType"}, object |-> Kinds]

isinstance(kind, type) == \E i \in DOMAIN type : kind \in instances[type[i]]

IsTuple(type) == Len(type) > 1

\* Faulty variant: whatever the schema names is required.
ToolSpec_AllRequired(schema, required) == [schema |-> schema, required |-> DOMAIN schema]

\* required is empty when none are named: then all of the schema's are.
ToolSpec(schema, required) ==
    [schema |-> schema, required |-> IF required = {} THEN DOMAIN schema ELSE required]

\* Faulty variant: a severity has to be given.
risk_scorer_schema_NoDefault ==
    [alert_type |-> <<"str">>, severity |-> <<"str">>,
     affected_carrier_reliability |-> <<"float", "NoneType">>]

risk_scorer_schema ==
    [alert_type |-> <<"str">>, severity |-> <<"str", "NoneType">>,
     affected_carrier_reliability |-> <<"float", "NoneType">>]

\* What build_graph.py registers.
ToolSpecs ==
    [risk_scorer |-> ToolSpec(risk_scorer_schema, {"alert_type"}),
     carrier_lookup |->
         ToolSpec([repository |-> <<"object">>, origin_region |-> <<"str">>,
                   destination_region |-> <<"str">>,
                   exclude_carrier_id |-> <<"str", "NoneType">>],
                  {"repository", "origin_region", "destination_region"}),
     route_optimizer |->
         ToolSpec([carriers |-> <<"list">>, origin_region |-> <<"str">>,
                   destination_region |-> <<"str">>, max_transit_hours |-> <<"float">>],
                  {"carriers", "origin_region", "destination_region", "max_transit_hours"}),
     route_validator |->
         ToolSpec([route |-> <<"object">>, max_transit_hours |-> <<"float">>],
                  {"route", "max_transit_hours"}),
     execution_simulator |->
         ToolSpec([carrier_id |-> <<"str">>, alert_id |-> <<"str">>,
                   force_transient_failure_then_succeed |-> <<"bool">>,
                   attempt_number |-> <<"int">>],
                  {"carrier_id", "alert_id", "force_transient_failure_then_succeed",
                   "attempt_number"})]

-----------------------------------------------------------------------------
(* The tools behind the registry, as far as their arguments decide how a   *)
(* call ends.                                                              *)

\* The parameters of each function, with the kinds its annotations allow.
parameters ==
    [risk_scorer |->
         [alert_type |-> {"str", "severity"}, severity |-> {"severity", "NoneType"},
          affected_carrier_reliability |-> {"float", "NoneType"}],
     carrier_lookup |->
         [repository |-> {"Repository"}, origin_region |-> {"str", "severity"},
          destination_region |-> {"str", "severity"},
          exclude_carrier_id |-> {"str", "severity", "NoneType"}],
     route_optimizer |->
         [carriers |-> {"list"}, origin_region |-> {"str", "severity"},
          destination_region |-> {"str", "severity"}, max_transit_hours |-> {"float"}],
     route_validator |->
         [route |-> {"RouteCandidate"}, max_transit_hours |-> {"float"}],
     execution_simulator |->
         [carrier_id |-> {"str", "severity"}, alert_id |-> {"str", "severity"},
          force_transient_failure_then_succeed |-> {"bool"},
          attempt_number |-> {"int", "bool"}]]

\* The parameters a call may leave out.
defaulted(tool) == IF tool = "carrier_lookup" THEN {"exclude_carrier_id"} ELSE {}

\* The domain errors a tool may raise itself.
refusals ==
    [risk_scorer |-> {}, carrier_lookup |-> {"NoViableCarrierError"},
     route_optimizer |-> {"RouteInfeasibleError"}, route_validator |-> {},
     execution_simulator |-> {"ExecutionError"}]

\* How func(**arguments) may end.  Python refuses names the function does not
\* have and misses those without a default; risk_scorer looks a severity up in
\* a table; the repository and the route are used for what they should be.
func(tool, arguments) ==
    LET named == DOMAIN arguments
        fits(p) == p \in named => arguments[p] \in parameters[tool][p]
    IN  IF ~ (/\ named \subseteq DOMAIN parameters[tool]
              /\ DOMAIN parameters[tool] \ defaulted(tool) \subseteq named)
        THEN {"TypeError"}
        ELSE CASE tool = "risk_scorer" /\ ~ fits("severity") -> {"KeyError"}
               [] tool = "carrier_lookup" /\ ~ fits("repository") -> {"AttributeError"}
               [] tool = "route_validator" /\ ~ fits("route") -> {"AttributeError"}
               [] OTHER -> {"ok"} \cup refusals[tool]

-----------------------------------------------------------------------------
(* The registry.                                                           *)

\* Faulty variant: only required arguments are looked at.
MistypedArguments_Required(spec, arguments) ==
    {k \in DOMAIN arguments \cap spec.required : ~ isinstance(arguments[k], spec.schema[k])}

MistypedArguments(spec, arguments) ==
    {k \in DOMAIN arguments \cap DOMAIN spec.schema :
        ~ isinstance(arguments[k], spec.schema[k])}

\* How validate_arguments may end.  The first mistyped argument, in the order
\* of the dict, decides; to report a wrong type the code asks the expected one
\* for its __name__, which a tuple of types does not have.
validate_arguments(tool, arguments) ==
    IF tool \notin Tools THEN {"SchemaValidationError"}
    ELSE LET spec == ToolSpecs[tool]
             mistyped == MistypedArguments(spec, arguments)
         IN  IF spec.required \ DOMAIN arguments # {} THEN {"SchemaValidationError"}
             ELSE IF mistyped = {} THEN {"valid"}
             ELSE {IF IsTuple(spec.schema[k]) THEN "AttributeError"
                   ELSE "SchemaValidationError" : k \in mistyped}

-----------------------------------------------------------------------------
(* invoke_and_record, one step for each thing that may raise.              *)

Init ==
    /\ stage = "ready"
    /\ request = NoRequest
    /\ verdict = "none"
    /\ entered = FALSE
    /\ result = "none"
    /\ recorded = NoCall

invoke_and_record ==
    /\ stage = "ready"
    /\ request' \in Requests
    /\ stage' = "asked"
    /\ UNCHANGED <<verdict, entered, result, recorded>>

\* Only SchemaValidationError is caught here.
is_valid_schema ==
    /\ stage = "asked"
    /\ verdict' \in validate_arguments(request.tool, request.arguments)
    /\ IF verdict' \in OtherErrors
       THEN stage' = "raised" /\ result' = verdict'
       ELSE stage' = "calling" /\ UNCHANGED result
    /\ UNCHANGED <<request, entered, recorded>>

\* The arguments are validated again; they are the same, and so is the verdict.
call ==
    /\ stage = "calling"
    /\ \/ /\ verdict = "valid"
          /\ entered' = TRUE
          /\ result' \in func(request.tool, request.arguments)
       \/ /\ verdict # "valid"
          /\ result' = verdict
          /\ UNCHANGED entered
    /\ stage' = IF result' \in OtherErrors THEN "raised" ELSE "returned"
    /\ UNCHANGED <<request, verdict, recorded>>

\* Faulty variants: the exceptions of Python are recorded like domain errors;
\* and the expected validity is recorded in place of the actual one.
record_call_Any ==
    /\ stage \in {"returned", "raised"}
    /\ recorded' = [schema_valid |-> verdict = "valid",
                    error |-> IF result = "ok" THEN "none" ELSE result,
                    result |-> result = "ok"]
    /\ stage' = "recorded"
    /\ UNCHANGED <<request, verdict, entered, result>>

record_call_Expected ==
    /\ stage = "returned"
    /\ recorded' = [schema_valid |-> TRUE,
                    error |-> IF result = "ok" THEN "none" ELSE result,
                    result |-> result = "ok"]
    /\ stage' = "recorded"
    /\ UNCHANGED <<request, verdict, entered, result>>

\* The caller gets a ToolCall for a result or a domain error.
record_call ==
    /\ stage = "returned"
    /\ recorded' = [schema_valid |-> verdict = "valid",
                    error |-> IF result = "ok" THEN "none" ELSE result,
                    result |-> result = "ok"]
    /\ stage' = "recorded"
    /\ UNCHANGED <<request, verdict, entered, result>>

\* The run goes on, or the exception has ended it and the next run builds a
\* registry of its own: what was registered is the same, and nothing else of a
\* call is kept.
NextCall ==
    /\ stage \in {"recorded", "raised"}
    /\ stage' = "ready"
    /\ request' = NoRequest
    /\ verdict' = "none"
    /\ entered' = FALSE
    /\ result' = "none"
    /\ recorded' = NoCall

Next == invoke_and_record \/ is_valid_schema \/ call \/ record_call \/ NextCall

Spec == Init /\ [][Next]_vars

-----------------------------------------------------------------------------
(* The calls the mocks decide on.                                          *)

MockArguments ==
    [risk_scorer |->
         [alert_type : {"str"}, severity : {"severity", "NoneType"},
          affected_carrier_reliability : {"float", "NoneType"}],
     carrier_lookup |->
         [repository : {"Repository"}, origin_region : {"str"},
          destination_region : {"str"}, exclude_carrier_id : {"str", "NoneType"}],
     route_optimizer |->
         [carriers : {"list"}, origin_region : {"str"}, destination_region : {"str"},
          max_transit_hours : {"float"}],
     route_validator |->
         [route : {"RouteCandidate"}, max_transit_hours : {"float"}],
     execution_simulator |->
         [carrier_id : {"str"}, alert_id : {"str"},
          force_transient_failure_then_succeed : {"bool"}, attempt_number : {"int"}]]

\* The lookup the flaky mock spoils: it leaves destination_region out.
MalformedLookups ==
    [repository : {"Repository"}, origin_region : {"str"},
     exclude_carrier_id : {"str", "NoneType"}]

-----------------------------------------------------------------------------
(* Properties.                                                             *)

TypeOK ==
    /\ stage \in Stages
    /\ IsRequest(request)
    /\ verdict \in {"none", "valid", "SchemaValidationError"} \cup OtherErrors
    /\ entered \in BOOLEAN
    /\ result \in {"none", "ok"} \cup DomainErrors \cup OtherErrors
    /\ recorded \in [schema_valid : BOOLEAN, error : {"none"} \cup DomainErrors,
                     result : BOOLEAN]

\* A recorded call is schema-valid exactly when its tool was entered, holds a
\* result exactly when it holds no error, and blames the schema for nothing a
\* tool refused.
RecordsTellTheTruth ==
    stage = "recorded" =>
        /\ recorded.schema_valid <=> entered
        /\ recorded.result <=> recorded.error = "none"
        /\ recorded.error = "SchemaValidationError" <=> ~ entered

\* Between the decision of a mock and the function of the tool nothing is lost:
\* the registry lets all its calls pass but the spoilt lookup, which never
\* reaches the tool and comes back as a schema error.
MockCallsAreUnderstood ==
    stage \in {"returned", "recorded", "raised"} /\ request.tool \in Tools =>
        /\ request.arguments \in MockArguments[request.tool] =>
             entered /\ result \in {"ok"} \cup refusals[request.tool]
        /\ request.tool = "carrier_lookup" /\ request.arguments \in MalformedLookups =>
             ~ entered /\ result = "SchemaValidationError"

\* A tool only sees arguments of the types it was registered with.
ToolsGetDeclaredTypes ==
    entered =>
        \A k \in DOMAIN request.arguments :
            k \in DOMAIN ToolSpecs[request.tool].schema =>
                isinstance(request.arguments[k], ToolSpecs[request.tool].schema[k])

\* The call fits the signature of the tool's function.
FitsSignature(r) ==
    /\ r.tool \in Tools
    /\ DOMAIN r.arguments \subseteq DOMAIN parameters[r.tool]
    /\ DOMAIN parameters[r.tool] \ defaulted(r.tool) \subseteq DOMAIN r.arguments
    /\ \A k \in DOMAIN r.arguments : r.arguments[k] \in parameters[r.tool][k]

\* The schemas are written beside the signatures: a call that fits its tool's
\* signature is never refused, and raises nothing but the tool's own errors.
SchemasFitSignatures ==
    FitsSignature(request) =>
        /\ stage # "raised"
        /\ result # "SchemaValidationError"

-----------------------------------------------------------------------------
(* What the documentation says and the code does not do.                   *)

\* Malformed arguments raise SchemaValidationError before the function is
\* called (the docstring of call).
MalformedArgumentsAreSchemaErrors ==
    stage \in {"returned", "raised"} /\ ~ entered => result = "SchemaValidationError"

=============================================================================
