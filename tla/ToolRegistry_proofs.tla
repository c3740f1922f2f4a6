------------------------- MODULE ToolRegistry_proofs -------------------------
(***************************************************************************)
(* Proofs about ToolRegistry, for every set of calls the nodes may make.   *)
(***************************************************************************)
EXTENDS ToolRegistry, TLAPS

-----------------------------------------------------------------------------
(* The parts the registry is built from.                                   *)

\* Validation ends in one of five ways, and says "valid" only of a call to a
\* registered tool that holds what is required, each argument of its type.
LEMMA VerdictsOf ==
    ASSUME NEW tool, NEW arguments, NEW v \in validate_arguments(tool, arguments)
    PROVE  /\ v \in {"valid", "SchemaValidationError", "AttributeError"}
           /\ v = "valid" => /\ tool \in Tools
                             /\ MistypedArguments(ToolSpecs[tool], arguments) = {}
BY DEF validate_arguments

\* A tool ends with a result, a domain error other than that of the registry,
\* or an exception of Python.
LEMMA OutcomesOf ==
    ASSUME NEW tool \in Tools, NEW arguments, NEW r \in func(tool, arguments)
    PROVE  /\ r \in {"ok"} \cup DomainErrors \cup OtherErrors
           /\ r \notin {"none", "SchemaValidationError"}
<1>1. refusals[tool] \subseteq {"NoViableCarrierError", "RouteInfeasibleError", "ExecutionError"}
    BY DEF refusals, Tools
<1>2. r \in {"TypeError", "KeyError", "AttributeError", "ok"} \cup refusals[tool]
    BY DEF func
<1> QED
    BY <1>1, <1>2 DEF DomainErrors, OtherErrors

-----------------------------------------------------------------------------
(* The invariant: what verdict, entered, result and recorded say of each   *)
(* other at every stage.                                                   *)

RegistryInv ==
    /\ TypeOK
    /\ verdict = "valid" =>
         /\ request.tool \in Tools
         /\ MistypedArguments(ToolSpecs[request.tool], request.arguments) = {}
    /\ entered => verdict = "valid"
    /\ stage \in {"ready", "asked"} => ~ entered /\ verdict = "none" /\ result = "none"
    /\ stage = "calling" => ~ entered /\ verdict \in {"valid", "SchemaValidationError"}
    /\ stage \in {"returned", "recorded"} =>
         /\ result \in {"ok"} \cup DomainErrors
         /\ entered <=> verdict = "valid"
         /\ result = "SchemaValidationError" <=> ~ entered
    /\ stage = "recorded" =>
         recorded = [schema_valid |-> verdict = "valid",
                     error |-> IF result = "ok" THEN "none" ELSE result,
                     result |-> result = "ok"]

\* The values between two calls have their types.
LEMMA QuietValues ==
    /\ IsRequest(NoRequest)
    /\ NoCall \in [schema_valid : BOOLEAN, error : {"none"} \cup DomainErrors,
                   result : BOOLEAN]
BY DEF IsRequest, NoRequest, NoCall

LEMMA RegistryInit == Init => RegistryInv
BY QuietValues DEF Init, RegistryInv, TypeOK, Stages

LEMMA RegistryStep == RegistryInv /\ [Next]_vars => RegistryInv'
<1> SUFFICES ASSUME RegistryInv, [Next]_vars
             PROVE  RegistryInv'
    OBVIOUS
<1> USE DEF Stages
<1>1. CASE invoke_and_record
  <2>1. IsRequest(request')
      BY <1>1, RequestsAssumption DEF invoke_and_record, RequestsAssumption
  <2> QED
      BY <1>1, <2>1 DEF invoke_and_record, RegistryInv, TypeOK
<1>2. CASE is_valid_schema
  <2>1. /\ verdict' \in {"valid", "SchemaValidationError", "AttributeError"}
        /\ verdict' = "valid" =>
             /\ request.tool \in Tools
             /\ MistypedArguments(ToolSpecs[request.tool], request.arguments) = {}
      BY <1>2, VerdictsOf DEF is_valid_schema
  <2> QED
      BY <1>2, <2>1 DEF is_valid_schema, RegistryInv, TypeOK, DomainErrors, OtherErrors
<1>3. CASE call
  <2>1. CASE verdict = "valid"
    <3>1. /\ entered' = TRUE
          /\ result' \in {"ok"} \cup DomainErrors \cup OtherErrors
          /\ result' \notin {"none", "SchemaValidationError"}
        BY <1>3, <2>1, OutcomesOf DEF call, RegistryInv
    <3> QED
        BY <1>3, <2>1, <3>1 DEF call, RegistryInv, TypeOK, DomainErrors, OtherErrors
  <2>2. CASE verdict # "valid"
    <3>1. verdict = "SchemaValidationError" /\ ~ entered
        BY <1>3, <2>2 DEF call, RegistryInv
    <3>2. result' = "SchemaValidationError" /\ stage' = "returned" /\ UNCHANGED entered
        BY <1>3, <2>2, <3>1 DEF call, OtherErrors
    <3> QED
        BY <1>3, <3>1, <3>2 DEF call, RegistryInv, TypeOK, DomainErrors
  <2> QED
      BY <2>1, <2>2
<1>4. CASE record_call
  <2>1. recorded' \in [schema_valid : BOOLEAN, error : {"none"} \cup DomainErrors,
                       result : BOOLEAN]
      BY <1>4 DEF record_call, RegistryInv
  <2> QED
      BY <1>4, <2>1 DEF record_call, RegistryInv, TypeOK
<1>5. CASE NextCall
    BY <1>5, QuietValues DEF NextCall, RegistryInv, TypeOK
<1>6. CASE UNCHANGED vars
    BY <1>6 DEF vars, RegistryInv, TypeOK
<1> QED
    BY <1>1, <1>2, <1>3, <1>4, <1>5, <1>6 DEF Next

-----------------------------------------------------------------------------
(* The results.                                                            *)

\* What nodes record of a call is true of it, whichever calls they make.
THEOREM RecordsAreTrue == Spec => []RecordsTellTheTruth
<1>1. ASSUME RegistryInv, stage = "recorded"
      PROVE  /\ recorded.schema_valid <=> entered
             /\ recorded.result <=> recorded.error = "none"
             /\ recorded.error = "SchemaValidationError" <=> ~ entered
  <2>1. /\ recorded.schema_valid = (verdict = "valid")
        /\ recorded.error = (IF result = "ok" THEN "none" ELSE result)
        /\ recorded.result = (result = "ok")
      BY <1>1 DEF RegistryInv
  <2>2. /\ result \in {"ok"} \cup DomainErrors
        /\ entered <=> verdict = "valid"
        /\ result = "SchemaValidationError" <=> ~ entered
      BY <1>1 DEF RegistryInv
  <2>3. result # "none"
      BY <2>2 DEF DomainErrors
  <2> QED
      BY <2>1, <2>2, <2>3
<1>2. RegistryInv => RecordsTellTheTruth
    BY <1>1 DEF RecordsTellTheTruth
<1> QED
    BY <1>2, RegistryInit, RegistryStep, PTL DEF Spec

\* No tool is ever entered with an argument of a type other than the one it is
\* registered with, whichever calls the nodes make.
THEOREM DeclaredTypesReachTools == Spec => []ToolsGetDeclaredTypes
<1>1. RegistryInv => ToolsGetDeclaredTypes
    BY DEF RegistryInv, ToolsGetDeclaredTypes, MistypedArguments
<1> QED
    BY <1>1, RegistryInit, RegistryStep, PTL DEF Spec

\* What a call, its verdict and its outcome are made of keeps its type.
THEOREM RegistryTypesHold == Spec => []TypeOK
<1>1. RegistryInv => TypeOK
    BY DEF RegistryInv
<1> QED
    BY <1>1, RegistryInit, RegistryStep, PTL DEF Spec

-----------------------------------------------------------------------------
(* The schemas, the signatures and the calls of the mocks.                 *)

LEMMA InstanceOfType ==
    ASSUME NEW kind, NEW t, kind \in instances[t]
    PROVE  isinstance(kind, <<t>>)
<1>1. 1 \in DOMAIN <<t>> /\ <<t>>[1] = t
    OBVIOUS
<1> QED
    BY <1>1 DEF isinstance

LEMMA InstanceOfTuple ==
    ASSUME NEW kind, NEW t, NEW u, kind \in instances[t] \/ kind \in instances[u]
    PROVE  isinstance(kind, <<t, u>>)
<1>1. /\ 1 \in DOMAIN <<t, u>> /\ 2 \in DOMAIN <<t, u>>
      /\ <<t, u>>[1] = t /\ <<t, u>>[2] = u
    OBVIOUS
<1> QED
    BY <1>1 DEF isinstance

\* The kinds that are instances of each type a schema names.
LEMMA InstancesOf ==
    /\ instances["str"] = {"str", "severity"} /\ instances["float"] = {"float"}
    /\ instances["int"] = {"int", "bool"} /\ instances["bool"] = {"bool"}
    /\ instances["list"] = {"list"} /\ instances["NoneType"] = {"NoneType"}
    /\ instances["object"] = Kinds
BY DEF instances

\* Each schema is written beside a signature: it requires no argument that the
\* function can do without, and admits each kind a parameter may have.
SchemaFits(tool) ==
    /\ ToolSpecs[tool].required \subseteq DOMAIN parameters[tool] \ defaulted(tool)
    /\ \A k \in DOMAIN parameters[tool] : \A kind \in parameters[tool][k] :
          isinstance(kind, ToolSpecs[tool].schema[k])

LEMMA RiskScorerFits == SchemaFits("risk_scorer")
<1> DEFINE spec == ToolSpecs["risk_scorer"]
           sig == parameters["risk_scorer"]
<1>1. /\ DOMAIN sig = {"alert_type", "severity", "affected_carrier_reliability"}
      /\ sig["alert_type"] = {"str", "severity"}
      /\ sig["severity"] = {"severity", "NoneType"}
      /\ sig["affected_carrier_reliability"] = {"float", "NoneType"}
    BY DEF parameters
<1>2. /\ spec.required = {"alert_type"}
      /\ spec.schema["alert_type"] = <<"str">>
      /\ spec.schema["severity"] = <<"str", "NoneType">>
      /\ spec.schema["affected_carrier_reliability"] = <<"float", "NoneType">>
    BY DEF ToolSpecs, ToolSpec, risk_scorer_schema
<1>3. defaulted("risk_scorer") = {}
    BY DEF defaulted
<1> HIDE DEF spec, sig
<1>4. /\ \A kind \in sig["alert_type"] : isinstance(kind, <<"str">>)
      /\ \A kind \in sig["severity"] : isinstance(kind, <<"str", "NoneType">>)
      /\ \A kind \in sig["affected_carrier_reliability"] :
            isinstance(kind, <<"float", "NoneType">>)
    BY <1>1, InstancesOf, InstanceOfType, InstanceOfTuple
<1>5. \A k \in DOMAIN sig : \A kind \in sig[k] : isinstance(kind, spec.schema[k])
    BY <1>1, <1>2, <1>4
<1> QED
    BY <1>1, <1>2, <1>3, <1>5 DEF SchemaFits, spec, sig

LEMMA CarrierLookupFits == SchemaFits("carrier_lookup")
<1> DEFINE spec == ToolSpecs["carrier_lookup"]
           sig == parameters["carrier_lookup"]
<1>1. /\ DOMAIN sig = {"repository", "origin_region", "destination_region",
                         "exclude_carrier_id"}
      /\ sig["repository"] = {"Repository"}
      /\ sig["origin_region"] = {"str", "severity"}
      /\ sig["destination_region"] = {"str", "severity"}
      /\ sig["exclude_carrier_id"] = {"str", "severity", "NoneType"}
    BY DEF parameters
<1>2. /\ spec.required = {"repository", "origin_region", "destination_region"}
      /\ spec.schema["repository"] = <<"object">>
      /\ spec.schema["origin_region"] = <<"str">>
      /\ spec.schema["destination_region"] = <<"str">>
      /\ spec.schema["exclude_carrier_id"] = <<"str", "NoneType">>
    BY DEF ToolSpecs, ToolSpec
<1>3. defaulted("carrier_lookup") = {"exclude_carrier_id"}
    BY DEF defaulted
<1> HIDE DEF spec, sig
<1>4. /\ \A kind \in sig["repository"] : isinstance(kind, <<"object">>)
      /\ \A kind \in sig["origin_region"] : isinstance(kind, <<"str">>)
      /\ \A kind \in sig["destination_region"] : isinstance(kind, <<"str">>)
      /\ \A kind \in sig["exclude_carrier_id"] : isinstance(kind, <<"str", "NoneType">>)
    BY <1>1, InstancesOf, InstanceOfType, InstanceOfTuple DEF Kinds
<1>5. \A k \in DOMAIN sig : \A kind \in sig[k] : isinstance(kind, spec.schema[k])
    BY <1>1, <1>2, <1>4
<1> QED
    BY <1>1, <1>2, <1>3, <1>5 DEF SchemaFits, spec, sig

LEMMA RouteOptimizerFits == SchemaFits("route_optimizer")
<1> DEFINE spec == ToolSpecs["route_optimizer"]
           sig == parameters["route_optimizer"]
<1>1. /\ DOMAIN sig = {"carriers", "origin_region", "destination_region",
                         "max_transit_hours"}
      /\ sig["carriers"] = {"list"}
      /\ sig["origin_region"] = {"str", "severity"}
      /\ sig["destination_region"] = {"str", "severity"}
      /\ sig["max_transit_hours"] = {"float"}
    BY DEF parameters
<1>2. /\ spec.required = {"carriers", "origin_region", "destination_region",
                          "max_transit_hours"}
      /\ spec.schema["carriers"] = <<"list">>
      /\ spec.schema["origin_region"] = <<"str">>
      /\ spec.schema["destination_region"] = <<"str">>
      /\ spec.schema["max_transit_hours"] = <<"float">>
    BY DEF ToolSpecs, ToolSpec
<1>3. defaulted("route_optimizer") = {}
    BY DEF defaulted
<1> HIDE DEF spec, sig
<1>4. /\ \A kind \in sig["carriers"] : isinstance(kind, <<"list">>)
      /\ \A kind \in sig["origin_region"] : isinstance(kind, <<"str">>)
      /\ \A kind \in sig["destination_region"] : isinstance(kind, <<"str">>)
      /\ \A kind \in sig["max_transit_hours"] : isinstance(kind, <<"float">>)
    BY <1>1, InstancesOf, InstanceOfType, InstanceOfTuple DEF Kinds
<1>5. \A k \in DOMAIN sig : \A kind \in sig[k] : isinstance(kind, spec.schema[k])
    BY <1>1, <1>2, <1>4
<1> QED
    BY <1>1, <1>2, <1>3, <1>5 DEF SchemaFits, spec, sig

LEMMA RouteValidatorFits == SchemaFits("route_validator")
<1> DEFINE spec == ToolSpecs["route_validator"]
           sig == parameters["route_validator"]
<1>1. /\ DOMAIN sig = {"route", "max_transit_hours"}
      /\ sig["route"] = {"RouteCandidate"}
      /\ sig["max_transit_hours"] = {"float"}
    BY DEF parameters
<1>2. /\ spec.required = {"route", "max_transit_hours"}
      /\ spec.schema["route"] = <<"object">>
      /\ spec.schema["max_transit_hours"] = <<"float">>
    BY DEF ToolSpecs, ToolSpec
<1>3. defaulted("route_validator") = {}
    BY DEF defaulted
<1> HIDE DEF spec, sig
<1>4. /\ \A kind \in sig["route"] : isinstance(kind, <<"object">>)
      /\ \A kind \in sig["max_transit_hours"] : isinstance(kind, <<"float">>)
    BY <1>1, InstancesOf, InstanceOfType, InstanceOfTuple DEF Kinds
<1>5. \A k \in DOMAIN sig : \A kind \in sig[k] : isinstance(kind, spec.schema[k])
    BY <1>1, <1>2, <1>4
<1> QED
    BY <1>1, <1>2, <1>3, <1>5 DEF SchemaFits, spec, sig

LEMMA ExecutionSimulatorFits == SchemaFits("execution_simulator")
<1> DEFINE spec == ToolSpecs["execution_simulator"]
           sig == parameters["execution_simulator"]
<1>1. /\ DOMAIN sig = {"carrier_id", "alert_id",
                         "force_transient_failure_then_succeed", "attempt_number"}
      /\ sig["carrier_id"] = {"str", "severity"}
      /\ sig["alert_id"] = {"str", "severity"}
      /\ sig["force_transient_failure_then_succeed"] = {"bool"}
      /\ sig["attempt_number"] = {"int", "bool"}
    BY DEF parameters
<1>2. /\ spec.required = {"carrier_id", "alert_id",
                          "force_transient_failure_then_succeed", "attempt_number"}
      /\ spec.schema["carrier_id"] = <<"str">>
      /\ spec.schema["alert_id"] = <<"str">>
      /\ spec.schema["force_transient_failure_then_succeed"] = <<"bool">>
      /\ spec.schema["attempt_number"] = <<"int">>
    BY DEF ToolSpecs, ToolSpec
<1>3. defaulted("execution_simulator") = {}
    BY DEF defaulted
<1> HIDE DEF spec, sig
<1>4. /\ \A kind \in sig["carrier_id"] : isinstance(kind, <<"str">>)
      /\ \A kind \in sig["alert_id"] : isinstance(kind, <<"str">>)
      /\ \A kind \in sig["force_transient_failure_then_succeed"] : isinstance(kind, <<"bool">>)
      /\ \A kind \in sig["attempt_number"] : isinstance(kind, <<"int">>)
    BY <1>1, InstancesOf, InstanceOfType, InstanceOfTuple DEF Kinds
<1>5. \A k \in DOMAIN sig : \A kind \in sig[k] : isinstance(kind, spec.schema[k])
    BY <1>1, <1>2, <1>4
<1> QED
    BY <1>1, <1>2, <1>3, <1>5 DEF SchemaFits, spec, sig

\* A call that fits its tool's signature is found valid, and the tool is left
\* with nothing to raise but its own errors.
LEMMA FittingCallsAreUnderstood ==
    ASSUME NEW r, FitsSignature(r)
    PROVE  /\ validate_arguments(r.tool, r.arguments) = {"valid"}
           /\ func(r.tool, r.arguments) = {"ok"} \cup refusals[r.tool]
<1>1. /\ r.tool \in Tools
      /\ DOMAIN r.arguments \subseteq DOMAIN parameters[r.tool]
      /\ DOMAIN parameters[r.tool] \ defaulted(r.tool) \subseteq DOMAIN r.arguments
      /\ \A k \in DOMAIN r.arguments : r.arguments[k] \in parameters[r.tool][k]
    BY DEF FitsSignature
<1>2. SchemaFits(r.tool)
    BY <1>1, RiskScorerFits, CarrierLookupFits, RouteOptimizerFits, RouteValidatorFits,
       ExecutionSimulatorFits DEF Tools
<1>3. ToolSpecs[r.tool].required \ DOMAIN r.arguments = {}
    BY <1>1, <1>2 DEF SchemaFits
<1>4. MistypedArguments(ToolSpecs[r.tool], r.arguments) = {}
    BY <1>1, <1>2 DEF SchemaFits, MistypedArguments
<1>5. validate_arguments(r.tool, r.arguments) = {"valid"}
    BY <1>1, <1>3, <1>4 DEF validate_arguments
<1>6. func(r.tool, r.arguments) = {"ok"} \cup refusals[r.tool]
    BY <1>1 DEF func
<1> QED
    BY <1>5, <1>6

\* The arguments a mock decides on are of kinds the tool's parameters have.
LEMMA MockCallsFit ==
    ASSUME NEW r, r.tool \in Tools, r.arguments \in MockArguments[r.tool]
    PROVE  FitsSignature(r)
<1>1. CASE r.tool = "risk_scorer"
  <2>1. r.arguments \in
            [alert_type : {"str"}, severity : {"severity", "NoneType"},
             affected_carrier_reliability : {"float", "NoneType"}]
    BY <1>1 DEF MockArguments
  <2>2. parameters[r.tool] =
            [alert_type |-> {"str", "severity"}, severity |-> {"severity", "NoneType"},
             affected_carrier_reliability |-> {"float", "NoneType"}]
    BY <1>1 DEF parameters
  <2> QED
    BY <1>1, <2>1, <2>2 DEF FitsSignature, Tools
<1>2. CASE r.tool = "carrier_lookup"
  <2>1. r.arguments \in
            [repository : {"Repository"}, origin_region : {"str"},
             destination_region : {"str"}, exclude_carrier_id : {"str", "NoneType"}]
    BY <1>2 DEF MockArguments
  <2>2. parameters[r.tool] =
            [repository |-> {"Repository"}, origin_region |-> {"str", "severity"},
             destination_region |-> {"str", "severity"},
             exclude_carrier_id |-> {"str", "severity", "NoneType"}]
    BY <1>2 DEF parameters
  <2> QED
    BY <1>2, <2>1, <2>2 DEF FitsSignature, Tools
<1>3. CASE r.tool = "route_optimizer"
  <2>1. r.arguments \in
            [carriers : {"list"}, origin_region : {"str"}, destination_region : {"str"},
             max_transit_hours : {"float"}]
    BY <1>3 DEF MockArguments
  <2>2. parameters[r.tool] =
            [carriers |-> {"list"}, origin_region |-> {"str", "severity"},
             destination_region |-> {"str", "severity"}, max_transit_hours |-> {"float"}]
    BY <1>3 DEF parameters
  <2> QED
    BY <1>3, <2>1, <2>2 DEF FitsSignature, Tools
<1>4. CASE r.tool = "route_validator"
  <2>1. r.arguments \in [route : {"RouteCandidate"}, max_transit_hours : {"float"}]
    BY <1>4 DEF MockArguments
  <2>2. parameters[r.tool] = [route |-> {"RouteCandidate"}, max_transit_hours |-> {"float"}]
    BY <1>4 DEF parameters
  <2> QED
    BY <1>4, <2>1, <2>2 DEF FitsSignature, Tools
<1>5. CASE r.tool = "execution_simulator"
  <2>1. r.arguments \in
            [carrier_id : {"str"}, alert_id : {"str"},
             force_transient_failure_then_succeed : {"bool"}, attempt_number : {"int"}]
    BY <1>5 DEF MockArguments
  <2>2. parameters[r.tool] =
            [carrier_id |-> {"str", "severity"}, alert_id |-> {"str", "severity"},
             force_transient_failure_then_succeed |-> {"bool"},
             attempt_number |-> {"int", "bool"}]
    BY <1>5 DEF parameters
  <2> QED
    BY <1>5, <2>1, <2>2 DEF FitsSignature, Tools
<1> QED
    BY <1>1, <1>2, <1>3, <1>4, <1>5 DEF Tools

\* The lookup the flaky mock spoils misses a required argument.
LEMMA MalformedLookupsAreRefused ==
    ASSUME NEW arguments \in MalformedLookups
    PROVE  validate_arguments("carrier_lookup", arguments) = {"SchemaValidationError"}
<1>1. "destination_region" \notin DOMAIN arguments
    BY DEF MalformedLookups
<1>2. "destination_region" \in ToolSpecs["carrier_lookup"].required
    BY DEF ToolSpecs, ToolSpec
<1> QED
    BY <1>1, <1>2 DEF validate_arguments, Tools

\* Verdict and result are of the request that is under way.
AnswerInv ==
    /\ stage \notin {"ready", "asked"} =>
         verdict \in validate_arguments(request.tool, request.arguments)
    /\ stage = "calling" => result = "none"
    /\ stage = "raised" => result \in OtherErrors /\ (~ entered => result = verdict)
    /\ entered => result \in func(request.tool, request.arguments)

LEMMA AnswerInit == Init => AnswerInv
BY DEF Init, AnswerInv

LEMMA AnswerStep == RegistryInv /\ AnswerInv /\ [Next]_vars => AnswerInv'
<1> SUFFICES ASSUME RegistryInv, AnswerInv, [Next]_vars
             PROVE  AnswerInv'
    OBVIOUS
<1>1. CASE invoke_and_record
    BY <1>1 DEF invoke_and_record, AnswerInv, RegistryInv
<1>2. CASE is_valid_schema
    BY <1>2 DEF is_valid_schema, AnswerInv, RegistryInv
<1>3. CASE call
  <2>1. CASE verdict = "valid"
    BY <1>3, <2>1 DEF call, AnswerInv
  <2>2. CASE verdict # "valid"
    <3>1. verdict = "SchemaValidationError" /\ ~ entered
        BY <1>3, <2>2 DEF call, RegistryInv
    <3>2. stage' = "returned" /\ ~ entered' /\ UNCHANGED <<request, verdict>>
        BY <1>3, <2>2, <3>1 DEF call, OtherErrors
    <3> QED
        BY <1>3, <3>2 DEF call, AnswerInv
  <2> QED
      BY <2>1, <2>2
<1>4. CASE record_call
    BY <1>4 DEF record_call, AnswerInv
<1>5. CASE NextCall
    BY <1>5 DEF NextCall, AnswerInv
<1>6. CASE UNCHANGED vars
    BY <1>6 DEF vars, AnswerInv
<1> QED
    BY <1>1, <1>2, <1>3, <1>4, <1>5, <1>6 DEF Next

\* A call that fits the signature of its tool is never refused and raises
\* nothing but the tool's own errors: schemas and signatures, written apart,
\* agree for all calls, not only for those the mocks make.
THEOREM FittingCallsAreNeverRefused == Spec => []SchemasFitSignatures
<1>1. ASSUME RegistryInv, AnswerInv, FitsSignature(request)
      PROVE  stage # "raised" /\ result # "SchemaValidationError"
  <2>1. /\ validate_arguments(request.tool, request.arguments) = {"valid"}
        /\ func(request.tool, request.arguments) = {"ok"} \cup refusals[request.tool]
        /\ request.tool \in Tools
    BY <1>1, FittingCallsAreUnderstood DEF FitsSignature
  <2>2. refusals[request.tool] \cap (OtherErrors \cup {"SchemaValidationError"}) = {}
    BY <2>1 DEF refusals, Tools, OtherErrors
  <2>3. stage \notin {"ready", "asked"} => verdict = "valid"
    BY <1>1, <2>1 DEF AnswerInv
  <2>4. entered => result \notin OtherErrors \cup {"SchemaValidationError"}
    BY <1>1, <2>1, <2>2 DEF AnswerInv, OtherErrors
  <2>5. stage # "raised"
    BY <1>1, <2>3, <2>4 DEF AnswerInv, OtherErrors
  <2>6. result # "SchemaValidationError"
    <3>1. stage \in {"ready", "asked", "calling"} => result = "none"
      BY <1>1 DEF RegistryInv, AnswerInv
    <3>2. stage \in {"returned", "recorded"} => entered
      BY <1>1, <2>3 DEF RegistryInv
    <3>3. stage \in Stages
      BY <1>1 DEF RegistryInv, TypeOK
    <3> QED
      BY <2>4, <2>5, <3>1, <3>2, <3>3 DEF Stages
  <2> QED
    BY <2>5, <2>6
<1>2. RegistryInv /\ AnswerInv => SchemasFitSignatures
    BY <1>1 DEF SchemasFitSignatures
<1> QED
    BY <1>2, RegistryInit, RegistryStep, AnswerInit, AnswerStep, PTL DEF Spec

\* Each call a mock decides on reaches its tool and ends as the tool means it
\* to; the spoilt lookup never reaches the tool and ends in a schema error.
THEOREM MockCallsReachTheirTools == Spec => []MockCallsAreUnderstood
<1>1. ASSUME RegistryInv, AnswerInv, stage \in {"returned", "recorded", "raised"},
             request.tool \in Tools, request.arguments \in MockArguments[request.tool]
      PROVE  entered /\ result \in {"ok"} \cup refusals[request.tool]
  <2>1. /\ validate_arguments(request.tool, request.arguments) = {"valid"}
        /\ func(request.tool, request.arguments) = {"ok"} \cup refusals[request.tool]
    BY <1>1, MockCallsFit, FittingCallsAreUnderstood
  <2>2. verdict = "valid"
    BY <1>1, <2>1 DEF AnswerInv
  <2>3. entered
    BY <1>1, <2>2 DEF RegistryInv, AnswerInv, OtherErrors
  <2> QED
    BY <1>1, <2>1, <2>3 DEF AnswerInv
<1>2. ASSUME RegistryInv, AnswerInv, stage \in {"returned", "recorded", "raised"},
             request.tool = "carrier_lookup", request.arguments \in MalformedLookups
      PROVE  ~ entered /\ result = "SchemaValidationError"
  <2>1. verdict = "SchemaValidationError"
    BY <1>2, MalformedLookupsAreRefused DEF AnswerInv
  <2>2. ~ entered /\ stage # "raised"
    BY <1>2, <2>1 DEF RegistryInv, AnswerInv, OtherErrors
  <2> QED
    BY <1>2, <2>1, <2>2 DEF RegistryInv
<1>3. RegistryInv /\ AnswerInv => MockCallsAreUnderstood
    BY <1>1, <1>2 DEF MockCallsAreUnderstood
<1> QED
    BY <1>3, RegistryInit, RegistryStep, AnswerInit, AnswerStep, PTL DEF Spec

=============================================================================
