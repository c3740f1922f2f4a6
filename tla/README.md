# The rerouting pipeline in TLA+

This directory holds a specification of the carrier-rerouting agent in `src/`:
TLA+ modules that model it, TLC configurations that check them on small
instances, and theorems that TLAPS proves for every value of the constants.
Paths below are relative to `src/src/agentic_logistics/` unless they start
with `src/`.

## The system

The program takes one telemetry alert, runs it through a LangGraph state graph
and returns the trajectory of steps it took. It is sequential: `run()` calls
`app.invoke`, LangGraph executes one node per superstep, and nodes communicate
only through the state. What makes it hard is not concurrency but retries:
three loops with three counters, error information that one node leaves for an
edge, tools that fail, providers that may answer anything, and state written by
one node and trusted by a later one.

| Component | State | Operations | Interacts with | Right when |
|---|---|---|---|---|
| Graph (`graph/`) | `GraphState`: alert, settings, assessment, candidates, route, validation, execution result, retry counters, `_last_error`, status, trajectory | 7 nodes, 3 terminal nodes, 5 conditional edges, `run()` | calls the provider, then the tool registry, in every node; reads the repository; appends to the audit file | only a validated, viable, cheapest route is booked; SUCCESS means a confirmed booking; escalation only for cause; ceilings are exact; every run ends |
| Tools (`tools/*.py`) | none | `risk_scorer`, `carrier_lookup`, `route_optimizer`, `route_validator`, `execution_simulator` | called by nodes through the registry | the cheapest feasible carrier is chosen; scores lie in [0, 1] |
| Tool registry (`tools/registry.py`, `graph/nodes/_tool_helpers.py`) | the registered tools, fixed for a run | `register`, `validate_arguments`, `call`, `is_valid_schema`; `invoke_and_record` | between nodes and tools | a malformed call never reaches a tool; schemas fit the tools' signatures; the recorded `ToolCall` tells what happened |
| Model providers (`ports/model_provider.py`, `adapters/providers/`) | none | `plan`, `decide_tool_call` | asked by every node | the mocks name the node's tool and the validated route; whatever an adapter answers, counters tell the truth and a SUCCESS without a booking can be told from the trajectory |
| Carrier repository | the fixture's carriers, immutable | `find_by_region`, `get`, `all_ids` | read by the risk and lookup nodes | |
| Trajectory, metrics, scorer, judge (`evaluation/`) | a trajectory; none otherwise | `add_step`; ten metrics; the score card | read the finished trajectory | the metrics and the composite agree with what the pipeline did |
| Evaluation harness (`evaluation/run_eval.py`) | the runs still to do, the score cards; two report files per evaluation | `run_all`, `_aggregate_by_provider`, `write_reports` | calls `run()` for every scenario and provider, then the scorer | every scenario is scored for every provider, in order, or nothing is written; evaluations are reproducible |
| Command line (`cli.py`) | none; each command is a process | `demo`, `eval`, `graph` | calls `run()` and the harness; commands share the audit file and the report directory | evaluations leave the audit file alone; every command ends |
| Audit log | a JSON-lines file shared by all runs | append | written by the audit node | one faithful record per success |

Hard behaviours: a failing node followed by an edge that must see the failure;
a retry that reads what an earlier attempt left; a refused validator call that
touches no counter; an I/O error between a confirmed booking and its record; a
fixed recursion limit against configurable ceilings; rounding at the risk
threshold; tables, schemas and weights kept by hand beside the code they must
agree with; runs repeated in one process, one of which may raise; reports named
after the second, written one after the other. `PROJECT.json` lists each hazard at its line with the properties
aimed at it.

## The modules

- **`Tools`** models the tools and the repository as constant-level operators.
  A carrier is its position in `Network` (the fixture in file order), and a
  route, whose every field comes from one carrier, is that position too. Costs
  are integers (cents), risk is in thousandths. Floating-point rounding is a
  choice: where the exact score lies half way between two thousandths,
  `risk_scorer` is the set of both neighbours.
- **`ModelProvider`** models the port: which decisions a provider may answer
  with, each naming a tool. The mocks answer with one, the stubs with none (they
  raise), and `"adapter"`, any other implementation, with any member of
  `Decision` that names the node's tool or one of `AdapterTools`. `CallError` is
  what such a call comes to.
- **`ReroutePipeline`** is the graph. An action is a whole node followed by its
  outgoing edge; edges are operators named as in `edges.py`, evaluated on the
  primed state, as LangGraph evaluates them. `node` is the node to enter next,
  or how the run stopped: `END`, or the exception that left `app.invoke`.
- **`RerouteContract`** is the abstract specification: book at most one viable
  carrier, then SUCCESS; or book nothing, then ESCALATED or FAILED.
- **`TrajectoryMetrics`** models `metrics.py`, `scorer.py` and `judge.py` as
  operators on a trajectory, a final status and a scenario's ground truth.
  Metrics in [0, 1] and the composite are integers in thousandths, rubric scores
  in hundredths, latencies in milliseconds. `Nearest` is `round`: metrics tie
  only over 16 or more parts, which no run here has. The composite is a weighted
  sum of hundredths by hundredths, where ties do occur and floating point
  decides, so `composite_scores` is the set of both neighbours. The collapsed
  node sequence is the set of positions where a run of steps at one node starts,
  and the latency a sum over the nodes: neither needs a recursion.
- **`ScoredPipeline`** composes the graph with the metrics: one ground truth per
  alert, and properties that compare what the metrics say of a trajectory with
  what the pipeline did.
- **`PlannedRuns`** says what a run of a mock comes to, from its alert, its
  provider and its settings alone: `Planned` gives each step by its position,
  `PlannedStatus` the end, `PlannedCards` the score cards. Where
  `ReroutePipeline` says how a run goes on, this says where it gets to; the
  invariant `RunsArePredicted` compares the two.
- **`ToolRegistry`** models one tool call after another: the decision of a
  provider, `is_valid_schema`, `call`, and the record. An argument is its *kind*,
  its Python type as far as `isinstance` or a tool tells it from others.
- **`EvalHarness`** composes `ScoredPipeline` with `run_eval.py`: while a run is
  on, the harness's steps are the graph's. A report is the sequence of its cards.
  The sorted latencies are given by rank: the k-th is the one with fewer than k
  below it and at least k not above it.
- **`CommandLine`** composes `EvalHarness` with `cli.py`: a user invokes demos
  and evaluations, each a process of its own, over one audit file and one
  directory of reports.
- **`MCReroutePipeline`**, **`MCScoredPipeline`**, **`MCCommandLine`** and
  **`MCToolRegistry`** hold the networks, alerts, ground truths, suites and
  calls TLC uses; `MCCommandLine` transcribes the shipped fixture and scenarios.
- The theorems about the pipeline are in **`ReroutePipeline_proofs`** (types,
  what is booked, the recursion limit, the refinement), **`RetryCounts_proofs`**
  (the counters), **`Attempts_proofs`** (tries, retry links, failures) and
  **`Outcomes_proofs`** (what the end of a run says of the alert);
  **`Metrics_proofs`** (what the metrics say of a run) and
  **`Predictions_proofs`** (what a mock's run comes to, and what injected faults
  cost it) are about scored runs, **`ToolRegistry_proofs`** and
  **`CommandLine_proofs`** (for the harness and its reports too) about the rest.

| Code | Model |
|---|---|
| `new_initial_state`, `run()` before `invoke` | `Init` |
| `make_*_node` + edge | `Planner`, `Risk`, `CarrierLookup`, `RouteOptimizer`, `Validator` (`ValidateNothing` when there is no route: `RouteCandidate(**None)` raises), `Execution`, `Audit` (`AuditWriteFails` for an `OSError`) |
| `result.model_dump()` in the risk and execution nodes, where another tool returned a list or a tuple | `ResultIsNoModel`, the exception `AttributeError` |
| `_make_terminal_node` | `Terminal`, with `EscalateHighRisk`, `EscalateNoViableRoute`, `FailExecution` |
| exceptions of a provider, or of a call outside the registry's `try` | `ProviderRaises` |
| `recursion_limit: 50` | `RecursionLimit`, `Enters`, `RecursionAbort` |
| missing `retry_counts` entries read as 0 | `NoRetries` |
| `Trajectory.steps` | `trajectory`, positions from 1; `retry_of` 0 is `None` |
| the audit file | `audit_log`, the records of this run; in `CommandLine`, of every run so far |
| `metrics.py`, `_to_rubric`, the weights of `compute_scorecard` | operators of the same names in `TrajectoryMetrics` |
| `ToolRegistry.register` in `_build_tool_registry` | `ToolSpecs` |
| `validate_arguments`: raise or return | the verdict `"valid"` or the exception's name |
| `func(**arguments)` of each tool | `func`, the ways it may end, from `parameters` and `defaulted` |
| `invoke_and_record` | `invoke_and_record`, `is_valid_schema`, `call`, `record_call`, one action for each thing that may raise |
| `run_all` | `StartEvaluation`, then `BeginRun`, `StepRun`, `ScoreRun` (or `RunRaises`) for each of `RunsToDo` |
| `write_reports` | `WriteJson`, `WriteMarkdown`, `WriteFails`; file names are seconds of the clock, `Tick` |
| `_aggregate_by_provider` | `aggregate_by_provider` |
| `cmd_demo`, `cmd_eval`, argparse's refusal | `cmd_demo` with `StepDemo`, `DemoPrints`, `DemoRaises`; `cmd_eval` with `StepEval`, `ExitEval`; `DemoRefused` |

Left out of the state: `plan_rationale`, `plan_used_default_fallback`,
`affected_carrier_reliability` (no edge and no later node reads them; the risk
node hands the reliability to the provider in the same step), texts,
timestamps, confirmation ids, the alert's id. A step's latency is a function of
its node (`SYNTHETIC_LATENCY_MS`); token costs are 0 in every step.

`ToolRegistry` and `ReroutePipeline` meet in what a decision may come to: the
first shows that a call ends in a record with or without `SchemaValidationError`
or in an exception of Python, which the second takes up as the error `"schema"`
and as `ProviderRaises`. `call` validates a second time in the code; it is given
the same dict, so the model reuses the verdict.

### `LastErrorCarried`

The nodes report a failure under the key `_last_error`, and three of the five
edges decide on it, but `GraphState` (`graph/state.py:18-42`) does not declare
that key. What happens to an undeclared key of a node's update is up to
LangGraph, which is not part of the repository. The releases the requirements
admit write only declared keys, so the edges would read `None`; the nodes, the
edges, the tests and the figures in `src/README.md` are all written for a
runtime that keeps it. The constant `LastErrorCarried` stands for the two
runtimes. Most runs check the design as written (`TRUE`); `declared_schema` and
`finding_lost_error` check what is left when the key is dropped (`FALSE`). The
theorems that need the key assume `LastErrorCarried`; the others hold for both.

### Any other adapter

`"adapter"` stands for any other implementation of the port. It is free

- to raise in any call, and to send arguments the registry refuses or a node
  cannot unpack;
- to name, at any node, its tool or another of `AdapterTools`, a registered one
  or an unknown one. The lookup, the optimizer and the validator add an argument
  of their own that no other tool knows, so such a call ends in a refusal or in
  a `TypeError` (`ReachesTool`). The risk and the execution node pass the
  arguments as they are and take any tool's answer for their own;
- to name any carrier to the validator, with any figures and any limit, so that
  either verdict may follow (`Verdicts`), and any carrier, failure flag and
  attempt number to the execution tool.

It is not free in one respect: what it asks the risk, lookup and optimizer tools
at their own nodes is about the alert, the candidates and the limit of 72 hours,
as with the mocks. An adapter that scores another alert or looks up another lane
is not modelled.

Taking any tool's answer has a price. `graph/nodes/execution.py:40` asks only
whether there was an error. An adapter that names `risk_scorer` there gets a
score stored as `execution_result`, goes on to the audit node and ends in
SUCCESS without a booking, although `src/README.md:57` calls the edge into that
node "confirmed". So `SuccessIsConfirmed` holds of the shipped providers only.
For any provider `UnbookedSuccessIsMiscalled` says what is left of it: a booking
ends in SUCCESS, and a SUCCESS without one shows in the trajectory, as a last
call, at the execution node, of a tool that does not book. Likewise
`tool_selection_precision` reads the tool the provider named, not the node's.

## The runs

| Run | Instance | Shows |
|---|---|---|
| `pipeline_retries` (`MCScoredPipeline`) | `mock`, `mock_flaky`, `claude`; `PricedNetwork`; alerts x settings with every injected fault; recursion limit 50; fairness | types, what is booked, success, high risk, escalation and audit; a mock's steps and status are those foretold; metrics and composite agree with the runs; faults within the ceilings never stop an alert that can be carried through |
| `validator_loop` (`MCReroutePipeline`) | mocks; `FreeCarrierNetwork`; route retries 0..3; recursion limit 12 | the optimizer/validator loop, attempt ceilings, the recursion limit; the pipeline refines `RerouteContract` |
| `adapter` (`MCScoredPipeline`) | any adapter, which may name `risk_scorer` and `carrier_lookup` at any node; `PairNetwork`; recursion limit 10; fairness | bookings and SUCCESS, counters, retry links, failures, legal transitions and hallucinated bookings under arbitrary answers; every run ends |
| `declared_schema` (`MCReroutePipeline`) | mocks; `LastErrorCarried = FALSE` | what survives when `_last_error` is dropped |
| `command_line` (`MCCommandLine`) | the shipped fixture; the shipped suite and all suites of one to three of its scenarios 2, 3 and 5; four provider lists, two with a stub; two commands; two seconds; fairness | the shipped report is the golden one; reports are complete, reproducible and never written after an exception; the percentile index; who touches the audit file; every command ends |
| `tool_registry` (`MCToolRegistry`) | the mocks' calls with up to two arguments missing or of another kind | what is refused, what reaches a tool, what is recorded, whether schemas fit signatures |
| `finding_*` | | the disagreements below |

**Bounds and why they suffice.** `PricedNetwork` has, on one lane, two equally
cheap carriers (ties), one exactly at the 72-hour limit, a cheaper one an hour
too slow and a cheapest one that is blocklisted; a second lane has only a slow
carrier, a third none. Any of them can be the affected carrier. Since tools
treat carriers independently, each reason to reject or prefer one is present.
Severities are the missing and the highest one; the thresholds are 1000 (never
exceeded) and 752, the lower of the two scores of a critical alert about
carrier 1, so `>` and `>=` differ. Ceilings range over 0 to 3 so that both sides
of each `<=` occur. `FreeCarrierNetwork` makes the cheapest carrier free, the
only way a route the optimizer proposes can be invalid under the mocks. A
recursion limit of 12 is within reach of those ceilings; the code's 50 is used
where it should not matter. The adapter has `PairNetwork`, the two carriers of
one lane of that network, with alerts about the first of them, so that it can be
booked although the ground truth does not expect it. Its limit is 10, enough for
each single retry loop of the settings it is given and for a loop of the
validator that no counter ends. Its `AdapterTools` are one tool that returns a
model and one that returns a list: the registry treats an unknown name as it
treats refused arguments, and the other tools end in the same ways as these two.

A critical alert about carrier 1 has two possible scores about the threshold
752; it is only raised on the first lane, since its score decides before any
lane is looked at.

Ground truths are written as the shipped ones are: the usable carriers of the
lane, and how far the pipeline should get under the threshold
`TruthThreshold` (700, above every score but the critical one about carrier 1).
Runs under another threshold or with too low a ceiling miss their expected
status, which the composite must show.

A suite of three scenarios is the smallest in which the index of the 95th
percentile is neither the last nor clamped; one and two are its edge cases.
Scenarios 2, 3 and 5 are the ones with an injected lookup fault, an injected
execution fault and no route. `MaxInvocations` is 2, so that each command runs
after each other one, or after itself; `Seconds` is 2, so that a second
evaluation can overwrite the first's report or not. `MaxChanges` is 2, so that
one deviation can hide behind another, as a mistyped argument behind a missing
one. No state constraint is used: the state space is finite because trajectories
are bounded by the recursion limit and commands by `MaxInvocations`.

**Deadlock** is checked in every run: a stopped run stutters by `Terminating`,
and a user who has invoked all commands by `Done`.

**Fairness.** `FairSpec` adds `WF_vars(NodeStep)`: `app.invoke` runs the graph
synchronously until it returns or raises, so a run that can take a step takes
one. Nothing is assumed about which step a provider chooses; in particular an
adapter is not assumed ever to answer well. `FairCliSpec` adds
`WF_cliVars(CommandStep)`: a process that can take a step takes one, but nobody
has to invoke a command, and the clock may stand still.

### Findings

1. `finding_lost_error`: without the undeclared `_last_error`, a transiently
   failing execution proceeds to the audit node and is reported as SUCCESS,
   against `src/README.md:57` ("Execution --> Audit: confirmed"). This depends
   on the runtime, see above.
2. `finding_transit_setting`: `settings.max_transit_hours` is ignored; the mocks
   read a state key nobody writes and fall back to 72 hours
   (`config/settings.py:16`).
3. `finding_free_carrier`: a route the validator refuses is proposed again until
   the run is escalated, although another carrier is viable
   (`src/README.md:22`). The shipped fixture has no free carrier.
4. `finding_unvalidated_booking`: the execution node books whatever carrier the
   provider names, validated or not (`graph/nodes/execution.py:1`). The mocks
   always name the validated one.
5. `finding_malformed_arguments`: a mistyped `severity`, reliability or excluded
   carrier makes the registry raise `AttributeError`, because a tuple of types
   has no `__name__`, against the docstring at `tools/registry.py:63`.
6. `finding_recovery_credit`: a failure made good by the second retry is not
   credited as recovered, against `src/docs/evaluation_framework.md:37`.

Smaller divergences met on the way, which no run is about:

- Escalated and failed runs leave no audit record (`AuditIsFaithful` states
  what the code does); the docstring of `AuditRecord` (`domain/models.py:88`)
  speaks of every terminal state.
- `plan_coherence` collapses only consecutive steps of one node, so a round
  validator, optimizer, validator shifts all later positions although its
  docstring says that retries count for no new ones. `ExpectedRunsAreCoherent`
  holds of the mocks; an adapter that names an invalid route once violates it.
- `cli.py:74` admits `mock` and `mock_flaky` only, while `src/README.md:116` and
  `src/docs/architecture.md:56` tell the user to pass any registered provider:
  `DemoRefused`. The harness gets its providers from a constant, which the same
  documents tell the user to edit; hence `ProviderLists`.
- Only domain errors are recorded: a call that passes the schema and raises
  `TypeError` in the tool, as `risk_scorer` without `severity`, leaves no
  `ToolCall`, against the docstring of `invoke_and_record`. `func` and
  `NextCall` model it; `SchemasFitSignatures` shows that no call that fits its
  tool's signature ends so.
- With `LastErrorCarried = FALSE` the shipped scenario 5 raises `TypeError` in
  the validator node, and the evaluation with it. The golden scores, which
  include it, presuppose a runtime that carries the key.

## The proofs

The proofs about the pipeline hold for every network, set of alerts, settings,
provider set and recursion limit that satisfy `NetworkAssumption`,
`InputAssumption` and `AdapterToolsAssumption` (carriers, alerts and settings
are of their types; the limit is positive; an adapter names registered tools or
the one name that stands for all others), those about scored runs for every ground truth that satisfies
`GroundTruthAssumption` as well, those about the registry for every set of calls that
satisfies `RequestsAssumption`, and those about the command line for every
suite, list of providers, default settings and bound that satisfies
`HarnessAssumption`, `EvaluationAssumption` (the settings of an evaluation are
among those runs may have) and `CommandLineAssumption`. "Shipped" below stands for
`provider # "adapter"`.

| Theorem | Invariant | Further hypotheses |
|---|---|---|
| `TypeCorrect` | `TypeOK`, inductive as it stands | none |
| `SuccessMeansConfirmed` | `ControlInv` | `LastErrorCarried`, shipped |
| `UnbookedSuccessesShow` | `ControlInv`, `MiscallInv` | `LastErrorCarried` |
| `HighRiskStaysAway` | `RiskInv` | none |
| `BookingsAreValidated`, `BookingsAreCheapestViable` | `ControlInv`, `ProposalInv` | shipped |
| `RunsFitRecursionLimit` | `ControlInv`, `BudgetInv` | shipped |
| `PipelineImplementsContract` | `ControlInv`, `ProposalInv` | `LastErrorCarried`, no `"adapter"` |
| `CountersAreFailures` | `CountInv` | none |
| `TriesHaveCeilings` | `AttemptsInv` | none for lookup and execution; shipped for the optimizer |
| `RetriesAreLinked` | `AttemptsInv`, `LinkInv` | none |
| `OnlyFinalErrorsFail` | `AttemptsInv`, `FailInv` | none |
| `DroppedErrorsAreUnnoticed` | `AttemptsInv`, `LostInv` | `~ LastErrorCarried` |
| `SuccessNeedsViableCarrier` | `ProposalInv`, `CountInv`, `RouteInv` | shipped |
| `EscalationsAreJustified` | `ProposalInv`, `RouteInv`, `JustInv` | shipped, `Escalatable` |
| `AuditsAreFaithful` | `ProposalInv`, `RouteInv`, `FaithInv` | `LastErrorCarried`, shipped |
| `RunsTakeLegalTransitions` | `TransitionInv` | none |
| `RetriesAreCounted` | `LinkInv`, `RetriedInv` | `LastErrorCarried` |
| `UnexpectedIsSeen` | `NamedInv` | `RecursionLimit * (Len(Network) + 1) <= 2000` |
| `RecoveryTells` | `NamedInv`, `RecoveryInv` | `LastErrorCarried`, shipped, `RecursionLimit < 2000` |
| `CompositeTells` | `NamedInv`, `RecoveryInv`, `CallsInv`, `TransitionsAreLegal` | `LastErrorCarried`, shipped, `RecursionLimit < 667` |
| `MocksArePredictable` | `PredictedInv` | `LastErrorCarried` |
| `ShippedRunsAreCoherent` | `PredictedInv`, `StubInv` | `LastErrorCarried`, shipped, `OrdersAreOfTheGraph` |
| `RecordsAreTrue`, `DeclaredTypesReachTools`, `RegistryTypesHold` | `RegistryInv` | none |
| `FittingCallsAreNeverRefused`, `MockCallsReachTheirTools` | `RegistryInv`, `AnswerInv` | none |
| `HarnessTypesHold` | `CardsInv`, `KeptInv` | none |
| `ReportsHoldEveryRun` | `CardsInv` | none |
| `EvaluationsLeaveTheFileAlone` | `AuditInv` | none |
| `EveryDemoIsAudited` | `DemosInv` | the default settings ask for audit records |
| `PercentilesAreRanks` | `CardsInv`, `LatencyInv` | none |
| `ReportsRepeat` | `CardsInv`, `PredictedInv`, `StubInv`, `RunningInv`, `ForetoldInv` | `LastErrorCarried`, no `"adapter"`, `RoundingIsDecided` |
| `FaultsAreAbsorbed` | as `ReportsRepeat` | `LastErrorCarried`, `RoundingIsDecided`, `FaultsCanBeAbsorbed` |

Why the code justifies the hypotheses:

- *Shipped.* The ceiling of the optimizer is a property of the mocks: an adapter
  whose validator call is refused while an earlier result says "invalid" goes
  round the optimizer without any counter moving, until the recursion limit
  stops it. What is booked, escalated and audited likewise rests on the mocks
  naming the route that was validated (finding 4), and a SUCCESS on their
  calling the tool that books (see "Any other adapter").
- *`Escalatable`* has two parts. No carrier of the lane is free: the fixture
  has none, and with one the statement is false (finding 3). A fault injected
  into the lookup may be retried once: the shipped settings grant it two
  retries, and with none the injected fault is the last word.
- *The limits on steps.* `Ratio` rounds to thousandths, so a single failure
  among 2000 steps or more vanishes in a rate, and among 667 or more in the
  composite. The code's limit is 50 steps; with the six carriers of the fixture
  a run can refer to 350 entities.
- *The default settings ask for audit records*, as `Settings` ships them.
  Without them demos print SUCCESS and leave the file alone.
- *`RoundingIsDecided`*: no risk score about the threshold and no composite lies
  half way between two thousandths. There floating point decides, which the
  model leaves open, so two reports of it may differ where the program's would
  not. Settings and scenarios say whether a tie occurs; TLC evaluates that none
  does in the shipped ones.
- *`OrdersAreOfTheGraph`*: an expected order is the way through the graph, or a
  beginning of it, as the scenarios have it. With any other order no run could
  be coherent. TLC evaluates it on the shipped scenarios and on those of
  `pipeline_retries`.
- *`FaultsCanBeAbsorbed`* has three parts. A fault is injected only where the
  ceiling grants a retry; with none it is final, and the mocks end differently.
  The scenario knows every carrier of its lane: else the flaky mock, whose
  spoilt lookup is one more call, but names no carrier, has another share of
  hallucinations. And a lane with carriers has a feasible one: where all
  are too slow the plain mock has only failures that are never made good and
  recovers 0 of them, while the flaky one is credited with its spoilt lookup and
  gets the *higher* composite. The shipped scenarios and fixture satisfy all
  three, as TLC evaluates.

- `TypeOK` needs `RiskScoreRange`: the weighted sum is at most 1865 half
  thousandths, so the clamp in `risk_scorer.py:53` never acts.
- `ControlInv` says where a confirmed booking and a final status can be found:
  the execution node's success leads straight to the audit node, and when
  `_last_error` is carried that is the only way there. `SuccessIsConfirmed`
  alone is not inductive: nothing in it says that a run about to be audited has
  a booking. `ShippedDecision` and `ShippedCall` say that a shipped provider
  calls the tool that books; for any provider `MiscallInv` says of a run about
  to be audited what `UnbookedSuccessIsMiscalled` says of one that succeeded.
- `RiskInv` adds that only the risk node scores, and that its edge separates
  the high-risk runs from the others for good.
- `ProposalInv` follows the route through the state: candidates are those of
  the lane, the candidate route is the optimizer's choice among them, a valid
  result is about the candidate route, and no node replaces the route after it.
  Together with `OptimizerChoosesCheapest` this gives the cheapest viable
  carrier.
- `BudgetInv` bounds the steps taken before each node by the counters, each
  retry loop paying for its rounds with the counter its edge compares. Summed
  over the loops the bound is `StepBudget`.
- The refinement maps `Execution` to `Book`, `Audit` to `Succeed`, the terminal
  nodes to `GiveUp` and everything else to a stutter.
- `TransitionInv` adds to `TransitionsAreLegal` that the transition from the
  last step to the node that runs next is legal as well. Each action then adds
  that step (`AppendKeepsLegal`) and its edge chooses a next node the table
  admits, whatever the provider answered and whether or not the edge saw the
  error.
- `CountInv` adds to `RetryCountsMatchTrajectory` that the validator never looks
  again at a route it found valid: otherwise a second, failing look would turn a
  counted success into a refusal nobody counted. `StepIsCounted` says what one
  appended step does to the cardinalities.
- The proofs of `Attempts_proofs` go by `StepShapes`, which splits `Next` by what
  a step does to trajectory, counters and next node and forgets the rest.
  `AttemptsInv` then ties the tries of each node to its counter: entering the
  lookup or the execution there are as many tries as counted failures, and
  while the route is being negotiated the optimizer is one ahead exactly at the
  validator. `AttemptCeilings` alone allows one try too many at every node.
- `LinkInv` adds to `RetryLinks` that a node about to be tried again is the one
  that has just failed, so the backward search of the code for the step to link
  stops at the step before (`PreviousIsLast`).
- `FailInv` says of a run on its way to `fail_execution` what `FailureIsFinal`
  says of it once it is there.
- `LostInv`: when the key is dropped, lookup and execution are entered only with
  no failure counted, and the edge to `fail_execution` is never taken.
- `RouteInv` says what the nodes know of the lane: the candidates are all of its
  carriers, unless a failed lookup went unnoticed; no proposal at the validator
  means that none of them was feasible; and whoever gets to the audit has a
  route last found valid.
- `JustInv` follows an escalation back to its cause: the lookup ends in
  it only on an empty lane, since a spoilt call is the first and never the
  last; the optimizer only when nothing is feasible; the validator only for a
  free carrier.
- `FaithInv` is `AuditIsFaithful` itself, inductive beside `RouteInv`: the only
  step that appends a record is the one that sets SUCCESS, and its own step is
  no tool call (`AuditIsNoToolCall`).
- `RetriedInv` adds to `RetriesMatchCounters`, which speaks of finished runs,
  the failure that nothing has answered yet (`Open`): the next node either
  retries it or is terminal.
- `NamedInv`: what was booked is named by a step, and the steps are within the
  limit. With `SmallRatioIsSeen` a reference outside the ground truth shows up
  in the rate.
- `RecoveryInv`: every failure but the last step's has been made good, unless
  the lane is empty and the lookup fails over and over, and then so does the
  last step. `OnlyTheWholeIsFull` turns "all recovered" into 1000.
- `CallsInv`: a mock sends at most one call that is refused, the first lookup,
  and a valid call of the risk tool comes before it. So schema validity is at
  least one half. A missed status costs a quarter of the composite; a run that
  met it without ending in an error loses at most 23 hundredths: half the mark
  for valid calls, and those for coherence and hallucinations, whatever the
  ground truth. The rest of `CompositeTells`
  bounds each rate (`RecoveryRate`, `ValidityRate`, `TransitionRate`,
  `HallucinationRate`, `CoherenceRate`), maps it to its mark (`RubricOfMetric`)
  and sums the weights (`CompositeOfMarks`).
- `PredictedInv` says of a run that is on what `RunsArePredicted` says of one
  that has returned: its steps are the first of the plan, and the counters, the
  candidates, the route and the next node are those of its place in it
  (`PlaceInv`). Each action then adds the step the plan has next.
- `ShippedRunsAreCoherent` needs where the runs of steps at one node start in a plan
  (`PlannedStarts`): each retry loop of one node has one start however long it
  is, so the k-th start is at the k-th node of the way. It says nothing of an
  adapter, which may go back from the validator to the optimizer.
- `FaultsAreAbsorbed` compares two plans. Where faults are absorbed, the plan of
  the flaky mock is that of the other one with a lookup and an execution more
  (`FaultsShiftPlans`), so each step of the shorter plan is found again in the
  longer one at the same node, starts at starts (`PlansEmbed`). From that: no
  fewer steps at any node, so no less latency (`EmbeddedLatency`), and the same
  places of the same nodes, so the same coherence (`EmbeddedCoherence`). The
  remaining rates are those of a run without a failure, or, on an empty lane,
  equal (`SparedSteps`, `NothingIsRecovered`), and rubric, weighted sum and
  rounding keep the order (`CompositesCompare`).
- `RegistryInv` says what verdict, entry, result and record tell of each other
  at each stage; it rests on the ways validation and the tools can end
  (`VerdictsOf`, `OutcomesOf`). `AnswerInv` adds that they are those of the
  request under way, so that `FittingCallsAreUnderstood`, which compares the
  schemas with the signatures call by call, says how that request ends.
- `AuditInv` says that the harness has work only while `eval` is being executed
  and that its runs are under `eval_settings`, which ask for no record; no node
  changes the settings of its run (`SettingsAreFixed`).
- `DemosInv` says that the file is one record ahead of the screen between the
  audit node's write and the printing of SUCCESS, and level with it otherwise;
  `AuditFileTracksDemos` looks only between commands and is not inductive.
- `CardsInv` says that the cards made and the runs pending are together
  `RunsToDo`, in order, and that the report just written holds those cards.
  `KeptInv` adds that nothing is pending outside an evaluation, and that reports
  are dated no later than the clock.
- `PercentilesAreRanks` rests on `LatencyInv` (the latencies of the cards are
  numbers) and on each rank being taken by one of them (`RanksAreTaken`,
  `SortedLatencies`); the rest is the arithmetic of the index, clamped and not.
- `ForetoldInv` says that every card of an evaluation that is on, and of every
  report on disk, is one that `PlannedCards` foretells for its run: a stub left
  no card (`StubInv`), and the run being scored is the first of those pending,
  under `eval_settings` (`RunningInv`). So what ran before it does not matter,
  and where one card is foretold there is one report.

Only model-checked:

- `ShippedReportIsGolden`: one concrete table of figures, about one instance;
  there is nothing to prove of other constants.
- `EventuallyStops`, `RoutineAlertsSucceed` and `CommandsEnd`: liveness rests on
  fairness and is outside the prover's reach.
- The statements that the findings violate.

## Not modelled, and the plan

Not modelled: the layout of printed and written reports and `graph`, which only
prints; token costs, which are always 0; report files that are cut off in the
middle of a write (a failing write leaves no file); two commands at the same
time; pydantic's validation; an empty string as carrier id, which the lookup
would treat as none; `names()` of the registry, which nobody calls;
`llm_as_judge_hook`, which only raises; the CI files and the tests themselves,
whose golden scores are `GOLDEN_SCORES`. Whether LangGraph lets a run end that
needs exactly `RecursionLimit` supersteps is left as it should be (it may);
`WithinRecursionBudget` holds either way.

Every component of the inventory is modelled but for these parts, and every
safety property that a passing run checks is proved under the hypotheses above,
but for the table of golden figures. What could still be added is a richer
`"adapter"`, whose calls of the risk, lookup and optimizer tools may carry any
arguments.
