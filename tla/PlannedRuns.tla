------------------------------ MODULE PlannedRuns ------------------------------
(***************************************************************************)
(* What a run of a mock comes to, worked out from its alert a, provider p  *)
(* and settings s alone: which steps it takes, where it ends and which     *)
(* score card it gets.  ReroutePipeline says how a run goes on from one    *)
(* node to the next; here every step is given by its position, with no     *)
(* state in between.                                                       *)
(***************************************************************************)
EXTENDS ScoredPipeline

\* The carriers the lookup finds, those the optimizer ranks, and its first.
LaneOf(a) == carrier_lookup(a.origin, a.destination, a.affected)
FeasibleFor(a) == FeasibleCarriers(LaneOf(a), max_transit_hours)
ChoiceFor(a) == CHOOSE c \in route_optimizer(LaneOf(a), max_transit_hours) : TRUE
Bookable(a) == FeasibleFor(a) # {} /\ route_validator(ChoiceFor(a), max_transit_hours)

\* The calls of each kind that the flaky mock makes fail.
SpoiltLookups(a, p) == IF p = "mock_flaky" /\ a.inject.carrier_lookup THEN 1 ELSE 0
SpoiltExecutions(a, p) == IF p = "mock_flaky" /\ a.inject.execution THEN 1 ELSE 0

\* The retry ceilings decide whether such a failure is the last.
Found(a, p, s) == LaneOf(a) # {} /\ SpoiltLookups(a, p) <= s.max_retries_carrier_lookup
Confirmed(a, p, s) == Bookable(a) /\ SpoiltExecutions(a, p) <= s.max_retries_execution

\* How often each part of the graph is entered, if the run gets that far.
Lookups(a, p, s) ==
    IF Found(a, p, s) THEN SpoiltLookups(a, p) + 1 ELSE s.max_retries_carrier_lookup + 1
Proposals(a, s) == IF Bookable(a) THEN 1 ELSE s.max_retries_route_optimizer + 1
Executions(a, p, s) ==
    IF Confirmed(a, p, s) THEN SpoiltExecutions(a, p) + 1 ELSE s.max_retries_execution + 1

\* The positions of the last lookup, of the last validation and of the last
\* execution.
LookedUp(a, p, s) == 2 + Lookups(a, p, s)
Proposed(a, p, s) == LookedUp(a, p, s) + 2 * Proposals(a, s)
Executed(a, p, s) == Proposed(a, p, s) + Executions(a, p, s)

\* A mock calls at each node the tool the node is there for.
ToolAt(n) == IF n \in ToolNodes THEN tool_name[n] ELSE "none"

StepOf(n, error, retry_of, entities) ==
    [node |-> n, tool |-> ToolAt(n), error |-> error, retry_of |-> retry_of,
     entities |-> entities]

PlannedLookup(a, p, i) ==
    LET error == IF i = 3 /\ SpoiltLookups(a, p) = 1 THEN "schema"
                 ELSE IF LaneOf(a) = {} THEN "no_carrier" ELSE "none"
    IN  StepOf("carrier_lookup", error, IF i = 3 THEN 0 ELSE i - 1,
               IF error = "none" THEN LaneOf(a) ELSE {})

PlannedProposal(a) ==
    StepOf("route_optimizer", IF FeasibleFor(a) = {} THEN "infeasible" ELSE "none", 0,
           FeasibleFor(a))

\* The execution at position i, when the first one is at position first.
PlannedExecution(a, p, first, i) ==
    StepOf("execution", IF i = first /\ SpoiltExecutions(a, p) = 1 THEN "transient" ELSE "none",
           IF i = first THEN 0 ELSE i - 1, {ChoiceFor(a)})

PlannedStep(a, p, s, i) ==
    IF i = 1 THEN StepOf("planner", "none", 0, {})
    ELSE IF i = 2 THEN StepOf("risk", "none", 0, {})
    ELSE IF i <= LookedUp(a, p, s) THEN PlannedLookup(a, p, i)
    ELSE IF i <= Proposed(a, p, s)
         THEN IF (i - LookedUp(a, p, s)) % 2 = 1
              THEN PlannedProposal(a)
              ELSE StepOf("validator", "none", 0, {ChoiceFor(a)})
    ELSE IF i <= Executed(a, p, s) THEN PlannedExecution(a, p, Proposed(a, p, s) + 1, i)
    ELSE StepOf("audit", "none", 0, {})

\* The stage of the graph a run ends at, counted from the risk node; high says
\* whether its score is above the threshold.
Reach(a, p, s, high) ==
    IF high THEN 1
    ELSE IF ~ Found(a, p, s) THEN 2
    ELSE IF FeasibleFor(a) = {} THEN 3
    ELSE IF ~ Bookable(a) THEN 4
    ELSE IF ~ Confirmed(a, p, s) THEN 5
    ELSE 6

PlannedLength(a, p, s, high) ==
    << 2, LookedUp(a, p, s), LookedUp(a, p, s) + 1, Proposed(a, p, s), Executed(a, p, s),
       Executed(a, p, s) + 1 >>[Reach(a, p, s, high)]

Planned(a, p, s, high) ==
    [i \in 1..PlannedLength(a, p, s, high) |-> PlannedStep(a, p, s, i)]

PlannedStatus(a, p, s, high) ==
    << "ESCALATED", "ESCALATED", "ESCALATED", "ESCALATED", "FAILED",
       "SUCCESS" >>[Reach(a, p, s, high)]

-----------------------------------------------------------------------------
\* Whether the score of a run may be above the threshold: one answer, unless
\* the two scores a sum may be rounded to lie on either side of it.
Highs(a, s) ==
    {score > s.risk_escalation_threshold :
        score \in risk_scorer(a.alert_type, a.severity, a.affected)}

\* The score cards the run may be given: one, unless a score or a composite
\* lies half way between two thousandths.
PlannedCards(a, p, s) ==
    UNION {compute_scorecard(Planned(a, p, s, high), PlannedStatus(a, p, s, high),
                             GroundTruth[a]) : high \in Highs(a, s)}

\* No score and no composite lies half way: every run of a mock has one card.
RoundingIsDecided(s) ==
    \A a \in Alerts, p \in MockProviders : \A c, d \in PlannedCards(a, p, s) : c = d

\* The faults injected into the runs of a cost them no more than a retry: there
\* is one to spare.  And a run they spare is not marked down for anything else
\* than its outcome: it meets no carrier its scenario does not know, and the
\* optimizer is not left with carriers that are all too slow.
AbsorbsFaults(a, s) ==
    /\ a.inject.carrier_lookup => s.max_retries_carrier_lookup > 0
    /\ a.inject.execution => s.max_retries_execution > 0
    /\ LaneOf(a) \subseteq GroundTruth[a].entities
    /\ LaneOf(a) # {} => FeasibleFor(a) # {}

FaultsCanBeAbsorbed(s) == \A a \in Alerts : AbsorbsFaults(a, s)

\* A run of a mock that returns took the steps, and reached the status, that
\* its alert, its provider and its settings foretell, retries included.
RunsArePredicted ==
    node = "END" /\ provider \in MockProviders =>
        \E high \in Highs(alert, settings) :
            /\ trajectory = Planned(alert, provider, settings, high)
            /\ final_status = PlannedStatus(alert, provider, settings, high)

-----------------------------------------------------------------------------
\* The nodes behind the planner, along the way to a confirmed booking.
FullOrder ==
    <<"risk", "carrier_lookup", "route_optimizer", "validator", "execution", "audit">>

\* Scenarios are written for the graph and the fixture: where a mock ends as
\* the ground truth expects, the expected order is the way there, or a part of
\* it.
OrdersAreOfTheGraph ==
    \A a \in Alerts, p \in MockProviders \cap RunProviders, s \in SettingsSpace :
        \A high \in Highs(a, s) :
            PlannedStatus(a, p, s, high) = GroundTruth[a].status =>
                \A k \in DOMAIN GroundTruth[a].order :
                    k <= Reach(a, p, s, high) /\ GroundTruth[a].order[k] = FullOrder[k]

=============================================================================
