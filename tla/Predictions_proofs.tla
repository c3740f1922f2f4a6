-------------------------- MODULE Predictions_proofs --------------------------
(***************************************************************************)
(* Proofs about what a run of a mock comes to, for every network, set of   *)
(* alerts, settings and recursion limit.                                   *)
(***************************************************************************)
EXTENDS PlannedRuns, Metrics_proofs

-----------------------------------------------------------------------------
(* The plan of a run.                                                      *)

\* The numbers of a plan are numbers, and a run that gets to a part of the
\* graph enters it once at least.
LEMMA PlanNumbers ==
    ASSUME NEW a, NEW p, NEW s \in Settings
    PROVE  /\ SpoiltLookups(a, p) \in {0, 1} /\ SpoiltExecutions(a, p) \in {0, 1}
           /\ s.max_retries_carrier_lookup \in Nat
           /\ s.max_retries_route_optimizer \in Nat
           /\ s.max_retries_execution \in Nat
           /\ Lookups(a, p, s) \in Nat \ {0} /\ Proposals(a, s) \in Nat \ {0}
           /\ Executions(a, p, s) \in Nat \ {0}
           /\ LookedUp(a, p, s) \in Nat /\ LookedUp(a, p, s) = 2 + Lookups(a, p, s)
           /\ Proposed(a, p, s) \in Nat
           /\ Proposed(a, p, s) = LookedUp(a, p, s) + 2 * Proposals(a, s)
           /\ Executed(a, p, s) \in Nat
           /\ Executed(a, p, s) = Proposed(a, p, s) + Executions(a, p, s)
<1>1. /\ s.max_retries_carrier_lookup \in Nat
      /\ s.max_retries_route_optimizer \in Nat
      /\ s.max_retries_execution \in Nat
    BY DEF Settings
<1>2. SpoiltLookups(a, p) \in {0, 1} /\ SpoiltExecutions(a, p) \in {0, 1}
    BY DEF SpoiltLookups, SpoiltExecutions
<1>3. /\ Lookups(a, p, s) \in Nat \ {0} /\ Proposals(a, s) \in Nat \ {0}
      /\ Executions(a, p, s) \in Nat \ {0}
    BY <1>1, <1>2 DEF Lookups, Proposals, Executions
<1> QED
    BY <1>1, <1>2, <1>3 DEF LookedUp, Proposed, Executed

\* Which step the plan has at each position.
LEMMA PlannedSteps ==
    ASSUME NEW a, NEW p, NEW s \in Settings
    PROVE  /\ PlannedStep(a, p, s, 1) = StepOf("planner", "none", 0, {})
           /\ PlannedStep(a, p, s, 2) = StepOf("risk", "none", 0, {})
           /\ \A i \in 3..LookedUp(a, p, s) : PlannedStep(a, p, s, i) = PlannedLookup(a, p, i)
           /\ \A k \in 0..(Proposals(a, s) - 1) :
                /\ PlannedStep(a, p, s, LookedUp(a, p, s) + 2 * k + 1) = PlannedProposal(a)
                /\ PlannedStep(a, p, s, LookedUp(a, p, s) + 2 * k + 2)
                       = StepOf("validator", "none", 0, {ChoiceFor(a)})
           /\ \A i \in (Proposed(a, p, s) + 1)..Executed(a, p, s) :
                PlannedStep(a, p, s, i) = PlannedExecution(a, p, Proposed(a, p, s) + 1, i)
           /\ PlannedStep(a, p, s, Executed(a, p, s) + 1) = StepOf("audit", "none", 0, {})
<1> DEFINE l == Lookups(a, p, s)
           o == Proposals(a, s)
           e == Executions(a, p, s)
           L == LookedUp(a, p, s)
           P == Proposed(a, p, s)
           T == Executed(a, p, s)
<1>1. /\ l \in Nat \ {0} /\ o \in Nat \ {0} /\ e \in Nat \ {0}
      /\ L \in Nat /\ P \in Nat /\ T \in Nat
      /\ L = 2 + l /\ P = L + 2 * o /\ T = P + e
    BY PlanNumbers
<1>2. ASSUME NEW i \in Nat
      PROVE  PlannedStep(a, p, s, i) =
                IF i = 1 THEN StepOf("planner", "none", 0, {})
                ELSE IF i = 2 THEN StepOf("risk", "none", 0, {})
                ELSE IF i <= L THEN PlannedLookup(a, p, i)
                ELSE IF i <= P
                     THEN IF (i - L) % 2 = 1
                          THEN PlannedProposal(a)
                          ELSE StepOf("validator", "none", 0, {ChoiceFor(a)})
                ELSE IF i <= T THEN PlannedExecution(a, p, P + 1, i)
                ELSE StepOf("audit", "none", 0, {})
    BY DEF PlannedStep
<1> HIDE DEF l, o, e, L, P, T
<1>3. PlannedStep(a, p, s, 1) = StepOf("planner", "none", 0, {})
    BY <1>2
<1>4. PlannedStep(a, p, s, 2) = StepOf("risk", "none", 0, {})
    BY <1>2
<1>5. ASSUME NEW i \in 3..L
      PROVE  PlannedStep(a, p, s, i) = PlannedLookup(a, p, i)
  <2>1. i \in Nat /\ i # 1 /\ i # 2 /\ i <= L
    BY <1>1
  <2> QED
    BY <1>2, <2>1, Zenon
<1>6. ASSUME NEW k \in 0..(o - 1)
      PROVE  /\ PlannedStep(a, p, s, L + 2 * k + 1) = PlannedProposal(a)
             /\ PlannedStep(a, p, s, L + 2 * k + 2)
                    = StepOf("validator", "none", 0, {ChoiceFor(a)})
  <2>1. PICK i \in Nat, j \in Nat : i = L + 2 * k + 1 /\ j = L + 2 * k + 2
    BY <1>1
  <2>2. i # 1 /\ i # 2 /\ ~ (i <= L) /\ i <= P /\ (i - L) % 2 = 1
    BY <1>1, <2>1
  <2>3. j # 1 /\ j # 2 /\ ~ (j <= L) /\ j <= P /\ (j - L) % 2 # 1
    BY <1>1, <2>1
  <2>4. PlannedStep(a, p, s, i) = PlannedProposal(a)
    BY <1>2, <2>2, Zenon
  <2>5. PlannedStep(a, p, s, j) = StepOf("validator", "none", 0, {ChoiceFor(a)})
    BY <1>2, <2>3, Zenon
  <2> QED
    BY <2>1, <2>4, <2>5
<1>7. ASSUME NEW i \in (P + 1)..T
      PROVE  PlannedStep(a, p, s, i) = PlannedExecution(a, p, P + 1, i)
  <2>1. i \in Nat /\ i # 1 /\ i # 2 /\ ~ (i <= L) /\ ~ (i <= P) /\ i <= T
    BY <1>1
  <2> QED
    BY <1>2, <2>1, Zenon
<1>8. PlannedStep(a, p, s, T + 1) = StepOf("audit", "none", 0, {})
  <2>1. PICK i \in Nat : i = T + 1
    BY <1>1
  <2>2. i # 1 /\ i # 2 /\ ~ (i <= L) /\ ~ (i <= P) /\ ~ (i <= T)
    BY <1>1, <2>1
  <2>3. PlannedStep(a, p, s, i) = StepOf("audit", "none", 0, {})
    BY <1>2, <2>2, Zenon
  <2> QED
    BY <2>1, <2>3
<1> QED
    BY <1>3, <1>4, <1>5, <1>6, <1>7, <1>8 DEF l, o, e, L, P, T

\* The optimizer has one first route at most.
LEMMA ChoiceIsUnique ==
    ASSUME NEW a, NEW c \in route_optimizer(LaneOf(a), max_transit_hours)
    PROVE  c = ChoiceFor(a)
<1> DEFINE d == ChoiceFor(a)
           F == FeasibleCarriers(LaneOf(a), max_transit_hours)
<1>1. d \in route_optimizer(LaneOf(a), max_transit_hours)
    BY DEF ChoiceFor
<1>2. /\ c \in F /\ d \in F
      /\ SortsBefore(c, d) /\ SortsBefore(d, c)
    BY <1>1 DEF route_optimizer
<1>3. F \subseteq Carriers
    BY DEF FeasibleCarriers, LaneOf, carrier_lookup, find_by_region
<1>4. c \in Int /\ d \in Int /\ Network[c].cost \in Int /\ Network[d].cost \in Int
    BY <1>2, <1>3, CarrierType DEF Carrier, Carriers
<1> HIDE DEF d
<1>5. c = d
    BY <1>2, <1>4 DEF SortsBefore
<1> QED
    BY <1>5 DEF d

-----------------------------------------------------------------------------
(* A run of a mock goes as planned.                                        *)

PlanAt(i) == PlannedStep(alert, provider, settings, i)

FollowsPlan == \A i \in DOMAIN trajectory : trajectory[i] = PlanAt(i)

Low == FALSE \in Highs(alert, settings)

\* The run is to end after the steps it has taken, with status.
EndsWith(status) ==
    \E high \in Highs(alert, settings) :
        /\ Len(trajectory) = PlannedLength(alert, provider, settings, high)
        /\ status = PlannedStatus(alert, provider, settings, high)

\* Where in its plan a run is: the node that is about to run, the counters and
\* the proposal are those of the position the trajectory has got to.
PlaceInv ==
    LET n == Len(trajectory)
        lookups == retry_counts.carrier_lookup
        proposals == retry_counts.route_optimizer
        executions == retry_counts.execution
        L == LookedUp(alert, provider, settings)
    IN  /\ node \in {"planner", "risk"} =>
             /\ n = (IF node = "planner" THEN 0 ELSE 1)
             /\ lookups = 0 /\ proposals = 0 /\ executions = 0
        /\ node = "carrier_lookup" =>
             /\ Low /\ proposals = 0 /\ executions = 0
             /\ n = 2 + lookups /\ n < L
        /\ node = "route_optimizer" =>
             /\ Low /\ executions = 0
             /\ Found(alert, provider, settings) /\ candidate_carriers = LaneOf(alert)
             /\ n = L + 2 * proposals /\ proposals < Proposals(alert, settings)
             /\ proposals > 0 => FeasibleFor(alert) # {}
        /\ node = "validator" =>
             /\ Low /\ executions = 0
             /\ Found(alert, provider, settings) /\ candidate_carriers = LaneOf(alert)
             /\ FeasibleFor(alert) # {} /\ candidate_route = ChoiceFor(alert)
             /\ n = L + 2 * proposals + 1 /\ proposals < Proposals(alert, settings)
        /\ node = "execution" =>
             /\ Low /\ Found(alert, provider, settings) /\ Bookable(alert)
             /\ candidate_route = ChoiceFor(alert)
             /\ n = Proposed(alert, provider, settings) + executions
             /\ n < Executed(alert, provider, settings)
        /\ node = "audit" =>
             /\ Low /\ Found(alert, provider, settings)
             /\ Confirmed(alert, provider, settings)
             /\ n = Executed(alert, provider, settings)
        /\ node \in {"escalate_high_risk", "escalate_no_viable_route"} => EndsWith("ESCALATED")
        /\ node = "fail_execution" => EndsWith("FAILED")
        /\ node = "END" => EndsWith(final_status)

PredictedInv == provider \in MockProviders => FollowsPlan /\ PlaceInv

\* A step that records a call of the node's own tool.
MockStep(m, error, retry_of, entities) == add_step(m, ToolAt(m), error, retry_of, entities)

\* What a mock asks for is recorded as a call of the node's own tool.
LEMMA MockStepIs ==
    ASSUME TypeOK, provider \in MockProviders, node \in ToolNodes,
           NEW failures, NEW d \in Decisions(failures),
           NEW error, NEW retry_of, NEW entities
    PROVE  add_step(node, d.tool, error, retry_of, entities)
               <=> MockStep(node, error, retry_of, entities)
<1>1. provider # "adapter"
    BY DEF MockProviders
<1>2. d.tool = ToolAt(node)
    BY <1>1, ShippedDecision DEF ToolAt
<1> QED
    BY <1>2 DEF MockStep

\* A step that was planned leaves the trajectory as planned.
LEMMA PlannedStepFollows ==
    ASSUME TypeOK, FollowsPlan, UNCHANGED inputs,
           NEW m, NEW error, NEW retry_of, NEW entities,
           MockStep(m, error, retry_of, entities),
           PlanAt(Len(trajectory) + 1) = StepOf(m, error, retry_of, entities)
    PROVE  /\ FollowsPlan'
           /\ Len(trajectory) \in Nat /\ Len(trajectory') = Len(trajectory) + 1
<1> DEFINE n == Len(trajectory)
           step == StepOf(m, error, retry_of, entities)
<1>1. trajectory \in Seq(Step) /\ trajectory' = Append(trajectory, step)
    BY DEF TypeOK, MockStep, add_step, StepOf
<1>2. /\ n \in Nat /\ DOMAIN trajectory = 1..n /\ Len(trajectory') = n + 1
      /\ DOMAIN trajectory' = 1..(n + 1)
      /\ \A i \in 1..n : trajectory'[i] = trajectory[i]
      /\ trajectory'[n + 1] = step
    BY <1>1
<1>3. ASSUME NEW i \in 1..(n + 1)
      PROVE  trajectory'[i] = PlanAt(i)
  <2>1. CASE i \in 1..n
    BY <1>2, <2>1 DEF FollowsPlan
  <2>2. CASE i = n + 1
    BY <1>2, <2>2
  <2> QED
    BY <1>2, <2>1, <2>2
<1>4. \A i : PlanAt(i)' = PlanAt(i)
    BY DEF PlanAt, inputs
<1> QED
    BY <1>2, <1>3, <1>4 DEF FollowsPlan

LEMMA PredictedInit == Init => PredictedInv
<1> SUFFICES ASSUME Init, provider \in MockProviders
             PROVE  FollowsPlan /\ PlaceInv
    BY DEF PredictedInv
<1>1. trajectory = <<>> /\ node = "planner" /\ retry_counts = NoRetries
    BY DEF Init
<1>2. FollowsPlan
    BY <1>1 DEF FollowsPlan
<1>3. PlaceInv
    BY <1>1 DEF PlaceInv, NoRetries
<1> QED
    BY <1>2, <1>3

\* The settings of a run are settings, its counters count.
LEMMA RunNumbers ==
    ASSUME TypeOK
    PROVE  /\ settings \in Settings
           /\ retry_counts \in [carrier_lookup : Nat, route_optimizer : Nat, execution : Nat]
           /\ Len(trajectory) \in Nat /\ DOMAIN trajectory = 1..Len(trajectory)
<1>1. settings \in Settings
    BY InputAssumption DEF TypeOK, InputAssumption
<1> QED
    BY <1>1 DEF TypeOK

\* The plan of the run, as PlannedSteps has it.
LEMMA PlanOfRun ==
    ASSUME TypeOK
    PROVE  LET L == LookedUp(alert, provider, settings)
               P == Proposed(alert, provider, settings)
               T == Executed(alert, provider, settings)
           IN  /\ PlanAt(1) = StepOf("planner", "none", 0, {})
               /\ PlanAt(2) = StepOf("risk", "none", 0, {})
               /\ \A i \in 3..L : PlanAt(i) = PlannedLookup(alert, provider, i)
               /\ \A k \in 0..(Proposals(alert, settings) - 1) :
                    /\ PlanAt(L + 2 * k + 1) = PlannedProposal(alert)
                    /\ PlanAt(L + 2 * k + 2)
                           = StepOf("validator", "none", 0, {ChoiceFor(alert)})
               /\ \A i \in (P + 1)..T :
                    PlanAt(i) = PlannedExecution(alert, provider, P + 1, i)
               /\ PlanAt(T + 1) = StepOf("audit", "none", 0, {})
<1>1. settings \in Settings
    BY RunNumbers
<1> QED
    BY <1>1, PlannedSteps, Zenon DEF PlanAt

LEMMA PlannerPlaced ==
    ASSUME TypeOK, FollowsPlan, PlaceInv, Planner
    PROVE  FollowsPlan' /\ PlaceInv'
<1>1. /\ node = "planner" /\ node' = "risk" /\ MockStep("planner", "none", 0, {})
      /\ UNCHANGED <<inputs, retry_counts>>
    BY DEF Planner, Enters, MockStep, ToolAt, ToolNodes
<1>2. Len(trajectory) = 0
    BY <1>1 DEF PlaceInv
<1>3. PlanAt(Len(trajectory) + 1) = StepOf("planner", "none", 0, {})
    BY <1>2, PlanOfRun
<1>4. FollowsPlan' /\ Len(trajectory') = 1
    BY <1>1, <1>2, <1>3, PlannedStepFollows
<1>5. PlaceInv'
    BY <1>1, <1>4 DEF PlaceInv
<1> QED
    BY <1>4, <1>5

\* A mock gets the risk call right, and its score decides the edge.
LEMMA RiskPlaced ==
    ASSUME TypeOK, provider \in MockProviders, FollowsPlan, PlaceInv, Risk
    PROVE  FollowsPlan' /\ PlaceInv'
<1>1. /\ node = "risk" /\ node' = route_after_risk(risk_assessment')
      /\ UNCHANGED <<inputs, retry_counts>>
    BY DEF Risk, Enters
<1>2. /\ risk_assessment' \in risk_scorer(alert.alert_type, alert.severity, alert.affected)
      /\ MockStep("risk", "none", 0, {})
  <2>1. provider # "adapter"
    BY DEF MockProviders
  <2> QED
    BY <1>1, <2>1, ShippedCall DEF Risk, MockStep, ToolAt, ToolNodes, tool_name
<1>3. Len(trajectory) = 1
    BY <1>1 DEF PlaceInv
<1>4. PlanAt(Len(trajectory) + 1) = StepOf("risk", "none", 0, {})
    BY <1>3, PlanOfRun
<1>5. FollowsPlan' /\ Len(trajectory') = 2
    BY <1>1, <1>2, <1>3, <1>4, PlannedStepFollows
<1>6. (risk_assessment' > settings.risk_escalation_threshold) \in Highs(alert, settings)
    BY <1>2 DEF Highs
<1>7. alert' = alert /\ provider' = provider /\ settings' = settings
    BY <1>1 DEF inputs
<1>8. CASE node' = "escalate_high_risk"
  <2>1. TRUE \in Highs(alert, settings)
    BY <1>1, <1>6, <1>8 DEF route_after_risk
  <2>2. /\ PlannedLength(alert, provider, settings, TRUE) = 2
        /\ PlannedStatus(alert, provider, settings, TRUE) = "ESCALATED"
    BY DEF PlannedLength, PlannedStatus, Reach
  <2>3. EndsWith("ESCALATED")'
    BY <1>5, <1>7, <2>1, <2>2 DEF EndsWith
  <2>4. PlaceInv'
    BY <1>8, <2>3 DEF PlaceInv
  <2> QED
    BY <1>5, <2>4
<1>9. CASE node' = "carrier_lookup"
  <2>1. FALSE \in Highs(alert, settings)
    <3>1. risk_assessment' # NoScore
      <4>1. alert \in Alert
        BY InputAssumption DEF TypeOK, InputAssumption
      <4>2. risk_assessment' \in 0..1000
        BY <1>2, <4>1, RiskScoreRange DEF Alert
      <4> QED
        BY <4>2 DEF NoScore
    <3>2. (risk_assessment' > settings.risk_escalation_threshold) = FALSE
      BY <1>1, <1>9, <3>1 DEF route_after_risk
    <3> QED
      BY <1>6, <3>2
  <2>2. Low'
    BY <1>7, <2>1 DEF Low
  <2>3. /\ retry_counts.carrier_lookup = 0 /\ retry_counts.route_optimizer = 0
        /\ retry_counts.execution = 0
    BY <1>1 DEF PlaceInv
  <2>4. 2 < LookedUp(alert, provider, settings)
    BY PlanNumbers, RunNumbers
  <2>5. PlaceInv'
    BY <1>1, <1>5, <1>7, <1>9, <2>2, <2>3, <2>4 DEF PlaceInv
  <2> QED
    BY <1>5, <2>5
<1> QED
    BY <1>1, <1>8, <1>9 DEF route_after_risk

\* A mock sends a lookup the registry refuses when it is to spoil the first.
LEMMA LookupDecision ==
    ASSUME TypeOK, provider \in MockProviders, node = "carrier_lookup",
           NEW failures \in Nat, NEW d \in Decisions(failures)
    PROVE  ~ d.schema_valid <=> SpoiltLookups(alert, provider) = 1 /\ failures = 0
<1>1. CASE provider = "mock"
  <2>1. d = MockDecision(node, candidate_route, failures)
    BY <1>1 DEF Decisions, decide_tool_call
  <2> QED
    BY <1>1, <2>1 DEF MockDecision, SpoiltLookups
<1>2. CASE provider = "mock_flaky"
  <2>1. d = FlakyDecision(node, alert, candidate_route, failures)
    BY <1>2 DEF Decisions, decide_tool_call
  <2>2. d.schema_valid <=> ~ (alert.inject.carrier_lookup /\ failures = 0)
    BY <2>1 DEF FlakyDecision
  <2> QED
    BY <1>2, <2>2 DEF SpoiltLookups
<1> QED
    BY <1>1, <1>2 DEF MockProviders

\* Lookups fail while they are spoilt or the lane is empty; the first that does
\* not leads on, and the last the ceiling allows ends the run.
LEMMA LookupPlaced ==
    ASSUME LastErrorCarried, TypeOK, provider \in MockProviders, FollowsPlan, PlaceInv,
           CarrierLookup
    PROVE  FollowsPlan' /\ PlaceInv'
<1> DEFINE n == Len(trajectory)
           lk == retry_counts.carrier_lookup
           L == LookedUp(alert, provider, settings)
           l == Lookups(alert, provider, settings)
           ceiling == settings.max_retries_carrier_lookup
           spoilt == SpoiltLookups(alert, provider)
           r == retry_of_step("carrier_lookup")
<1>1. /\ node = "carrier_lookup" /\ UNCHANGED inputs
      /\ node' = route_after_carrier_lookup(last_error', retry_counts'.carrier_lookup)
    BY DEF CarrierLookup, Enters
<1>2. PICK d \in Decisions(lk) :
        LET error == IF ~ d.schema_valid THEN "schema"
                     ELSE IF LaneOf(alert) = {} THEN "no_carrier" ELSE "none"
        IN  \/ /\ error = "none"
               /\ candidate_carriers' = LaneOf(alert)
               /\ MockStep("carrier_lookup", "none", r, LaneOf(alert))
               /\ ClearLastError
               /\ UNCHANGED retry_counts
            \/ /\ error # "none"
               /\ MockStep("carrier_lookup", error, r, {})
               /\ CountFailure("carrier_lookup")
               /\ SetLastError("carrier_lookup", FALSE)
  <2>1. PICK d \in Decisions(lk) :
          LET error == IF ~ d.schema_valid THEN "schema"
                       ELSE IF LaneOf(alert) = {} THEN "no_carrier" ELSE "none"
          IN  \/ /\ error = "none"
                 /\ candidate_carriers' = LaneOf(alert)
                 /\ add_step("carrier_lookup", d.tool, "none", r, LaneOf(alert))
                 /\ ClearLastError
                 /\ UNCHANGED retry_counts
              \/ /\ error # "none"
                 /\ add_step("carrier_lookup", d.tool, error, r, {})
                 /\ CountFailure("carrier_lookup")
                 /\ SetLastError("carrier_lookup", FALSE)
    BY DEF CarrierLookup, LaneOf
  <2>2. \A error, entities : add_step("carrier_lookup", d.tool, error, r, entities)
                                => MockStep("carrier_lookup", error, r, entities)
    BY <1>1, MockStepIs DEF ToolNodes
  <2> HIDE DEF r, lk
  <2> QED
    BY <2>1, <2>2
<1>3. /\ Low /\ retry_counts.route_optimizer = 0 /\ retry_counts.execution = 0
      /\ n = 2 + lk /\ n < L
    BY <1>1 DEF PlaceInv
<1>4. /\ n \in Nat /\ lk \in Nat /\ DOMAIN trajectory = 1..n
      /\ retry_counts \in [carrier_lookup : Nat, route_optimizer : Nat, execution : Nat]
      /\ settings \in Settings
    BY RunNumbers
<1>5. /\ L \in Nat /\ l \in Nat \ {0} /\ L = 2 + l /\ ceiling \in Nat /\ spoilt \in {0, 1}
    BY <1>4, PlanNumbers
<1>6. ~ d.schema_valid <=> spoilt = 1 /\ n + 1 = 3
    BY <1>1, <1>2, <1>3, <1>4, LookupDecision
<1>7. r = IF n + 1 = 3 THEN 0 ELSE n
  <2>1. CASE lk = 0
    BY <1>3, <2>1 DEF retry_of_step
  <2>2. CASE lk > 0
    <3>1. n \in 3..L /\ n \in 1..n
      BY <1>3, <1>4, <1>5, <2>2
    <3>2. trajectory[n] = PlannedLookup(alert, provider, n)
      BY <1>4, <3>1, PlanOfRun DEF FollowsPlan
    <3>3. trajectory[n].node = "carrier_lookup" /\ trajectory # <<>>
      BY <1>4, <3>1, <3>2 DEF PlannedLookup, StepOf
    <3>4. PreviousStep("carrier_lookup") = n
      BY <3>3, PreviousIsLast
    <3>5. n + 1 # 3
      BY <1>3, <1>4, <2>2
    <3> QED
      BY <2>2, <3>4, <3>5 DEF retry_of_step
  <2> QED
    BY <1>4, <2>1, <2>2
<1>8. PlanAt(n + 1) = PlannedLookup(alert, provider, n + 1)
  <2>1. n + 1 \in 3..L
    BY <1>3, <1>4, <1>5
  <2> QED
    BY <2>1, PlanOfRun
<1>9. alert' = alert /\ provider' = provider /\ settings' = settings /\ Low'
    BY <1>1, <1>3 DEF inputs, Low
<1> HIDE DEF n, lk, L, l, ceiling, spoilt, r
<1>10. CASE d.schema_valid /\ LaneOf(alert) # {}
  <2>1. /\ candidate_carriers' = LaneOf(alert)
        /\ MockStep("carrier_lookup", "none", r, LaneOf(alert))
        /\ last_error' = NoError /\ UNCHANGED retry_counts
    BY <1>2, <1>10, LastErrorCarried DEF ClearLastError
  <2>2. PlannedLookup(alert, provider, n + 1)
            = StepOf("carrier_lookup", "none", r, LaneOf(alert))
    BY <1>4, <1>5, <1>6, <1>7, <1>10 DEF PlannedLookup, spoilt
  <2>3. FollowsPlan' /\ Len(trajectory') = n + 1
    BY <1>1, <1>8, <2>1, <2>2, PlannedStepFollows DEF n
  <2>4. node' = "route_optimizer"
    BY <1>1, <2>1 DEF route_after_carrier_lookup, NoError
  <2>5. Found(alert, provider, settings) /\ n + 1 = L
    <3>1. l = IF spoilt <= ceiling THEN spoilt + 1 ELSE ceiling + 1
      BY <1>10 DEF Lookups, Found, l, spoilt, ceiling
    <3>2. spoilt <= ceiling /\ n + 1 = L
      BY <1>3, <1>4, <1>5, <1>6, <1>10, <3>1
    <3> QED
      BY <1>10, <3>2 DEF Found, spoilt, ceiling
  <2>6. 0 < Proposals(alert, settings)
    <3>1. Proposals(alert, settings) \in Nat \ {0}
      BY <1>4, PlanNumbers
    <3> QED
      BY <3>1
  <2>7. PlaceInv'
    BY <1>3, <1>9, <2>1, <2>3, <2>4, <2>5, <2>6 DEF PlaceInv, L
  <2> QED
    BY <2>3, <2>7
<1>11. CASE ~ (d.schema_valid /\ LaneOf(alert) # {})
  <2> DEFINE error == IF ~ d.schema_valid THEN "schema" ELSE "no_carrier"
  <2>1. /\ MockStep("carrier_lookup", error, r, {})
        /\ CountFailure("carrier_lookup") /\ last_error'.node = "carrier_lookup"
    BY <1>2, <1>11, LastErrorCarried DEF SetLastError
  <2>2. PlannedLookup(alert, provider, n + 1) = StepOf("carrier_lookup", error, r, {})
    BY <1>4, <1>5, <1>6, <1>7, <1>11 DEF PlannedLookup, spoilt
  <2>3. FollowsPlan' /\ Len(trajectory') = n + 1
    BY <1>1, <1>8, <2>1, <2>2, PlannedStepFollows DEF n
  <2>4. /\ retry_counts'.carrier_lookup = lk + 1
        /\ retry_counts'.route_optimizer = 0 /\ retry_counts'.execution = 0
    BY <1>3, <1>4, <2>1 DEF CountFailure, lk
  <2>5. node' = IF lk + 1 <= ceiling THEN "carrier_lookup" ELSE "escalate_no_viable_route"
    BY <1>1, <1>9, <2>1, <2>4 DEF route_after_carrier_lookup, ceiling
  <2>6. /\ LaneOf(alert) # {} => spoilt = 1 /\ lk = 0
        /\ l = IF LaneOf(alert) # {} /\ spoilt <= ceiling THEN spoilt + 1 ELSE ceiling + 1
    BY <1>3, <1>4, <1>6, <1>11 DEF Lookups, Found, l, spoilt, ceiling
  <2>7. CASE lk + 1 <= ceiling
    <3>1. n + 1 < L
      BY <1>3, <1>4, <1>5, <2>6, <2>7
    <3>2. n + 1 = 2 + (lk + 1)
      BY <1>3, <1>4
    <3>3. node' = "carrier_lookup"
      BY <2>5, <2>7
    <3>4. PlaceInv'
      BY <1>9, <2>3, <2>4, <3>1, <3>2, <3>3 DEF PlaceInv, L
    <3> QED
      BY <2>3, <3>4
  <2>8. CASE ~ (lk + 1 <= ceiling)
    <3>1. n + 1 = L /\ ~ (LaneOf(alert) # {} /\ spoilt <= ceiling)
      BY <1>3, <1>4, <1>5, <2>6, <2>8
    <3>2. ~ Found(alert, provider, settings)
      BY <3>1 DEF Found, spoilt, ceiling
    <3>3. /\ PlannedLength(alert, provider, settings, FALSE) = L
          /\ PlannedStatus(alert, provider, settings, FALSE) = "ESCALATED"
      BY <3>2 DEF PlannedLength, PlannedStatus, Reach, L
    <3>4. EndsWith("ESCALATED")'
      BY <1>3, <1>9, <2>3, <3>1, <3>3 DEF EndsWith, Low
    <3>5. node' = "escalate_no_viable_route"
      BY <2>5, <2>8
    <3>6. PlaceInv'
      BY <3>4, <3>5 DEF PlaceInv
    <3> QED
      BY <2>3, <3>6
  <2> QED
    BY <2>7, <2>8
<1> QED
    BY <1>10, <1>11

\* The optimizer proposes its first route, if there is any.
LEMMA OptimizerPlaced ==
    ASSUME LastErrorCarried, TypeOK, provider \in MockProviders, FollowsPlan, PlaceInv,
           RouteOptimizer
    PROVE  FollowsPlan' /\ PlaceInv'
<1> DEFINE n == Len(trajectory)
           k == retry_counts.route_optimizer
           L == LookedUp(alert, provider, settings)
           feasible == FeasibleFor(alert)
<1>1. /\ node = "route_optimizer" /\ node' = route_after_route_optimizer(last_error')
      /\ UNCHANGED <<inputs, candidate_carriers, retry_counts>>
    BY DEF RouteOptimizer, Enters
<1>2. /\ Low /\ retry_counts.execution = 0
      /\ Found(alert, provider, settings) /\ candidate_carriers = LaneOf(alert)
      /\ n = L + 2 * k /\ k < Proposals(alert, settings)
      /\ k > 0 => feasible # {}
    BY <1>1 DEF PlaceInv
<1>3. FeasibleCarriers(candidate_carriers, max_transit_hours) = feasible
    BY <1>2 DEF FeasibleFor
<1>4. \/ /\ candidate_route' \in route_optimizer(candidate_carriers, max_transit_hours)
         /\ MockStep("route_optimizer", "none", 0, feasible)
         /\ ClearLastError
      \/ /\ feasible = {}
         /\ MockStep("route_optimizer", "infeasible", 0, {})
         /\ SetLastError("route_optimizer", FALSE)
  <2>1. provider # "adapter"
    BY DEF MockProviders
  <2>2. \A d \in Decisions(0) : d.schema_valid
    BY <1>1, <2>1, ShippedDecision
  <2>3. \A d \in Decisions(0) : \A error, entities :
          add_step("route_optimizer", d.tool, error, 0, entities)
            => MockStep("route_optimizer", error, 0, entities)
    BY <1>1, MockStepIs DEF ToolNodes
  <2> HIDE DEF feasible
  <2> QED
    BY <1>3, <2>2, <2>3 DEF RouteOptimizer
<1>5. /\ settings \in Settings /\ n \in Nat /\ k \in Nat
      /\ L \in Nat /\ Proposals(alert, settings) \in Nat \ {0}
    BY RunNumbers, PlanNumbers
<1>6. PlanAt(n + 1) = PlannedProposal(alert)
  <2>1. k \in 0..(Proposals(alert, settings) - 1)
    BY <1>2, <1>5
  <2> QED
    BY <1>2, <2>1, PlanOfRun
<1>7. alert' = alert /\ provider' = provider /\ settings' = settings /\ Low'
    BY <1>1, <1>2 DEF inputs, Low
<1> HIDE DEF n, k, L, feasible
<1>8. CASE /\ candidate_route' \in route_optimizer(candidate_carriers, max_transit_hours)
           /\ MockStep("route_optimizer", "none", 0, feasible)
           /\ ClearLastError
  <2>1. feasible # {} /\ candidate_route' = ChoiceFor(alert)
    BY <1>2, <1>3, <1>8, ChoiceIsUnique DEF route_optimizer
  <2>2. PlannedProposal(alert) = StepOf("route_optimizer", "none", 0, feasible)
    BY <2>1 DEF PlannedProposal, feasible
  <2>3. FollowsPlan' /\ Len(trajectory') = n + 1
    BY <1>1, <1>6, <1>8, <2>2, PlannedStepFollows DEF n
  <2>4. node' = "validator"
    BY <1>1, <1>8, LastErrorCarried DEF route_after_route_optimizer, ClearLastError, NoError
  <2>5. PlaceInv'
    BY <1>1, <1>2, <1>7, <2>1, <2>3, <2>4 DEF PlaceInv, L, k, feasible
  <2> QED
    BY <2>3, <2>5
<1>9. CASE /\ feasible = {}
           /\ MockStep("route_optimizer", "infeasible", 0, {})
           /\ SetLastError("route_optimizer", FALSE)
  <2>1. PlannedProposal(alert) = StepOf("route_optimizer", "infeasible", 0, {})
    BY <1>9 DEF PlannedProposal, feasible
  <2>2. FollowsPlan' /\ Len(trajectory') = n + 1
    BY <1>1, <1>6, <1>9, <2>1, PlannedStepFollows DEF n
  <2>3. node' = "escalate_no_viable_route"
    BY <1>1, <1>9, LastErrorCarried DEF route_after_route_optimizer, SetLastError
  \* Nothing was proposed before, or there would be something to propose now.
  <2>4. n = L
    BY <1>2, <1>5, <1>9
  <2>5. /\ PlannedLength(alert, provider, settings, FALSE) = L + 1
        /\ PlannedStatus(alert, provider, settings, FALSE) = "ESCALATED"
    BY <1>2, <1>9 DEF PlannedLength, PlannedStatus, Reach, L, feasible
  <2>6. EndsWith("ESCALATED")'
    BY <1>2, <1>7, <2>2, <2>4, <2>5 DEF EndsWith, Low
  <2>7. PlaceInv'
    BY <2>3, <2>6 DEF PlaceInv
  <2> QED
    BY <2>2, <2>7
<1> QED
    BY <1>4, <1>8, <1>9

\* The validator accepts the route, or turns it down until the ceiling is
\* reached: the optimizer has no other to propose.
LEMMA ValidatorPlaced ==
    ASSUME TypeOK, provider \in MockProviders, FollowsPlan, PlaceInv, Validator
    PROVE  FollowsPlan' /\ PlaceInv'
<1> DEFINE n == Len(trajectory)
           k == retry_counts.route_optimizer
           L == LookedUp(alert, provider, settings)
           o == Proposals(alert, settings)
           ceiling == settings.max_retries_route_optimizer
           choice == ChoiceFor(alert)
<1>1. /\ node = "validator"
      /\ node' = route_after_validator(validation_result', retry_counts'.route_optimizer)
      /\ UNCHANGED <<inputs, candidate_carriers, candidate_route>>
    BY DEF Validator, Enters, proposal
<1>2. /\ Low /\ retry_counts.execution = 0
      /\ Found(alert, provider, settings) /\ candidate_carriers = LaneOf(alert)
      /\ FeasibleFor(alert) # {} /\ candidate_route = choice
      /\ n = L + 2 * k + 1 /\ k < o
    BY <1>1 DEF PlaceInv
<1>3. /\ MockStep("validator", "none", 0, {choice})
      /\ \/ /\ route_validator(choice, max_transit_hours)
            /\ validation_result' = "valid" /\ UNCHANGED retry_counts
         \/ /\ ~ route_validator(choice, max_transit_hours)
            /\ validation_result' = "invalid" /\ CountFailure("route_optimizer")
  <2>1. provider # "adapter"
    BY DEF MockProviders
  <2>2. \A d \in Decisions(0) : d.schema_valid /\ d.carrier = choice
    BY <1>1, <1>2, <2>1, ShippedDecision
  <2>3. \A d \in Decisions(0) : add_step("validator", d.tool, "none", 0, {d.carrier})
                                  => MockStep("validator", "none", 0, {d.carrier})
    BY <1>1, MockStepIs DEF ToolNodes
  <2> HIDE DEF choice
  <2> QED
    BY <2>1, <2>2, <2>3, ShippedVerdict DEF Validator
<1>4. /\ settings \in Settings /\ n \in Nat /\ k \in Nat
      /\ retry_counts \in [carrier_lookup : Nat, route_optimizer : Nat, execution : Nat]
    BY RunNumbers
<1>5. L \in Nat /\ o \in Nat \ {0} /\ ceiling \in Nat
    BY <1>4, PlanNumbers
<1>6. PlanAt(n + 1) = StepOf("validator", "none", 0, {choice})
  <2>1. k \in 0..(o - 1) /\ n + 1 = L + 2 * k + 2
    BY <1>2, <1>4, <1>5
  <2> QED
    BY <2>1, PlanOfRun
<1>7. alert' = alert /\ provider' = provider /\ settings' = settings /\ Low'
    BY <1>1, <1>2 DEF inputs, Low
<1>8. FollowsPlan' /\ Len(trajectory') = n + 1
    BY <1>1, <1>3, <1>6, PlannedStepFollows
<1>9. CASE route_validator(choice, max_transit_hours)
  <2>1. Bookable(alert) /\ o = 1
    BY <1>2, <1>9 DEF Bookable, Proposals
  <2>2. node' = "execution" /\ UNCHANGED retry_counts
    BY <1>1, <1>3, <1>9 DEF route_after_validator
  <2>3. /\ n + 1 = Proposed(alert, provider, settings)
        /\ n + 1 < Executed(alert, provider, settings)
    <3>1. /\ Proposed(alert, provider, settings) = L + 2 * o
          /\ Executions(alert, provider, settings) \in Nat \ {0}
          /\ Executed(alert, provider, settings) =
                 Proposed(alert, provider, settings) + Executions(alert, provider, settings)
      BY <1>4, PlanNumbers
    <3> QED
      BY <1>2, <1>4, <1>5, <2>1, <3>1
  <2>4. PlaceInv'
    BY <1>1, <1>2, <1>4, <1>7, <1>8, <2>1, <2>2, <2>3 DEF PlaceInv
  <2> QED
    BY <1>8, <2>4
<1>10. CASE ~ route_validator(choice, max_transit_hours)
  <2>1. ~ Bookable(alert) /\ o = ceiling + 1
    BY <1>10 DEF Bookable, Proposals
  <2>2. /\ retry_counts'.route_optimizer = k + 1 /\ retry_counts'.execution = 0
        /\ validation_result' = "invalid"
    BY <1>2, <1>3, <1>4, <1>10 DEF CountFailure
  <2>3. CASE k + 1 <= ceiling
    <3>1. node' = "route_optimizer"
      BY <1>1, <1>7, <2>2, <2>3 DEF route_after_validator
    <3>2. n + 1 = L + 2 * (k + 1) /\ k + 1 < o
      BY <1>2, <1>4, <1>5, <2>1, <2>3
    <3> HIDE DEF n, k, L, o
    <3>3. PlaceInv'
      BY <1>1, <1>2, <1>7, <1>8, <2>2, <3>1, <3>2 DEF PlaceInv, L, o
    <3> QED
      BY <1>8, <3>3
  <2>4. CASE ~ (k + 1 <= ceiling)
    <3>1. node' = "escalate_no_viable_route"
      BY <1>1, <1>7, <2>2, <2>4 DEF route_after_validator
    <3>2. n + 1 = Proposed(alert, provider, settings)
      <4>1. Proposed(alert, provider, settings) = L + 2 * o
        BY <1>4, PlanNumbers
      <4>2. /\ n = L + 2 * k + 1 /\ k < o
            /\ n \in Nat /\ k \in Nat /\ L \in Nat /\ o \in Nat /\ ceiling \in Nat
        BY <1>2, <1>4, <1>5
      <4> HIDE DEF n, k, L, o, ceiling
      <4>3. k + 1 = o
        BY <2>1, <2>4, <4>2
      <4> QED
        BY <4>1, <4>2, <4>3
    <3>3. /\ PlannedLength(alert, provider, settings, FALSE)
               = Proposed(alert, provider, settings)
          /\ PlannedStatus(alert, provider, settings, FALSE) = "ESCALATED"
      BY <1>2, <2>1 DEF PlannedLength, PlannedStatus, Reach
    <3>4. EndsWith("ESCALATED")'
      BY <1>2, <1>7, <1>8, <3>2, <3>3 DEF EndsWith, Low
    <3>5. PlaceInv'
      BY <3>1, <3>4 DEF PlaceInv
    <3> QED
      BY <1>8, <3>5
  <2> QED
    BY <2>3, <2>4
<1> QED
    BY <1>9, <1>10

\* A mock asks for a failure of the first execution when it is to spoil it.
LEMMA ExecutionDecision ==
    ASSUME TypeOK, provider \in MockProviders, node = "execution",
           NEW failures \in Nat, NEW d \in Decisions(failures)
    PROVE  /\ d.schema_valid /\ d.carrier = candidate_route
           /\ FailsTransiently(d.force, d.attempt) <=>
                  SpoiltExecutions(alert, provider) = 1 /\ failures = 0
<1>1. CASE provider = "mock"
  <2>1. d = MockDecision(node, candidate_route, failures)
    BY <1>1 DEF Decisions, decide_tool_call
  <2> QED
    BY <1>1, <2>1 DEF MockDecision, SpoiltExecutions, FailsTransiently
<1>2. CASE provider = "mock_flaky"
  <2>1. d = FlakyDecision(node, alert, candidate_route, failures)
    BY <1>2 DEF Decisions, decide_tool_call
  <2>2. /\ d.schema_valid /\ d.carrier = candidate_route
        /\ d.force <=> alert.inject.execution
        /\ d.attempt = Attempt(failures)
    BY <2>1 DEF FlakyDecision
  <2> QED
    BY <1>2, <2>2 DEF SpoiltExecutions, FailsTransiently, Attempt
<1> QED
    BY <1>1, <1>2 DEF MockProviders

\* The first execution fails if it is spoilt; the next one, if the ceiling
\* allows it, is confirmed.
LEMMA ExecutionPlaced ==
    ASSUME LastErrorCarried, TypeOK, provider \in MockProviders, FollowsPlan, PlaceInv,
           Execution
    PROVE  FollowsPlan' /\ PlaceInv'
<1> DEFINE n == Len(trajectory)
           ex == retry_counts.execution
           P == Proposed(alert, provider, settings)
           T == Executed(alert, provider, settings)
           e == Executions(alert, provider, settings)
           ceiling == settings.max_retries_execution
           spoilt == SpoiltExecutions(alert, provider)
           choice == ChoiceFor(alert)
           r == retry_of_step("execution")
           error == IF spoilt = 1 /\ ex = 0 THEN "transient" ELSE "none"
<1>1. /\ node = "execution" /\ UNCHANGED inputs
      /\ node' = route_after_execution(last_error', retry_counts'.execution)
      /\ UNCHANGED candidate_route
    BY DEF Execution, Enters, proposal
<1>2. /\ Low /\ Found(alert, provider, settings) /\ Bookable(alert)
      /\ candidate_route = choice /\ n = P + ex /\ n < T
    BY <1>1 DEF PlaceInv
<1>3. /\ n \in Nat /\ ex \in Nat /\ DOMAIN trajectory = 1..n /\ settings \in Settings
      /\ retry_counts \in [carrier_lookup : Nat, route_optimizer : Nat, execution : Nat]
    BY RunNumbers
<1>4. /\ P \in Nat /\ T \in Nat /\ e \in Nat \ {0} /\ T = P + e /\ ceiling \in Nat
      /\ spoilt \in {0, 1} /\ P >= 2
    BY <1>3, PlanNumbers
<1>5. /\ MockStep("execution", error, r, {choice})
      /\ \/ /\ error = "none" /\ ClearLastError /\ UNCHANGED retry_counts
         \/ /\ error # "none" /\ CountFailure("execution")
            /\ SetLastError("execution", error = "transient")
  <2>1. PICK d \in Decisions(ex) :
          /\ add_step("execution", d.tool, CallError(d), r, {d.carrier})
          /\ \/ /\ CallError(d) = "none" /\ ClearLastError /\ UNCHANGED retry_counts
             \/ /\ CallError(d) # "none" /\ CountFailure("execution")
                /\ SetLastError("execution", CallError(d) = "transient")
    BY DEF Execution
  <2>2. provider # "adapter"
    BY DEF MockProviders
  <2>3. d.carrier = choice /\ CallError(d) = error
    BY <1>1, <1>2, <1>3, <2>2, ExecutionDecision, ShippedCall
  <2>4. MockStep("execution", CallError(d), r, {d.carrier})
    BY <1>1, <2>1, MockStepIs DEF ToolNodes
  <2> HIDE DEF r, choice, error
  <2> QED
    BY <2>1, <2>3, <2>4
<1>6. r = IF n + 1 = P + 1 THEN 0 ELSE n
  <2>1. CASE ex = 0
    BY <1>2, <1>3, <1>4, <2>1 DEF retry_of_step
  <2>2. CASE ex > 0
    <3>1. n \in (P + 1)..T /\ n \in 1..n
      BY <1>2, <1>3, <1>4, <2>2
    <3>2. trajectory[n] = PlannedExecution(alert, provider, P + 1, n)
      BY <1>3, <3>1, PlanOfRun DEF FollowsPlan
    <3>3. trajectory[n].node = "execution" /\ trajectory # <<>>
      BY <1>3, <3>1, <3>2 DEF PlannedExecution, StepOf
    <3>4. PreviousStep("execution") = n
      BY <3>3, PreviousIsLast
    <3>5. n + 1 # P + 1
      BY <1>2, <1>3, <1>4, <2>2
    <3> QED
      BY <2>2, <3>4, <3>5 DEF retry_of_step
  <2> QED
    BY <1>3, <2>1, <2>2
<1>7. PlanAt(n + 1) = StepOf("execution", error, r, {choice})
  <2>1. n + 1 \in (P + 1)..T
    BY <1>2, <1>3, <1>4
  <2>2. PlanAt(n + 1) = PlannedExecution(alert, provider, P + 1, n + 1)
    BY <2>1, PlanOfRun
  <2>3. (n + 1 = P + 1) <=> ex = 0
    BY <1>2, <1>3, <1>4
  <2>4. r = IF n + 1 = P + 1 THEN 0 ELSE (n + 1) - 1
    BY <1>3, <1>6
  <2> HIDE DEF n, P, r, ex
  <2> QED
    BY <2>2, <2>3, <2>4 DEF PlannedExecution
<1>8. alert' = alert /\ provider' = provider /\ settings' = settings /\ Low'
    BY <1>1, <1>2 DEF inputs, Low
<1>9. FollowsPlan' /\ Len(trajectory') = n + 1
    BY <1>1, <1>5, <1>7, PlannedStepFollows
<1>10. /\ e = (IF spoilt <= ceiling THEN spoilt + 1 ELSE ceiling + 1)
       /\ Confirmed(alert, provider, settings) <=> spoilt <= ceiling
    BY <1>2 DEF Executions, Confirmed
<1> HIDE DEF n, ex, P, T, e, ceiling, spoilt, choice, r
<1>11. CASE error = "none"
  <2>1. node' = "audit"
    BY <1>1, <1>5, <1>11, LastErrorCarried DEF route_after_execution, ClearLastError, NoError
  <2>2. Confirmed(alert, provider, settings) /\ n + 1 = T
    BY <1>2, <1>3, <1>4, <1>10, <1>11
  <2>3. PlaceInv'
    BY <1>2, <1>8, <1>9, <2>1, <2>2 DEF PlaceInv, T
  <2> QED
    BY <1>9, <2>3
<1>12. CASE error = "transient"
  <2>1. /\ retry_counts'.execution = 1 /\ last_error' = [node |-> "execution", transient |-> TRUE]
        /\ spoilt = 1 /\ ex = 0
    <3>1. spoilt = 1 /\ ex = 0
      BY <1>12
    <3>2. CountFailure("execution") /\ SetLastError("execution", TRUE)
      BY <1>5, <1>12
    <3> QED
      BY <1>3, <3>1, <3>2, LastErrorCarried DEF CountFailure, SetLastError, ex
  <2>2. node' = IF 1 <= ceiling THEN "execution" ELSE "fail_execution"
    BY <1>1, <1>8, <2>1 DEF route_after_execution, ceiling
  <2>3. CASE 1 <= ceiling
    <3>1. n + 1 = P + 1 /\ n + 1 < T
      BY <1>2, <1>3, <1>4, <1>10, <2>1, <2>3
    <3>2. node' = "execution"
      BY <2>2, <2>3
    <3>3. PlaceInv'
      BY <1>1, <1>2, <1>8, <1>9, <2>1, <3>1, <3>2 DEF PlaceInv, P, T, choice
    <3> QED
      BY <1>9, <3>3
  <2>4. CASE ~ (1 <= ceiling)
    <3>1. n + 1 = T /\ ~ Confirmed(alert, provider, settings)
      BY <1>2, <1>3, <1>4, <1>10, <2>1, <2>4
    <3>2. FeasibleFor(alert) # {}
      BY <1>2 DEF Bookable
    <3>3. /\ PlannedLength(alert, provider, settings, FALSE) = T
          /\ PlannedStatus(alert, provider, settings, FALSE) = "FAILED"
      BY <1>2, <3>1, <3>2 DEF PlannedLength, PlannedStatus, Reach, T
    <3>4. EndsWith("FAILED")'
      BY <1>2, <1>8, <1>9, <3>1, <3>3 DEF EndsWith, Low
    <3>5. node' = "fail_execution"
      BY <2>2, <2>4
    <3>6. PlaceInv'
      BY <3>4, <3>5 DEF PlaceInv
    <3> QED
      BY <1>9, <3>6
  <2> QED
    BY <2>3, <2>4
<1> QED
    BY <1>11, <1>12

LEMMA AuditPlaced ==
    ASSUME TypeOK, FollowsPlan, PlaceInv, Audit
    PROVE  FollowsPlan' /\ PlaceInv'
<1> DEFINE n == Len(trajectory)
           T == Executed(alert, provider, settings)
<1>1. /\ node = "audit" /\ node' = "END" /\ final_status' = "SUCCESS"
      /\ MockStep("audit", "none", 0, {}) /\ UNCHANGED inputs
    BY DEF Audit, Enters, MockStep, ToolAt, ToolNodes
<1>2. /\ Low /\ Found(alert, provider, settings)
      /\ Confirmed(alert, provider, settings) /\ n = T
    BY <1>1 DEF PlaceInv
<1>3. FollowsPlan' /\ Len(trajectory') = T + 1
    BY <1>1, <1>2, PlanOfRun, PlannedStepFollows
<1>4. /\ PlannedLength(alert, provider, settings, FALSE) = T + 1
      /\ PlannedStatus(alert, provider, settings, FALSE) = "SUCCESS"
    BY <1>2 DEF PlannedLength, PlannedStatus, Reach, Confirmed, Bookable
<1>5. alert' = alert /\ provider' = provider /\ settings' = settings
    BY <1>1 DEF inputs
<1>6. EndsWith(final_status)'
    BY <1>1, <1>2, <1>3, <1>4, <1>5 DEF EndsWith, Low
<1>7. PlaceInv'
    BY <1>1, <1>6 DEF PlaceInv
<1> QED
    BY <1>3, <1>7

\* A step that records nothing leaves the run where it is, or ends it.
LEMMA EndPlaced ==
    ASSUME FollowsPlan, PlaceInv, UNCHANGED <<inputs, trajectory>>,
           \/ node' \in Exceptions
           \/ /\ node' = "END"
              /\ \/ node = "fail_execution" /\ final_status' = "FAILED"
                 \/ /\ node \in {"escalate_high_risk", "escalate_no_viable_route"}
                    /\ final_status' = "ESCALATED"
    PROVE  FollowsPlan' /\ PlaceInv'
<1>1. alert' = alert /\ provider' = provider /\ settings' = settings
    BY DEF inputs
<1>2. FollowsPlan'
    BY <1>1 DEF FollowsPlan, PlanAt
<1>3. ASSUME NEW status, EndsWith(status)
      PROVE  EndsWith(status)'
    BY <1>1, <1>3 DEF EndsWith
<1>4. CASE node' \in Exceptions
    BY <1>2, <1>4 DEF PlaceInv, Exceptions
<1>5. CASE node' = "END"
  <2>1. EndsWith(final_status')
    BY <1>5 DEF PlaceInv, Exceptions
  <2>2. EndsWith(final_status)'
    BY <1>1, <2>1 DEF EndsWith
  <2> QED
    BY <1>2, <1>5, <2>2 DEF PlaceInv
<1> QED
    BY <1>2, <1>4, <1>5

LEMMA PredictedStep ==
    ASSUME LastErrorCarried
    PROVE  TypeOK /\ PredictedInv /\ [Next]_vars => PredictedInv'
<1> SUFFICES ASSUME TypeOK, PredictedInv, [Next]_vars, provider' \in MockProviders
             PROVE  FollowsPlan' /\ PlaceInv'
    BY DEF PredictedInv
<1>1. provider \in MockProviders /\ FollowsPlan /\ PlaceInv
    BY InputsAreFixed DEF PredictedInv
<1>2. CASE Planner \/ Risk \/ CarrierLookup \/ RouteOptimizer \/ Validator \/ Execution \/ Audit
    BY <1>1, <1>2, LastErrorCarried, PlannerPlaced, RiskPlaced, LookupPlaced, OptimizerPlaced,
       ValidatorPlaced, ExecutionPlaced, AuditPlaced
<1>3. CASE ValidateNothing \/ AuditWriteFails \/ ProviderRaises \/ RecursionAbort
    BY <1>1, <1>3, EndPlaced
       DEF ValidateNothing, AuditWriteFails, ProviderRaises, RecursionAbort, Exceptions
<1>4. CASE EscalateHighRisk \/ EscalateNoViableRoute \/ FailExecution
    BY <1>1, <1>4, EndPlaced
       DEF EscalateHighRisk, EscalateNoViableRoute, FailExecution, Terminal, Enters
<1>5. CASE UNCHANGED vars
    BY <1>1, <1>5 DEF vars, inputs, outcome, proposal, FollowsPlan, PlanAt, PlaceInv, EndsWith, Low
<1>6. ~ ResultIsNoModel
    BY <1>1, ShippedResult DEF MockProviders
<1> QED
    BY <1>2, <1>3, <1>4, <1>5, <1>6 DEF Next, NodeStep, Terminating

\* What a run of a mock that returned did is what was planned.
LEMMA EndIsPredicted ==
    ASSUME TypeOK, PredictedInv
    PROVE  RunsArePredicted
<1> SUFFICES ASSUME node = "END", provider \in MockProviders
             PROVE  \E high \in Highs(alert, settings) :
                      /\ trajectory = Planned(alert, provider, settings, high)
                      /\ final_status = PlannedStatus(alert, provider, settings, high)
    BY DEF RunsArePredicted
<1>1. FollowsPlan /\ EndsWith(final_status)
    BY DEF PredictedInv, PlaceInv
<1>2. PICK high \in Highs(alert, settings) :
        /\ Len(trajectory) = PlannedLength(alert, provider, settings, high)
        /\ final_status = PlannedStatus(alert, provider, settings, high)
    BY <1>1 DEF EndsWith
<1>3. trajectory = [i \in 1..Len(trajectory) |-> trajectory[i]]
    BY DEF TypeOK
<1>4. \A i \in 1..Len(trajectory) : trajectory[i] = PlannedStep(alert, provider, settings, i)
    BY <1>1, RunNumbers DEF FollowsPlan, PlanAt
<1>5. trajectory = Planned(alert, provider, settings, high)
    BY <1>2, <1>3, <1>4 DEF Planned
<1> QED
    BY <1>2, <1>5

\* When _last_error is carried, what a run of a mock does is a function of its
\* alert, its provider and its settings: the steps it takes, the errors and the
\* retries among them, and the status it ends with.
THEOREM MocksArePredictable ==
    ASSUME LastErrorCarried
    PROVE  Spec => []RunsArePredicted
<1> QED
    BY LastErrorCarried, InitType, StepType, PredictedInit, PredictedStep, EndIsPredicted,
       PTL DEF Spec

-----------------------------------------------------------------------------
(* The coherence of a planned run.                                         *)

\* Where the comparison of plan_coherence finds the nodes it compares.
Actual(t) == {i \in collapsed_node_sequence(t) : t[i].node # "planner"}

LEMMA PlannedNodes ==
    ASSUME NEW a, NEW p, NEW s, NEW i
    PROVE  PlannedStep(a, p, s, i).node =
              IF i = 1 THEN "planner"
              ELSE IF i = 2 THEN "risk"
              ELSE IF i <= LookedUp(a, p, s) THEN "carrier_lookup"
              ELSE IF i <= Proposed(a, p, s)
                   THEN IF (i - LookedUp(a, p, s)) % 2 = 1 THEN "route_optimizer"
                                                          ELSE "validator"
              ELSE IF i <= Executed(a, p, s) THEN "execution" ELSE "audit"
BY Zenon DEF PlannedStep, PlannedLookup, PlannedProposal, PlannedExecution, StepOf

\* How many steps a planned run takes, by the stage it reaches.
LEMMA PlanReaches ==
    ASSUME NEW a, NEW p, NEW s, NEW high
    PROVE  \/ /\ PlannedLength(a, p, s, high) = 2
              /\ Reach(a, p, s, high) = 1
           \/ /\ PlannedLength(a, p, s, high) = LookedUp(a, p, s)
              /\ Reach(a, p, s, high) = 2
           \/ /\ PlannedLength(a, p, s, high) = LookedUp(a, p, s) + 1
              /\ Reach(a, p, s, high) = 3
           \/ /\ PlannedLength(a, p, s, high) = Proposed(a, p, s)
              /\ Reach(a, p, s, high) = 4
           \/ /\ PlannedLength(a, p, s, high) = Executed(a, p, s)
              /\ Reach(a, p, s, high) = 5 /\ Bookable(a)
           \/ /\ PlannedLength(a, p, s, high) = Executed(a, p, s) + 1
              /\ Reach(a, p, s, high) = 6 /\ Bookable(a)
<1> DEFINE r == Reach(a, p, s, high)
<1>1. /\ r \in {1, 2, 3, 4, 5, 6}
      /\ r \in {5, 6} => Bookable(a)
    BY DEF Reach
<1>2. CASE r = 1
    BY <1>2 DEF PlannedLength
<1>3. CASE r = 2
    BY <1>3 DEF PlannedLength
<1>4. CASE r = 3
    BY <1>4 DEF PlannedLength
<1>5. CASE r = 4
    BY <1>5 DEF PlannedLength
<1>6. CASE r = 5
    BY <1>1, <1>6 DEF PlannedLength
<1>7. CASE r = 6
    BY <1>1, <1>7 DEF PlannedLength
<1> QED
    BY <1>1, <1>2, <1>3, <1>4, <1>5, <1>6, <1>7

\* A step starts a stage if it is the first of its kind, or one of the
\* alternating proposals and validations.
Boundary(N, L, P, T, i) ==
    /\ i \in 1..N
    /\ \/ i = 2 \/ i = 3
       \/ L + 1 <= i /\ i <= P + 1
       \/ i = T + 1

LEMMA StageBoundaries ==
    ASSUME NEW t, NEW N \in Nat, NEW L \in Nat, NEW P \in Nat, NEW T \in Nat,
           L >= 3, P >= L + 2, T >= P + 1, DOMAIN t = 1..N,
           \A i \in 1..N : t[i].node =
               IF i = 1 THEN "planner"
               ELSE IF i = 2 THEN "risk"
               ELSE IF i <= L THEN "carrier_lookup"
               ELSE IF i <= P
                    THEN IF (i - L) % 2 = 1 THEN "route_optimizer" ELSE "validator"
               ELSE IF i <= T THEN "execution" ELSE "audit"
    PROVE  \A i : i \in Actual(t) <=> Boundary(N, L, P, T, i)
<1> DEFINE name(i) == IF i = 1 THEN "planner"
                      ELSE IF i = 2 THEN "risk"
                      ELSE IF i <= L THEN "carrier_lookup"
                      ELSE IF i <= P
                           THEN IF (i - L) % 2 = 1 THEN "route_optimizer" ELSE "validator"
                      ELSE IF i <= T THEN "execution" ELSE "audit"
<1>6. ASSUME NEW i \in 1..N
      PROVE  (i = 1 \/ t[i - 1].node # t[i].node) /\ t[i].node # "planner"
                <=> \/ i = 2 \/ i = 3 \/ (L + 1 <= i /\ i <= P + 1) \/ i = T + 1
  <2>1. t[i].node = name(i) /\ (i # 1 => t[i - 1].node = name(i - 1))
    <3>1. i # 1 => i - 1 \in 1..N
      OBVIOUS
    <3> QED
      BY <3>1
  <2>2. CASE i \in {1, 2, 3}
    BY <2>1, <2>2
  <2>3. CASE i > 3 /\ i <= L + 1
    BY <2>1, <2>3
  <2>4. CASE i > L + 1 /\ i <= P
    <3>1. (i - L) % 2 = 1 <=> (i - 1 - L) % 2 # 1
      OBVIOUS
    <3>2. name(i) # name(i - 1)
      BY <2>4, <3>1
    <3> QED
      BY <2>1, <2>4, <3>2
  <2>5. CASE i > P
    BY <2>1, <2>5
  <2> QED
    BY <2>2, <2>3, <2>4, <2>5
<1>7. ASSUME NEW i
      PROVE  i \in Actual(t) <=>
                i \in 1..N /\ (i = 1 \/ t[i - 1].node # t[i].node) /\ t[i].node # "planner"
    BY Zenon DEF Actual, collapsed_node_sequence
<1>8. ASSUME NEW i
      PROVE  i \in Actual(t) <=> Boundary(N, L, P, T, i)
  <2>1. CASE i \in 1..N
    BY <1>6, <1>7, <2>1 DEF Boundary
  <2>2. CASE i \notin 1..N
    BY Zenon, <1>7, <2>2 DEF Boundary
  <2> QED
    BY <2>1, <2>2
<1> QED
    BY Zenon, <1>8

LEMMA PlannedStarts ==
    ASSUME NEW a, NEW p, NEW s \in Settings, NEW high
    PROVE  /\ PlannedLength(a, p, s, high) \in Nat
           /\ \A i : i \in Actual(Planned(a, p, s, high)) <=>
                Boundary(PlannedLength(a, p, s, high), LookedUp(a, p, s),
                         Proposed(a, p, s), Executed(a, p, s), i)
<1>1. PICK l \in Nat \ {0}, o \in Nat \ {0}, e \in Nat \ {0} :
        /\ LookedUp(a, p, s) = 2 + l
        /\ Proposed(a, p, s) = LookedUp(a, p, s) + 2 * o
        /\ Executed(a, p, s) = Proposed(a, p, s) + e
    BY PlanNumbers
<1>2. /\ LookedUp(a, p, s) \in Nat /\ Proposed(a, p, s) \in Nat
      /\ Executed(a, p, s) \in Nat /\ LookedUp(a, p, s) >= 3
      /\ Proposed(a, p, s) >= LookedUp(a, p, s) + 2
      /\ Executed(a, p, s) >= Proposed(a, p, s) + 1
    BY <1>1
<1>3. PlannedLength(a, p, s, high) \in Nat
    BY <1>2, PlanReaches
<1>4. /\ DOMAIN Planned(a, p, s, high) = 1..PlannedLength(a, p, s, high)
      /\ \A i \in 1..PlannedLength(a, p, s, high) :
            Planned(a, p, s, high)[i].node =
              IF i = 1 THEN "planner"
              ELSE IF i = 2 THEN "risk"
              ELSE IF i <= LookedUp(a, p, s) THEN "carrier_lookup"
              ELSE IF i <= Proposed(a, p, s)
                   THEN IF (i - LookedUp(a, p, s)) % 2 = 1 THEN "route_optimizer"
                                                          ELSE "validator"
              ELSE IF i <= Executed(a, p, s) THEN "execution" ELSE "audit"
    BY PlannedNodes DEF Planned
<1> QED
    BY Zenon, <1>2, <1>3, <1>4, StageBoundaries

\* i is the k-th of the positions in A.
IsPlace(A, i, k) == i \in A /\ Cardinality({j \in A : j <= i}) = k

PlacesInOrder(A, N, L, P, T) ==
    /\ 2 <= N => IsPlace(A, 2, 1)
    /\ L <= N => IsPlace(A, 3, 2)
    /\ L + 1 <= N => IsPlace(A, L + 1, 3)
    /\ L + 2 <= N => IsPlace(A, L + 2, 4)
    /\ P = L + 2 /\ L + 3 <= N => IsPlace(A, L + 3, 5)
    /\ P = L + 2 /\ T + 1 <= N => IsPlace(A, T + 1, 6)

\* The places of the first starts are counted by hand: the planner's step is
\* not among them, and the last two of them are only places of runs that have
\* validated one proposal.
LEMMA FirstStarts ==
    ASSUME NEW A, NEW N \in Nat, NEW L \in Nat, NEW P \in Nat, NEW T \in Nat,
           L >= 3, P >= L + 2, T >= P + 1,
           \A i : i \in A <=> Boundary(N, L, P, T, i)
    PROVE  PlacesInOrder(A, N, L, P, T)
<1> DEFINE B1 == {} \cup {2}
           B2 == B1 \cup {3}
           B3 == B2 \cup {L + 1}
           B4 == B3 \cup {L + 2}
           B5 == B4 \cup {L + 3}
           B6 == B5 \cup {T + 1}
<1>1. /\ 3 \notin B1 /\ L + 1 \notin B2 /\ L + 2 \notin B3 /\ L + 3 \notin B4
      /\ P = L + 2 => T + 1 \notin B5
    OBVIOUS
<1>2. IsFiniteSet({}) /\ Cardinality({}) = 0
    BY FS_EmptySet
<1>3. IsFiniteSet(B1) /\ Cardinality(B1) = 1
    BY <1>2, FS_AddElement
<1>4. IsFiniteSet(B2) /\ Cardinality(B2) = 2
    BY <1>1, <1>3, FS_AddElement
<1>5. IsFiniteSet(B3) /\ Cardinality(B3) = 3
    BY <1>1, <1>4, FS_AddElement
<1>6. IsFiniteSet(B4) /\ Cardinality(B4) = 4
    BY <1>1, <1>5, FS_AddElement
<1>7. IsFiniteSet(B5) /\ Cardinality(B5) = 5
    BY <1>1, <1>6, FS_AddElement
<1>8. P = L + 2 => Cardinality(B6) = 6
    BY <1>1, <1>7, FS_AddElement
<1>9. 2 <= N => 2 \in A /\ {j \in A : j <= 2} = B1
    BY DEF Boundary
<1>10. L <= N => 3 \in A /\ {j \in A : j <= 3} = B2
    BY DEF Boundary
<1>11. L + 1 <= N => L + 1 \in A /\ {j \in A : j <= L + 1} = B3
    BY DEF Boundary
<1>12. L + 2 <= N => L + 2 \in A /\ {j \in A : j <= L + 2} = B4
    BY DEF Boundary
<1>13. P = L + 2 /\ L + 3 <= N => L + 3 \in A /\ {j \in A : j <= L + 3} = B5
    BY DEF Boundary
<1>14. P = L + 2 /\ T + 1 <= N => T + 1 \in A /\ {j \in A : j <= T + 1} = B6
    BY DEF Boundary
<1> HIDE DEF B1, B2, B3, B4, B5, B6
<1> QED
    BY <1>3, <1>4, <1>5, <1>6, <1>7, <1>8, <1>9, <1>10, <1>11, <1>12, <1>13, <1>14
       DEF PlacesInOrder, IsPlace

\* Up to the stage it reaches, a planned run is in the places of the full
\* order, however often it retried.
LEMMA PlannedPlaces ==
    ASSUME NEW a, NEW p, NEW s \in Settings, NEW high,
           NEW k, k \in 1..Reach(a, p, s, high)
    PROVE  \E i : /\ IsPlace(Actual(Planned(a, p, s, high)), i, k)
                  /\ Planned(a, p, s, high)[i].node = FullOrder[k]
<1> DEFINE A == Actual(Planned(a, p, s, high))
           N == PlannedLength(a, p, s, high)
           L == LookedUp(a, p, s)
           P == Proposed(a, p, s)
           T == Executed(a, p, s)
           node_at(i) == Planned(a, p, s, high)[i].node
<1>1. /\ L \in Nat /\ P \in Nat /\ T \in Nat
      /\ L >= 3 /\ P >= L + 2 /\ T >= P + 1
      /\ Bookable(a) => P = L + 2
  <2>1. PICK l \in Nat \ {0}, o \in Nat \ {0}, e \in Nat \ {0} :
          L = 2 + l /\ P = L + 2 * o /\ T = P + e
      BY PlanNumbers
  <2>2. Bookable(a) => P = L + 2
      BY <2>1 DEF Proposed, Proposals
  <2> QED
      BY <2>1, <2>2
<1>2. N \in Nat /\ \A i : i \in A <=> Boundary(N, L, P, T, i)
    BY Zenon, PlannedStarts
<1>3. PlacesInOrder(A, N, L, P, T)
    BY Zenon, <1>1, <1>2, FirstStarts
<1>4. /\ k \in {1, 2, 3, 4, 5, 6} /\ k <= Reach(a, p, s, high)
      /\ k >= 5 => Bookable(a)
    BY PlanReaches
<1>5. /\ N >= 2
      /\ k >= 2 => N >= L
      /\ k >= 3 => N >= L + 1
      /\ k >= 4 => N >= L + 2
      /\ k >= 5 => N >= L + 3
      /\ k >= 6 => N >= T + 1
    BY <1>1, <1>4, PlanReaches
<1>6. \A i \in 1..N : node_at(i) =
              IF i = 1 THEN "planner"
              ELSE IF i = 2 THEN "risk"
              ELSE IF i <= L THEN "carrier_lookup"
              ELSE IF i <= P
                   THEN IF (i - L) % 2 = 1 THEN "route_optimizer" ELSE "validator"
              ELSE IF i <= T THEN "execution" ELSE "audit"
    BY PlannedNodes DEF Planned
<1> SUFFICES \E i : IsPlace(A, i, k) /\ node_at(i) = FullOrder[k]
    OBVIOUS
<1> HIDE DEF A, N, L, P, T, node_at
<1>7. CASE k = 1
  <2>1. IsPlace(A, 2, k)
    BY <1>3, <1>5, <1>7 DEF PlacesInOrder
  <2>2. node_at(2) = FullOrder[k]
    BY <1>1, <1>2, <1>4, <1>5, <1>6, <1>7 DEF FullOrder
  <2> QED
    BY <2>1, <2>2
<1>8. CASE k = 2
  <2>1. IsPlace(A, 3, k)
    BY <1>3, <1>1, <1>5, <1>8 DEF PlacesInOrder
  <2>2. node_at(3) = FullOrder[k]
    BY <1>1, <1>2, <1>4, <1>5, <1>6, <1>8 DEF FullOrder
  <2> QED
    BY <2>1, <2>2
<1>9. CASE k = 3
  <2>1. IsPlace(A, L + 1, k)
    BY <1>3, <1>1, <1>5, <1>9 DEF PlacesInOrder
  <2>2. node_at(L + 1) = FullOrder[k]
    BY <1>1, <1>2, <1>4, <1>5, <1>6, <1>9 DEF FullOrder
  <2> QED
    BY <2>1, <2>2
<1>10. CASE k = 4
  <2>1. IsPlace(A, L + 2, k)
    BY <1>3, <1>1, <1>5, <1>10 DEF PlacesInOrder
  <2>2. node_at(L + 2) = FullOrder[k]
    BY <1>1, <1>2, <1>4, <1>5, <1>6, <1>10 DEF FullOrder
  <2> QED
    BY <2>1, <2>2
<1>11. CASE k = 5
  <2>1. IsPlace(A, L + 3, k)
    BY <1>3, <1>1, <1>4, <1>5, <1>11 DEF PlacesInOrder
  <2>2. node_at(L + 3) = FullOrder[k]
    BY <1>1, <1>2, <1>4, <1>5, <1>6, <1>11 DEF FullOrder
  <2> QED
    BY <2>1, <2>2
<1>12. CASE k = 6
  <2>1. IsPlace(A, T + 1, k)
    BY <1>3, <1>1, <1>4, <1>5, <1>12 DEF PlacesInOrder
  <2>2. node_at(T + 1) = FullOrder[k]
    BY <1>1, <1>2, <1>4, <1>5, <1>6, <1>12 DEF FullOrder
  <2> QED
    BY <2>1, <2>2
<1> QED
    BY <1>4, <1>7, <1>8, <1>9, <1>10, <1>11, <1>12

\* A run that is in all places of the order its scenario expects is coherent.
FollowsOrder(t, order) ==
    \A k \in DOMAIN order : \E i : IsPlace(Actual(t), i, k) /\ t[i].node = order[k]

LEMMA FullMarksForPlaces ==
    ASSUME NEW t, NEW truth, truth \in Truth, FollowsOrder(t, truth.order)
    PROVE  plan_coherence(t, truth) = 1000
<1> DEFINE n == Len(truth.order)
           place(i) == Cardinality({j \in Actual(t) : j <= i})
           matches == {k \in DOMAIN truth.order :
                          \E i \in Actual(t) : place(i) = k /\ t[i].node = truth.order[k]}
<1>1. truth.order \in Seq(ToolNodes \cup {"audit"})
    BY DEF Truth
<1>2. n \in Nat /\ DOMAIN truth.order = 1..n /\ (truth.order # <<>> => n # 0)
    BY <1>1
<1>3. plan_coherence(t, truth) =
        IF truth.order = <<>> THEN 1000 ELSE Ratio(Cardinality(matches), n)
    BY DEF plan_coherence, Actual
<1>4. matches = 1..n
    BY Zenon, <1>2 DEF FollowsOrder, IsPlace
<1>5. Cardinality(1..n) = n
    BY <1>2, FS_Interval
<1>6. n # 0 => Ratio(n, n) = 1000
    BY <1>2, ShareIsMetric
<1> HIDE DEF matches, n
<1> QED
    BY <1>2, <1>3, <1>4, <1>5, <1>6

\* A stub raises before its run has taken a step.
StubInv == provider \in StubProviders => node \in {"planner"} \cup Exceptions

LEMMA StubStep == StubInv /\ [Next]_vars => StubInv'
<1> SUFFICES ASSUME StubInv, [Next]_vars
             PROVE  StubInv'
    OBVIOUS
<1>1. CASE Planner
    BY <1>1 DEF Planner, inputs, StubInv
<1>2. CASE Risk \/ CarrierLookup \/ RouteOptimizer \/ Validator \/ ValidateNothing
           \/ Execution \/ Audit \/ AuditWriteFails
  <2>1. node \notin {"planner"} \cup Exceptions /\ UNCHANGED provider
    BY <1>2 DEF Risk, CarrierLookup, RouteOptimizer, Validator, ValidateNothing, Execution,
                Audit, AuditWriteFails, Enters, Exceptions, inputs
  <2> QED
    BY <2>1 DEF StubInv
<1>3. CASE EscalateHighRisk \/ EscalateNoViableRoute \/ FailExecution
  <2>1. node \notin {"planner"} \cup Exceptions /\ UNCHANGED provider
    BY <1>3 DEF EscalateHighRisk, EscalateNoViableRoute, FailExecution, Terminal, Enters,
                Exceptions, inputs
  <2> QED
    BY <2>1 DEF StubInv
<1>4. CASE ProviderRaises \/ RecursionAbort
    BY <1>4 DEF ProviderRaises, RecursionAbort, Exceptions, StubInv
<1>5. CASE Terminating \/ UNCHANGED vars
    BY <1>5 DEF Terminating, vars, inputs, StubInv
<1>6. CASE ResultIsNoModel
    BY <1>6 DEF ResultIsNoModel, Exceptions, StubInv
<1> QED
    BY <1>1, <1>2, <1>3, <1>4, <1>5, <1>6 DEF Next, NodeStep

\* Where scenarios are written for the graph and the fixture, a run of a shipped
\* provider that ends as its scenario expects gets full marks for its plan,
\* whatever it retried on the way.
THEOREM ShippedRunsAreCoherent ==
    ASSUME LastErrorCarried, OrdersAreOfTheGraph
    PROVE  Spec => [](provider # "adapter" => ExpectedRunsAreCoherent)
<1>1. ASSUME TypeOK, RunsArePredicted, provider \in MockProviders,
             node = "END", final_status = ground_truth.status
      PROVE  plan_coherence(trajectory, ground_truth) = 1000
  <2>1. /\ alert \in Alerts /\ provider \in MockProviders \cap RunProviders
        /\ settings \in SettingsSpace /\ settings \in Settings
      BY <1>1, InputAssumption DEF TypeOK, InputAssumption
  <2>2. PICK high \in Highs(alert, settings) :
          /\ trajectory = Planned(alert, provider, settings, high)
          /\ final_status = PlannedStatus(alert, provider, settings, high)
      BY <1>1 DEF RunsArePredicted
  <2>3. ground_truth = GroundTruth[alert] /\ ground_truth \in Truth
      BY <2>1, GroundTruthAssumption DEF GroundTruthAssumption, ground_truth
  <2>4. \A k \in DOMAIN ground_truth.order :
          k <= Reach(alert, provider, settings, high) /\ ground_truth.order[k] = FullOrder[k]
      BY <1>1, <2>1, <2>2, <2>3, OrdersAreOfTheGraph DEF OrdersAreOfTheGraph
  <2>5. ASSUME NEW k \in DOMAIN ground_truth.order
        PROVE  \E i : /\ IsPlace(Actual(trajectory), i, k)
                      /\ trajectory[i].node = ground_truth.order[k]
    <3>1. k \in 1..Reach(alert, provider, settings, high)
      <4>1. ground_truth.order \in Seq(ToolNodes \cup {"audit"})
        BY <2>3 DEF Truth
      <4>2. k \in Nat /\ k >= 1
        BY <4>1
      <4> QED
        BY <2>4, <4>2, PlanReaches
    <3> QED
      BY <2>1, <2>2, <2>4, <3>1, PlannedPlaces
  <2>6. FollowsOrder(trajectory, ground_truth.order)
    BY <2>5 DEF FollowsOrder
  <2> QED
    BY <2>3, <2>6, FullMarksForPlaces
<1>2. TypeOK /\ RunsArePredicted /\ StubInv =>
        (provider # "adapter" => ExpectedRunsAreCoherent)
  <2> SUFFICES ASSUME TypeOK, RunsArePredicted, StubInv, provider # "adapter",
                      node = "END", final_status = ground_truth.status
               PROVE  plan_coherence(trajectory, ground_truth) = 1000
    BY DEF ExpectedRunsAreCoherent
  <2>1. provider \in MockProviders
    BY InputAssumption DEF InputAssumption, StubInv, TypeOK, Providers, Exceptions
  <2> QED
    BY <1>1, <2>1
<1>3. Init => StubInv
    BY DEF Init, StubInv
<1> QED
    BY <1>2, <1>3, StubStep, LastErrorCarried, TypeCorrect, MocksArePredictable, PTL DEF Spec

\* The latency of a run is a number.
LEMMA LatencyIsNumber ==
    ASSUME TypeOK
    PROVE  total_latency_ms(trajectory) \in Nat
<1> DEFINE count(n) == Cardinality({i \in DOMAIN trajectory : trajectory[i].node = n})
<1>1. DOMAIN trajectory = 1..Len(trajectory) /\ Len(trajectory) \in Nat
    BY DEF TypeOK
<1>2. IsFiniteSet(DOMAIN trajectory)
    BY <1>1, FS_Interval
<1>3. \A n : count(n) \in Nat
  <2> TAKE n
  <2>1. {i \in DOMAIN trajectory : trajectory[i].node = n} \subseteq DOMAIN trajectory
    OBVIOUS
  <2> QED
    BY <1>2, <2>1, FS_Subset, FS_CardinalityType
<1>4. total_latency_ms(trajectory) =
        120 * count("planner") + 90 * count("risk") + 150 * count("carrier_lookup")
        + 180 * count("route_optimizer") + 80 * count("validator") + 200 * count("execution")
        + 60 * count("audit")
  <2>1. total_latency_ms(trajectory) =
          SYNTHETIC_LATENCY_MS["planner"] * count("planner")
          + SYNTHETIC_LATENCY_MS["risk"] * count("risk")
          + SYNTHETIC_LATENCY_MS["carrier_lookup"] * count("carrier_lookup")
          + SYNTHETIC_LATENCY_MS["route_optimizer"] * count("route_optimizer")
          + SYNTHETIC_LATENCY_MS["validator"] * count("validator")
          + SYNTHETIC_LATENCY_MS["execution"] * count("execution")
          + SYNTHETIC_LATENCY_MS["audit"] * count("audit")
    BY Zenon DEF total_latency_ms
  <2> HIDE DEF count
  <2> QED
    BY <2>1 DEF SYNTHETIC_LATENCY_MS
<1> HIDE DEF count
<1> QED
    BY <1>3, <1>4

-----------------------------------------------------------------------------
(* Ranks.                                                                  *)

\* <<x, y>> in R says that x does not come after y.
TotalOrder(S, R) ==
    /\ \A x \in S : <<x, x>> \in R
    /\ \A x, y \in S : <<x, y>> \in R \/ <<y, x>> \in R
    /\ \A x, y \in S : <<x, y>> \in R /\ <<y, x>> \in R => x = y
    /\ \A x, y, z \in S : <<x, y>> \in R /\ <<y, z>> \in R => <<x, z>> \in R

UpTo(S, R, x) == {y \in S : <<y, x>> \in R}
Rank(S, R, x) == Cardinality(UpTo(S, R, x))

\* What comes later has the higher rank.
LEMMA RanksFollow ==
    ASSUME NEW S, IsFiniteSet(S), NEW R, TotalOrder(S, R), NEW x \in S, NEW y \in S
    PROVE  /\ Rank(S, R, x) \in 1..Cardinality(S)
           /\ <<x, y>> \in R <=> Rank(S, R, x) <= Rank(S, R, y)
           /\ Rank(S, R, x) = Rank(S, R, y) => x = y
<1>1. ASSUME NEW u \in S
      PROVE  /\ IsFiniteSet(UpTo(S, R, u)) /\ Rank(S, R, u) \in Nat
             /\ Rank(S, R, u) <= Cardinality(S) /\ Rank(S, R, u) # 0
  <2>1. UpTo(S, R, u) \subseteq S /\ u \in UpTo(S, R, u)
    BY DEF UpTo, TotalOrder
  <2> QED
    BY <2>1, FS_Subset, FS_CardinalityType, FS_EmptySet DEF Rank
<1>2. ASSUME NEW u \in S, NEW v \in S, u # v, <<u, v>> \in R
      PROVE  Rank(S, R, u) < Rank(S, R, v)
  <2>1. <<v, u>> \notin R
    BY <1>2 DEF TotalOrder
  <2>2. UpTo(S, R, u) \subseteq UpTo(S, R, v)
    BY <1>2 DEF UpTo, TotalOrder
  <2>3. v \in UpTo(S, R, v) /\ v \notin UpTo(S, R, u)
    BY <2>1 DEF UpTo, TotalOrder
  <2>4. /\ Cardinality(UpTo(S, R, u)) <= Cardinality(UpTo(S, R, v))
        /\ Cardinality(UpTo(S, R, u)) # Cardinality(UpTo(S, R, v))
    BY <1>1, <2>2, <2>3, FS_Subset
  <2> QED
    BY <1>1, <2>4 DEF Rank
<1>3. Cardinality(S) \in Nat
    BY FS_CardinalityType
<1>4. CASE x = y
    BY <1>1, <1>3, <1>4 DEF TotalOrder
<1>5. CASE x # y /\ <<x, y>> \in R
    BY <1>1, <1>2, <1>3, <1>5
<1>6. CASE x # y /\ <<x, y>> \notin R
  <2>1. <<y, x>> \in R
    BY <1>6 DEF TotalOrder
  <2> QED
    BY <1>1, <1>2, <1>3, <1>6, <2>1
<1> QED
    BY <1>4, <1>5, <1>6

\* No rank is left out.
LEMMA RanksAreTaken ==
    ASSUME NEW S, IsFiniteSet(S), NEW R, TotalOrder(S, R)
    PROVE  \A n \in 1..Cardinality(S) : \E x \in S : Rank(S, R, x) = n
<1> DEFINE f == [x \in S |-> Rank(S, R, x)]
           T == 1..Cardinality(S)
<1>1. Cardinality(S) \in Nat
    BY FS_CardinalityType
<1>2. IsFiniteSet(T) /\ Cardinality(T) = Cardinality(S)
    BY <1>1, FS_Interval
<1> HIDE DEF T
<1>3. \A x \in S : Rank(S, R, x) \in T
    BY RanksFollow DEF T
<1>4. \A x, y \in S : Rank(S, R, x) = Rank(S, R, y) => x = y
    BY RanksFollow
<1>5. f \in Injection(S, T)
    BY <1>3, <1>4 DEF Injection, IsInjective
<1> HIDE DEF f
<1>6. f \in Surjection(S, T)
    BY <1>2, <1>5, FS_Injection
<1>7. \A n \in T : \E x \in S : f[x] = n
    BY <1>6 DEF Surjection
<1> QED
    BY <1>7 DEF f, T

\* At most as many elements as there are ranks left come after one.
LEMMA FewComeAfter ==
    ASSUME NEW S, IsFiniteSet(S), NEW R, TotalOrder(S, R), NEW x \in S,
           NEW T, T \subseteq S, \A y \in T : <<y, x>> \notin R
    PROVE  /\ Cardinality(T) \in Nat
           /\ Cardinality(T) <= Cardinality(S) - Rank(S, R, x)
<1>1. IsFiniteSet(T) /\ IsFiniteSet(UpTo(S, R, x)) /\ UpTo(S, R, x) \cap T = {}
    BY FS_Subset DEF UpTo
<1>2. /\ IsFiniteSet(UpTo(S, R, x) \cup T)
      /\ Cardinality(UpTo(S, R, x) \cup T)
            = Cardinality(UpTo(S, R, x)) + Cardinality(T) - Cardinality(UpTo(S, R, x) \cap T)
    BY <1>1, FS_Union
<1>3. Cardinality(UpTo(S, R, x) \cup T) <= Cardinality(S)
  <2>1. UpTo(S, R, x) \cup T \subseteq S
    BY DEF UpTo
  <2> QED
    BY <2>1, FS_Subset
<1>4. Cardinality(UpTo(S, R, x) \cap T) = 0
    BY <1>1, FS_EmptySet
<1>5. /\ Cardinality(T) \in Nat /\ Cardinality(S) \in Nat
      /\ Cardinality(UpTo(S, R, x)) \in Nat
    BY <1>1, FS_CardinalityType
<1> QED
    BY <1>2, <1>3, <1>4, <1>5 DEF Rank

-----------------------------------------------------------------------------
(* What the faults of the flaky mock cost.  Its plan holds that of the other *)
(* mock, and the calls that failed besides.                                  *)


\* The node at position i of a plan whose last lookup, validation and execution
\* are at L, P and T.
NodeAt(L, P, T, i) ==
    IF i = 1 THEN "planner"
    ELSE IF i = 2 THEN "risk"
    ELSE IF i <= L THEN "carrier_lookup"
    ELSE IF i <= P THEN IF (i - L) % 2 = 1 THEN "route_optimizer" ELSE "validator"
    ELSE IF i <= T THEN "execution" ELSE "audit"

\* f finds every step of t again in u: at the same node, in the same order, and
\* the starts of u are those of t.
Embeds(f, t, u) ==
    /\ f \in [DOMAIN t -> DOMAIN u]
    /\ \A i \in DOMAIN t : u[f[i]].node = t[i].node
    /\ \A i, j \in DOMAIN t : i < j => f[i] < f[j]
    /\ \A i \in DOMAIN t : i \in Actual(t) <=> f[i] \in Actual(u)
    /\ \A j \in Actual(u) : \E i \in Actual(t) : f[i] = j

\* Where the step at position i of a plan is found when there are d more lookups
\* and e more lookups and executions.
Shift(L, P, d, e, i) == IF i <= L THEN i ELSE IF i <= P + 1 THEN i + d ELSE i + e

\* The plans of lengths N and M end at the same stage.
EndAlike(N, M, L, P, T, d, e) ==
    \/ N = M /\ N <= L
    \/ N = P /\ M = P + d
    \/ N = T + 1 /\ M = T + e + 1

\* What shifting does to the position i, and which position j is reached by it.
ShiftsTo(N, M, L, P, T, d, e, i, j) ==
    /\ j = Shift(L, P, d, e, i)
    /\ j \in 1..M
    /\ NodeAt(L + d, P + d, T + e, j) = NodeAt(L, P, T, i)
    /\ \A k \in 1..N : i < k => j < Shift(L, P, d, e, k)
    /\ Boundary(N, L, P, T, i) <=> Boundary(M, L + d, P + d, T + e, j)

\* Shifting finds each step at its node, in order, and starts where starts are.
LEMMA ShiftedPosition ==
    ASSUME NEW N \in Nat, NEW M \in Nat, NEW L \in Nat, NEW P \in Nat, NEW T \in Nat,
           NEW d \in Nat, NEW e \in Nat,
           L >= 3, P >= L + 2, T >= P + 1, d <= e, EndAlike(N, M, L, P, T, d, e)
    PROVE  \A i \in 1..N : ShiftsTo(N, M, L, P, T, d, e, i, Shift(L, P, d, e, i))
<1> SUFFICES ASSUME NEW i \in 1..N
             PROVE  ShiftsTo(N, M, L, P, T, d, e, i, Shift(L, P, d, e, i))
    OBVIOUS
<1>1. Shift(L, P, d, e, i) \in 1..M
    BY DEF Shift, EndAlike
<1>2. NodeAt(L + d, P + d, T + e, Shift(L, P, d, e, i)) = NodeAt(L, P, T, i)
  <2>1. CASE i <= L
    BY <2>1 DEF Shift, NodeAt
  <2>2. CASE i > L /\ i <= P
    <3>1. (i + d) - (L + d) = i - L
      BY <2>2
    <3>2. /\ Shift(L, P, d, e, i) = i + d /\ i + d > L + d /\ i + d <= P + d
          /\ i > 2 /\ i + d > 2
      BY <2>2 DEF Shift
    <3> QED
      BY <2>2, <3>1, <3>2 DEF NodeAt
  <2>3. CASE i > P /\ i <= T
    BY <2>3 DEF Shift, NodeAt
  <2>4. CASE i > T
    BY <2>4 DEF Shift, NodeAt
  <2> QED
    BY <2>1, <2>2, <2>3, <2>4
<1>3. \A j \in 1..N : i < j => Shift(L, P, d, e, i) < Shift(L, P, d, e, j)
    BY DEF Shift
<1>4. Boundary(N, L, P, T, i) <=> Boundary(M, L + d, P + d, T + e, Shift(L, P, d, e, i))
    BY <1>1 DEF Shift, EndAlike, Boundary
<1> QED
    BY <1>1, <1>2, <1>3, <1>4 DEF ShiftsTo

\* Every start of the second plan is the shifted one of the first.
ShiftReaches(N, M, L, P, T, d, e) ==
    \A j : Boundary(M, L + d, P + d, T + e, j) =>
        \E i \in 1..N : Boundary(N, L, P, T, i) /\ Shift(L, P, d, e, i) = j

LEMMA ShiftedBoundary ==
    ASSUME NEW N \in Nat, NEW M \in Nat, NEW L \in Nat, NEW P \in Nat, NEW T \in Nat,
           NEW d \in Nat, NEW e \in Nat,
           L >= 3, P >= L + 2, T >= P + 1, d <= e, EndAlike(N, M, L, P, T, d, e)
    PROVE  ShiftReaches(N, M, L, P, T, d, e)
<1> SUFFICES ASSUME NEW j, Boundary(M, L + d, P + d, T + e, j)
             PROVE  \E i \in 1..N : Boundary(N, L, P, T, i) /\ Shift(L, P, d, e, i) = j
    BY DEF ShiftReaches
<1>1. CASE j \in {2, 3}
  <2>1. Boundary(N, L, P, T, j) /\ Shift(L, P, d, e, j) = j
    BY <1>1 DEF Boundary, EndAlike, Shift
  <2> QED
    BY <2>1 DEF Boundary
<1>2. CASE L + d + 1 <= j /\ j <= P + d + 1 /\ j \in 1..M
  <2>1. Boundary(N, L, P, T, j - d) /\ Shift(L, P, d, e, j - d) = j
    BY <1>2 DEF Boundary, EndAlike, Shift
  <2> QED
    BY <2>1 DEF Boundary
<1>3. CASE j = T + e + 1 /\ j \in 1..M
  <2>1. Boundary(N, L, P, T, T + 1) /\ Shift(L, P, d, e, T + 1) = j
    BY <1>3 DEF Boundary, EndAlike, Shift
  <2> QED
    BY <2>1 DEF Boundary
<1> QED
    BY <1>1, <1>2, <1>3 DEF Boundary

\* t has N steps, each at the node of such a plan.
IsPlan(t, N, L, P, T) ==
    /\ DOMAIN t = 1..N
    /\ \A i \in 1..N : t[i].node = NodeAt(L, P, T, i)
    /\ \A i : i \in Actual(t) <=> Boundary(N, L, P, T, i)

\* The steps of t are found again in u.
Embeddable(t, u) == \E f : Embeds(f, t, u)

\* So a plan is found again in one that is shifted against it.
LEMMA ShiftEmbeds ==
    ASSUME NEW N \in Nat, NEW M \in Nat, NEW L \in Nat, NEW P \in Nat, NEW T \in Nat,
           NEW d \in Nat, NEW e \in Nat,
           L >= 3, P >= L + 2, T >= P + 1, d <= e, EndAlike(N, M, L, P, T, d, e),
           NEW t, IsPlan(t, N, L, P, T), NEW u, IsPlan(u, M, L + d, P + d, T + e)
    PROVE  Embeddable(t, u)
<1> DEFINE f == [i \in 1..N |-> Shift(L, P, d, e, i)]
<1>1. \A i \in 1..N :
        /\ f[i] = Shift(L, P, d, e, i)
        /\ f[i] \in 1..M
        /\ NodeAt(L + d, P + d, T + e, f[i]) = NodeAt(L, P, T, i)
        /\ \A j \in 1..N : i < j => f[i] < f[j]
        /\ Boundary(N, L, P, T, i) <=> Boundary(M, L + d, P + d, T + e, f[i])
  <2>1. \A i \in 1..N : ShiftsTo(N, M, L, P, T, d, e, i, Shift(L, P, d, e, i))
    BY Zenon, ShiftedPosition
  <2> QED
    BY <2>1 DEF ShiftsTo
<1>2. /\ DOMAIN t = 1..N /\ DOMAIN u = 1..M
      /\ \A i \in 1..N : t[i].node = NodeAt(L, P, T, i)
      /\ \A i \in 1..M : u[i].node = NodeAt(L + d, P + d, T + e, i)
      /\ \A i : i \in Actual(t) <=> Boundary(N, L, P, T, i)
      /\ \A i : i \in Actual(u) <=> Boundary(M, L + d, P + d, T + e, i)
    BY DEF IsPlan
<1>3. f \in [1..N -> 1..M]
    BY <1>1
<1>4. ASSUME NEW j \in Actual(u)
      PROVE  \E i \in Actual(t) : f[i] = j
  <2>1. PICK i \in 1..N : Boundary(N, L, P, T, i) /\ Shift(L, P, d, e, i) = j
    <3>1. ShiftReaches(N, M, L, P, T, d, e)
      BY Zenon, ShiftedBoundary
    <3> QED
      BY <1>2, <3>1 DEF ShiftReaches
  <2> HIDE DEF f
  <2> QED
    BY <1>1, <1>2, <2>1
<1> HIDE DEF f
<1>5. \A i \in DOMAIN t : u[f[i]].node = t[i].node
    BY <1>1, <1>2
<1>6. \A i, j \in DOMAIN t : i < j => f[i] < f[j]
    BY <1>1, <1>2
<1>7. \A i \in DOMAIN t : i \in Actual(t) <=> f[i] \in Actual(u)
    BY <1>1, <1>2
<1>8. Embeds(f, t, u)
    BY <1>3, <1>4, <1>5, <1>6, <1>7, <1>2 DEF Embeds
<1> QED
    BY <1>8 DEF Embeddable

-----------------------------------------------------------------------------
\* How many steps of t are at node n.
Visits(t, n) == Cardinality({i \in DOMAIN t : t[i].node = n})
VisitsLess(t, u) ==
    \A n : Visits(t, n) \in Nat /\ Visits(u, n) \in Nat /\ Visits(t, n) <= Visits(u, n)

\* A trajectory found again in another has no more steps at any node,
LEMMA EmbeddedVisits ==
    ASSUME NEW N \in Nat, NEW M \in Nat, NEW t, DOMAIN t = 1..N, NEW u, DOMAIN u = 1..M,
           NEW f, Embeds(f, t, u)
    PROVE  VisitsLess(t, u)
<1> SUFFICES ASSUME NEW n
             PROVE  /\ Visits(t, n) \in Nat /\ Visits(u, n) \in Nat
                    /\ Visits(t, n) <= Visits(u, n)
    BY DEF VisitsLess
<1> DEFINE S == {i \in DOMAIN t : t[i].node = n}
           T == {i \in DOMAIN u : u[i].node = n}
           g == [i \in S |-> f[i]]
<1>1. IsFiniteSet(1..N) /\ IsFiniteSet(1..M)
    BY FS_Interval
<1>2. S \subseteq 1..N /\ T \subseteq 1..M
    OBVIOUS
<1>3. \A i \in S : f[i] \in T
    BY DEF Embeds
<1>4. \A i, j \in S : f[i] = f[j] => i = j
  <2> SUFFICES ASSUME NEW i \in S, NEW j \in S, f[i] = f[j], i # j
               PROVE  FALSE
    OBVIOUS
  <2>1. f[i] \in 1..M /\ f[j] \in 1..M /\ i \in 1..N /\ j \in 1..N
    BY DEF Embeds
  <2>2. (i < j => f[i] < f[j]) /\ (j < i => f[j] < f[i])
    BY DEF Embeds
  <2> HIDE DEF S
  <2> QED
    BY <2>1, <2>2
<1>5. g \in Injection(S, T)
  <2> HIDE DEF S, T
  <2> QED
    BY <1>3, <1>4 DEF Injection, IsInjective
<1>6. IsFiniteSet(S) /\ IsFiniteSet(T)
  <2> HIDE DEF S, T
  <2> QED
    BY <1>1, <1>2, FS_Subset
<1>7. Cardinality(S) <= Cardinality(T)
  <2> HIDE DEF S, T, g
  <2> QED
    BY <1>5, <1>6, FS_Injection
<1> QED
    BY <1>6, <1>7, FS_CardinalityType DEF Visits

\* and takes no longer.
LEMMA EmbeddedLatency ==
    ASSUME NEW N \in Nat, NEW M \in Nat, NEW t, DOMAIN t = 1..N, NEW u, DOMAIN u = 1..M,
           NEW f, Embeds(f, t, u)
    PROVE  total_latency_ms(t) <= total_latency_ms(u)
<1>1. VisitsLess(t, u)
    BY Zenon, EmbeddedVisits
<1>2. ASSUME NEW v
      PROVE  total_latency_ms(v) =
               120 * Visits(v, "planner") + 90 * Visits(v, "risk")
               + 150 * Visits(v, "carrier_lookup") + 180 * Visits(v, "route_optimizer")
               + 80 * Visits(v, "validator") + 200 * Visits(v, "execution")
               + 60 * Visits(v, "audit")
    BY DEF total_latency_ms, SYNTHETIC_LATENCY_MS, Visits
<1> DEFINE t1 == Visits(t, "planner")
           t2 == Visits(t, "risk")
           t3 == Visits(t, "carrier_lookup")
           t4 == Visits(t, "route_optimizer")
           t5 == Visits(t, "validator")
           t6 == Visits(t, "execution")
           t7 == Visits(t, "audit")
           u1 == Visits(u, "planner")
           u2 == Visits(u, "risk")
           u3 == Visits(u, "carrier_lookup")
           u4 == Visits(u, "route_optimizer")
           u5 == Visits(u, "validator")
           u6 == Visits(u, "execution")
           u7 == Visits(u, "audit")
<1>3. /\ t1 \in Nat /\ u1 \in Nat /\ t1 <= u1 /\ t2 \in Nat /\ u2 \in Nat /\ t2 <= u2
      /\ t3 \in Nat /\ u3 \in Nat /\ t3 <= u3 /\ t4 \in Nat /\ u4 \in Nat /\ t4 <= u4
      /\ t5 \in Nat /\ u5 \in Nat /\ t5 <= u5 /\ t6 \in Nat /\ u6 \in Nat /\ t6 <= u6
      /\ t7 \in Nat /\ u7 \in Nat /\ t7 <= u7
    BY <1>1 DEF VisitsLess
<1>4. /\ total_latency_ms(t) = 120 * t1 + 90 * t2 + 150 * t3 + 180 * t4 + 80 * t5
                                + 200 * t6 + 60 * t7
      /\ total_latency_ms(u) = 120 * u1 + 90 * u2 + 150 * u3 + 180 * u4 + 80 * u5
                                + 200 * u6 + 60 * u7
    BY Zenon, <1>2
<1> HIDE DEF t1, t2, t3, t4, t5, t6, t7, u1, u2, u3, u4, u5, u6, u7
<1> QED
    BY <1>3, <1>4

\* Starts keep their place among the starts,
LEMMA EmbeddedPlaces ==
    ASSUME NEW N \in Nat, NEW M \in Nat, NEW t, DOMAIN t = 1..N, NEW u, DOMAIN u = 1..M,
           NEW f, Embeds(f, t, u), NEW i \in Actual(t)
    PROVE  Cardinality({j \in Actual(t) : j <= i}) = Cardinality({j \in Actual(u) : j <= f[i]})
<1> DEFINE S == {j \in Actual(t) : j <= i}
           T == {j \in Actual(u) : j <= f[i]}
           g == [j \in S |-> f[j]]
<1>1. Actual(t) \subseteq 1..N /\ Actual(u) \subseteq 1..M
    BY DEF Actual, collapsed_node_sequence
<1>2. /\ \A j \in 1..N : f[j] \in 1..M
      /\ \A j, k \in 1..N : j < k => f[j] < f[k]
      /\ \A j \in 1..N : j \in Actual(t) <=> f[j] \in Actual(u)
      /\ \A k \in Actual(u) : \E j \in Actual(t) : f[j] = k
    BY DEF Embeds
<1>3. \A j \in S : f[j] \in T
  <2> SUFFICES ASSUME NEW j \in S PROVE f[j] \in T
    OBVIOUS
  <2>1. j \in 1..N /\ i \in 1..N /\ j <= i /\ j \in Actual(t)
    BY <1>1
  <2>2. f[j] \in Actual(u) /\ f[j] \in 1..M /\ f[i] \in 1..M /\ (j < i => f[j] < f[i])
    BY <1>2, <2>1
  <2>3. f[j] <= f[i]
    BY <2>1, <2>2
  <2> QED
    BY <2>2, <2>3
<1>4. \A j, k \in S : f[j] = f[k] => j = k
  <2> SUFFICES ASSUME NEW j \in S, NEW k \in S, f[j] = f[k], j # k
               PROVE  FALSE
    OBVIOUS
  <2>1. j \in 1..N /\ k \in 1..N /\ f[j] \in 1..M
    BY <1>1, <1>2
  <2>2. (j < k => f[j] < f[k]) /\ (k < j => f[k] < f[j])
    BY <1>2, <2>1
  <2> HIDE DEF S
  <2> QED
    BY <2>1, <2>2
<1>5. \A k \in T : \E j \in S : f[j] = k
  <2> SUFFICES ASSUME NEW k \in T PROVE \E j \in S : f[j] = k
    OBVIOUS
  <2>1. PICK j \in Actual(t) : f[j] = k
    BY <1>2
  <2>2. j \in 1..N /\ i \in 1..N /\ f[i] \in 1..M /\ f[j] \in 1..M /\ f[j] <= f[i]
    BY <1>1, <1>2, <2>1
  <2>3. i < j => f[i] < f[j]
    BY <1>2, <2>2
  <2>4. j <= i
    BY <2>2, <2>3
  <2> QED
    BY <2>1, <2>4
<1>6. IsFiniteSet(S)
  <2>1. IsFiniteSet(1..N) /\ S \subseteq 1..N
    BY <1>1, FS_Interval
  <2> HIDE DEF S
  <2> QED
    BY <2>1, FS_Subset
<1> HIDE DEF S, T
<1>7. g \in Bijection(S, T)
    BY <1>3, <1>4, <1>5 DEF Bijection, Injection, IsInjective, Surjection
<1>8. ExistsBijection(S, T)
    BY <1>7 DEF ExistsBijection
<1>9. Cardinality(T) = Cardinality(S)
    BY <1>6, <1>8, FS_Bijection
<1> QED
    BY <1>9 DEF S, T

\* Whatever order is expected, t and u are as coherent.
CoherentAlike(t, u) == \A truth : plan_coherence(t, truth) = plan_coherence(u, truth)

\* so the comparison with the expected order comes to the same.
LEMMA EmbeddedCoherence ==
    ASSUME NEW N \in Nat, NEW M \in Nat, NEW t, DOMAIN t = 1..N, NEW u, DOMAIN u = 1..M,
           NEW f, Embeds(f, t, u)
    PROVE  CoherentAlike(t, u)
<1> SUFFICES ASSUME NEW truth
             PROVE  plan_coherence(t, truth) = plan_coherence(u, truth)
    BY DEF CoherentAlike
<1> DEFINE S(i) == Cardinality({j \in Actual(t) : j <= i})
           T(i) == Cardinality({j \in Actual(u) : j <= i})
           matched == {k \in DOMAIN truth.order :
                          \E i \in Actual(t) : S(i) = k /\ t[i].node = truth.order[k]}
           matches == {k \in DOMAIN truth.order :
                          \E i \in Actual(u) : T(i) = k /\ u[i].node = truth.order[k]}
<1>1. \A i \in Actual(t) : S(i) = T(f[i])
    BY EmbeddedPlaces
<1>2. /\ \A i \in Actual(t) : f[i] \in Actual(u) /\ u[f[i]].node = t[i].node
      /\ \A k \in Actual(u) : \E i \in Actual(t) : f[i] = k
    BY DEF Embeds, Actual, collapsed_node_sequence
<1>3. plan_coherence(t, truth) =
        IF truth.order = <<>> THEN 1000 ELSE Ratio(Cardinality(matched), Len(truth.order))
    BY DEF plan_coherence, Actual
<1>4. plan_coherence(u, truth) =
        IF truth.order = <<>> THEN 1000 ELSE Ratio(Cardinality(matches), Len(truth.order))
    BY DEF plan_coherence, Actual
<1> HIDE DEF S, T
<1>5. ASSUME NEW k
      PROVE  (\E i \in Actual(t) : S(i) = k /\ t[i].node = truth.order[k])
                <=> (\E i \in Actual(u) : T(i) = k /\ u[i].node = truth.order[k])
    BY <1>1, <1>2
<1>6. matched = matches
    BY <1>5
<1> HIDE DEF matched, matches
<1> QED
    BY <1>3, <1>4, <1>6

-----------------------------------------------------------------------------
\* The optimizer has a first choice wherever a carrier is feasible.
LEMMA ChoiceIsFeasible ==
    ASSUME NEW a, FeasibleFor(a) # {}
    PROVE  ChoiceFor(a) \in FeasibleFor(a)
<1> DEFINE S == FeasibleFor(a)
           R == {pair \in S \X S : SortsBefore(pair[1], pair[2])}
<1>1. S \subseteq Carriers /\ S \subseteq 1..Len(Network) /\ Len(Network) \in Nat
    BY NetworkAssumption
    DEF NetworkAssumption, FeasibleFor, FeasibleCarriers, LaneOf, carrier_lookup,
        find_by_region, Carriers
<1>2. IsFiniteSet(S)
  <2>1. IsFiniteSet(1..Len(Network))
    BY <1>1, FS_Interval
  <2> HIDE DEF S
  <2> QED
    BY <1>1, <2>1, FS_Subset
<1>3. \A x \in S : x \in Int /\ Network[x].cost \in Int
    BY <1>1, CarrierType DEF Carrier
<1>4. \A x, y \in S : <<x, y>> \in R <=> SortsBefore(x, y)
    OBVIOUS
<1> HIDE DEF S, R
<1>5. TotalOrder(S, R)
    BY <1>3, <1>4 DEF TotalOrder, SortsBefore
<1>6. Cardinality(S) \in Nat \ {0}
    BY <1>2, FS_CardinalityType, FS_EmptySet DEF S
<1>7. PICK x \in S : Rank(S, R, x) = 1
    BY <1>2, <1>5, <1>6, RanksAreTaken
<1>8. ASSUME NEW y \in S
      PROVE  SortsBefore(x, y)
  <2>1. Rank(S, R, y) \in 1..Cardinality(S)
    BY <1>2, <1>5, RanksFollow
  <2>2. <<x, y>> \in R <=> Rank(S, R, x) <= Rank(S, R, y)
    BY <1>2, <1>5, RanksFollow
  <2> QED
    BY <1>4, <1>6, <1>7, <2>1, <2>2
<1>9. x \in route_optimizer(LaneOf(a), max_transit_hours)
    BY <1>8 DEF route_optimizer, S, FeasibleFor
<1>10. x = ChoiceFor(a)
    BY <1>9, ChoiceIsUnique
<1> QED
    BY <1>10 DEF S

\* Where faults are absorbed, both mocks get to the same stage, and not to a
\* proposal or an execution that fails for good.
MeetsNoLimit(a, p, s) ==
    /\ Found(a, p, s) <=> LaneOf(a) # {}
    /\ Confirmed(a, p, s) <=> Bookable(a)

LEMMA FaultsLeaveReach ==
    ASSUME NEW a, NEW s \in Settings, NEW high, AbsorbsFaults(a, s)
    PROVE  /\ MeetsNoLimit(a, "mock", s) /\ MeetsNoLimit(a, "mock_flaky", s)
           /\ Reach(a, "mock_flaky", s, high) = Reach(a, "mock", s, high)
           /\ \A p \in MockProviders :
                \/ Reach(a, p, s, high) = 1
                \/ Reach(a, p, s, high) = 2 /\ LaneOf(a) = {}
                \/ Reach(a, p, s, high) \in {4, 6} /\ LaneOf(a) # {} /\ FeasibleFor(a) # {}
<1>1. /\ SpoiltLookups(a, "mock") = 0 /\ SpoiltExecutions(a, "mock") = 0
      /\ SpoiltLookups(a, "mock_flaky") = IF a.inject.carrier_lookup THEN 1 ELSE 0
      /\ SpoiltExecutions(a, "mock_flaky") = IF a.inject.execution THEN 1 ELSE 0
    BY DEF SpoiltLookups, SpoiltExecutions
<1>2. s.max_retries_carrier_lookup \in Nat /\ s.max_retries_execution \in Nat
    BY PlanNumbers
<1>3. MeetsNoLimit(a, "mock", s) /\ MeetsNoLimit(a, "mock_flaky", s)
    BY <1>1, <1>2 DEF Found, Confirmed, AbsorbsFaults, MeetsNoLimit
<1>4. Reach(a, "mock_flaky", s, high) = Reach(a, "mock", s, high)
    BY <1>3 DEF Reach, MeetsNoLimit
<1>5. ASSUME NEW p \in MockProviders
      PROVE  \/ Reach(a, p, s, high) = 1
             \/ Reach(a, p, s, high) = 2 /\ LaneOf(a) = {}
             \/ Reach(a, p, s, high) \in {4, 6} /\ LaneOf(a) # {} /\ FeasibleFor(a) # {}
  <2>1. MeetsNoLimit(a, p, s)
    BY <1>3 DEF MockProviders
  <2> QED
    BY <2>1 DEF Reach, AbsorbsFaults, MeetsNoLimit
<1> QED
    BY <1>3, <1>4, <1>5

\* How the plan of the flaky mock follows from that of the other.
ShiftedPlan(a, s, high, d, e) ==
    /\ d <= e
    /\ LookedUp(a, "mock_flaky", s) = LookedUp(a, "mock", s) + d
    /\ Proposed(a, "mock_flaky", s) = Proposed(a, "mock", s) + d
    /\ Executed(a, "mock_flaky", s) = Executed(a, "mock", s) + e
    /\ EndAlike(PlannedLength(a, "mock", s, high), PlannedLength(a, "mock_flaky", s, high),
                LookedUp(a, "mock", s), Proposed(a, "mock", s), Executed(a, "mock", s), d, e)

\* A fault that is absorbed costs a lookup, or an execution, and leaves the
\* plan as it is otherwise.
LEMMA FaultsShiftPlans ==
    ASSUME NEW a, NEW s \in Settings, NEW high, AbsorbsFaults(a, s)
    PROVE  \E d, e \in Nat : ShiftedPlan(a, s, high, d, e)
<1>1. /\ SpoiltLookups(a, "mock") = 0 /\ SpoiltExecutions(a, "mock") = 0
      /\ SpoiltLookups(a, "mock_flaky") \in {0, 1} /\ SpoiltExecutions(a, "mock_flaky") \in {0, 1}
    BY DEF SpoiltLookups, SpoiltExecutions
<1>2. /\ s.max_retries_carrier_lookup \in Nat /\ s.max_retries_execution \in Nat
      /\ Proposals(a, s) \in Nat
    BY PlanNumbers
<1>3. /\ Found(a, "mock", s) <=> LaneOf(a) # {}
      /\ Found(a, "mock_flaky", s) <=> LaneOf(a) # {}
      /\ Confirmed(a, "mock", s) <=> Bookable(a)
      /\ Confirmed(a, "mock_flaky", s) <=> Bookable(a)
    BY FaultsLeaveReach DEF MeetsNoLimit
<1>5. /\ Executions(a, "mock", s) \in Nat /\ Executions(a, "mock_flaky", s) \in Nat
      /\ Executions(a, "mock", s) <= Executions(a, "mock_flaky", s)
    BY <1>1, <1>2, <1>3 DEF Executions
<1>6. /\ Lookups(a, "mock", s) \in Nat /\ Lookups(a, "mock_flaky", s) \in Nat
      /\ Lookups(a, "mock", s) <= Lookups(a, "mock_flaky", s)
      /\ LaneOf(a) = {} => Lookups(a, "mock", s) = Lookups(a, "mock_flaky", s)
    BY <1>1, <1>2, <1>3 DEF Lookups
<1> DEFINE d == Lookups(a, "mock_flaky", s) - Lookups(a, "mock", s)
           x == Executions(a, "mock_flaky", s) - Executions(a, "mock", s)
<1>7. /\ d \in Nat /\ x \in Nat /\ d + x \in Nat /\ d <= d + x
      /\ LookedUp(a, "mock_flaky", s) = LookedUp(a, "mock", s) + d
      /\ Proposed(a, "mock_flaky", s) = Proposed(a, "mock", s) + d
      /\ Executed(a, "mock_flaky", s) = Executed(a, "mock", s) + (d + x)
      /\ LookedUp(a, "mock", s) \in Nat /\ Proposed(a, "mock", s) \in Nat
      /\ Executed(a, "mock", s) \in Nat /\ 2 <= LookedUp(a, "mock", s)
      /\ LaneOf(a) = {} => d = 0
    BY <1>2, <1>5, <1>6 DEF LookedUp, Proposed, Executed
<1> HIDE DEF d, x
<1>8. /\ Reach(a, "mock_flaky", s, high) = Reach(a, "mock", s, high)
      /\ \/ Reach(a, "mock", s, high) = 1
         \/ Reach(a, "mock", s, high) = 2 /\ LaneOf(a) = {}
         \/ Reach(a, "mock", s, high) \in {4, 6}
    BY FaultsLeaveReach DEF MockProviders
<1>9. EndAlike(PlannedLength(a, "mock", s, high), PlannedLength(a, "mock_flaky", s, high),
               LookedUp(a, "mock", s), Proposed(a, "mock", s), Executed(a, "mock", s), d, d + x)
    BY <1>7, <1>8 DEF PlannedLength, EndAlike
<1> QED
    BY <1>7, <1>9 DEF ShiftedPlan

\* The plan of the one mock is found again in that of the other.
LEMMA PlansEmbed ==
    ASSUME NEW a, NEW s \in Settings, NEW high, AbsorbsFaults(a, s)
    PROVE  Embeddable(Planned(a, "mock", s, high), Planned(a, "mock_flaky", s, high))
<1> DEFINE t == Planned(a, "mock", s, high)
           u == Planned(a, "mock_flaky", s, high)
           N == PlannedLength(a, "mock", s, high)
           M == PlannedLength(a, "mock_flaky", s, high)
           L == LookedUp(a, "mock", s)
           P == Proposed(a, "mock", s)
           T == Executed(a, "mock", s)
<1>1. PICK d \in Nat, e \in Nat : ShiftedPlan(a, s, high, d, e)
    BY FaultsShiftPlans
<1>2. /\ L \in Nat /\ P \in Nat /\ T \in Nat /\ L >= 3 /\ P >= L + 2 /\ T >= P + 1
    BY PlanNumbers
<1>3. /\ N \in Nat /\ M \in Nat
      /\ \A i : i \in Actual(t) <=> Boundary(N, L, P, T, i)
      /\ \A i : i \in Actual(u) <=>
             Boundary(M, LookedUp(a, "mock_flaky", s), Proposed(a, "mock_flaky", s),
                      Executed(a, "mock_flaky", s), i)
    BY PlannedStarts
<1>4. DOMAIN t = 1..N /\ DOMAIN u = 1..M
    BY DEF Planned
<1>5. \A i \in 1..N : t[i].node = NodeAt(L, P, T, i)
    BY PlannedNodes DEF Planned, NodeAt
<1>6. \A i \in 1..M : u[i].node = NodeAt(LookedUp(a, "mock_flaky", s),
                            Proposed(a, "mock_flaky", s), Executed(a, "mock_flaky", s), i)
    BY PlannedNodes DEF Planned, NodeAt
<1> HIDE DEF t, u, N, M, L, P, T
<1>7. d <= e /\ EndAlike(N, M, L, P, T, d, e)
    BY <1>1 DEF ShiftedPlan, N, M, L, P, T
<1>8. IsPlan(t, N, L, P, T) /\ IsPlan(u, M, L + d, P + d, T + e)
    BY <1>1, <1>3, <1>4, <1>5, <1>6 DEF IsPlan, ShiftedPlan, L, P, T
<1>9. Embeddable(t, u)
    BY Zenon, <1>1, <1>2, <1>3, <1>7, <1>8, ShiftEmbeds
<1> QED
    BY <1>9 DEF t, u

-----------------------------------------------------------------------------
\* No part of a set of marks is no share of it.
LEMMA NoneIsNoShare ==
    ASSUME NEW S, IsFiniteSet(S), S # {}
    PROVE  Ratio(Cardinality({}), Cardinality(S)) = 0
<1>1. Cardinality(S) \in Nat \ {0} /\ Cardinality({}) = 0
    BY FS_CardinalityType, FS_EmptySet
<1> DEFINE whole == Cardinality(S)
<1>2. Ratio(0, whole) = whole \div (2 * whole)
    BY <1>1 DEF Ratio, Nearest
<1> HIDE DEF whole
<1>3. whole \in Nat \ {0} => whole \div (2 * whole) = 0
    OBVIOUS
<1> QED
    BY <1>1, <1>2, <1>3 DEF whole

\* The share of a part is a rate.
LEMMA ShareIsRate ==
    ASSUME NEW S, IsFiniteSet(S), S # {}, NEW T, T \subseteq S
    PROVE  Ratio(Cardinality(T), Cardinality(S)) \in Thousandths
BY ShareOfSet DEF Thousandths

\* What any list of steps is marked: its rates are rates, and without a failure
\* or a refused call the two that count them are full.
LEMMA RatesOfSteps ==
    ASSUME NEW n \in Nat, NEW t, DOMAIN t = 1..n
    PROVE  /\ error_recovery_success_rate(t) \in 0..1000
           /\ schema_validity_rate(t) \in 0..1000
           /\ average_retries(t) \in Nat
           /\ ErrorSteps(t) = {} => error_recovery_success_rate(t) = 1000
           /\ ErrorSteps(t) # {} /\ (\A i \in ErrorSteps(t) : ~ Recovered(t, i)) =>
                error_recovery_success_rate(t) = 0
           /\ (\A i \in 1..n : t[i].error # "schema") => schema_validity_rate(t) = 1000
           /\ (\A i \in 1..n : t[i].retry_of = 0) => average_retries(t) = 0
<1>1. IsFiniteSet(1..n)
    BY FS_Interval
<1>2. ErrorSteps(t) \subseteq 1..n /\ ToolCalls(t) \subseteq 1..n
      /\ {i \in DOMAIN t : t[i].retry_of # 0} \subseteq 1..n
    BY DEF ErrorSteps, ToolCalls
<1>3. IsFiniteSet(ErrorSteps(t)) /\ IsFiniteSet(ToolCalls(t))
      /\ IsFiniteSet({i \in DOMAIN t : t[i].retry_of # 0})
    BY <1>1, <1>2, FS_Subset
<1> DEFINE recovered == {i \in ErrorSteps(t) : Recovered(t, i)}
           valid == {i \in ToolCalls(t) : t[i].error # "schema"}
<1>4. error_recovery_success_rate(t) \in 0..1000
  <2>1. CASE ErrorSteps(t) = {}
    BY <2>1 DEF error_recovery_success_rate
  <2>2. CASE ErrorSteps(t) # {}
    <3>1. recovered \subseteq ErrorSteps(t)
      OBVIOUS
    <3> DEFINE errors == ErrorSteps(t)
    <3>2. errors # {} /\ IsFiniteSet(errors) /\ recovered \subseteq errors
      BY <1>3, <2>2, <3>1
    <3> HIDE DEF recovered, errors
    <3>3. Ratio(Cardinality(recovered), Cardinality(errors)) \in Thousandths
      BY Zenon, <3>2, ShareIsRate
    <3>4. error_recovery_success_rate(t) = Ratio(Cardinality(recovered), Cardinality(errors))
      BY Zenon, <2>2 DEF error_recovery_success_rate, recovered, errors
    <3> QED
      BY <3>3, <3>4 DEF Thousandths
  <2> QED
    BY <2>1, <2>2
<1>5. schema_validity_rate(t) \in 0..1000
  <2>1. CASE ToolCalls(t) = {}
    BY <2>1 DEF schema_validity_rate
  <2>2. CASE ToolCalls(t) # {}
    <3>1. valid \subseteq ToolCalls(t)
      OBVIOUS
    <3> DEFINE calls == ToolCalls(t)
    <3>2. calls # {} /\ IsFiniteSet(calls) /\ valid \subseteq calls
      BY <1>3, <2>2, <3>1
    <3> HIDE DEF valid, calls
    <3>3. Ratio(Cardinality(valid), Cardinality(calls)) \in Thousandths
      BY Zenon, <3>2, ShareIsRate
    <3>4. schema_validity_rate(t) = Ratio(Cardinality(valid), Cardinality(calls))
      BY Zenon, <2>2 DEF schema_validity_rate, valid, calls
    <3> QED
      BY <3>3, <3>4 DEF Thousandths
  <2> QED
    BY <2>1, <2>2
<1>6. ErrorSteps(t) = {} => error_recovery_success_rate(t) = 1000
    BY DEF error_recovery_success_rate
<1>7. ASSUME ErrorSteps(t) # {}, \A i \in ErrorSteps(t) : ~ Recovered(t, i)
      PROVE  error_recovery_success_rate(t) = 0
  <2>1. recovered = {}
    BY <1>7
  <2>2. Ratio(Cardinality(recovered), Cardinality(ErrorSteps(t))) = 0
    BY <1>3, <1>7, <2>1, NoneIsNoShare
  <2> QED
    BY <1>7, <2>2 DEF error_recovery_success_rate
<1>8. ASSUME \A i \in 1..n : t[i].error # "schema"
      PROVE  schema_validity_rate(t) = 1000
  <2>1. valid = ToolCalls(t)
    BY <1>2, <1>8
  <2>2. ToolCalls(t) # {} => Ratio(Cardinality(valid), Cardinality(ToolCalls(t))) = 1000
    <3> HIDE DEF valid
    <3> QED
      BY <1>3, <2>1, ShareOfSet
  <2> QED
    BY <2>2 DEF schema_validity_rate
<1>9. average_retries(t) \in Nat
    BY <1>3, FS_CardinalityType DEF average_retries
<1>10. ASSUME \A i \in 1..n : t[i].retry_of = 0
       PROVE  average_retries(t) = 0
  <2>1. {i \in DOMAIN t : t[i].retry_of # 0} = {}
    BY <1>10
  <2> QED
    BY <2>1, FS_EmptySet DEF average_retries
<1> QED
    BY <1>4, <1>5, <1>6, <1>7, <1>8, <1>9, <1>10

\* Where every entity that is referred to is known, nothing is hallucinated.
LEMMA KnownEntities ==
    ASSUME NEW n \in Nat, NEW t, DOMAIN t = 1..n, NEW truth, truth \in Truth,
           \A i \in 1..n : t[i].entities \subseteq truth.entities
    PROVE  hallucination_rate(t, truth) = 0
<1> DEFINE R == References(t)
           E == truth.entities
           hallucinated == {r \in R : r[2] \notin E}
<1>1. R \subseteq (1..n) \X E
    BY DEF References
<1>2. hallucinated = {}
    BY <1>1
<1>3. IsFiniteSet(R)
  <2>1. IsFiniteSet(1..n)
    <3>1. 1 \in Int /\ n \in Int
      OBVIOUS
    <3> QED
      BY Zenon, <3>1, FS_Interval
  <2>2. E \subseteq 1..Len(Network) /\ Len(Network) \in Nat
    BY NetworkAssumption DEF NetworkAssumption, Truth, Carriers
  <2>3. IsFiniteSet(1..Len(Network))
    BY <2>2, FS_Interval
  <2> HIDE DEF R, E
  <2>4. IsFiniteSet(E)
    BY <2>2, <2>3, FS_Subset
  <2>5. IsFiniteSet((1..n) \X E)
    BY <2>1, <2>4, FS_Product
  <2> QED
    BY <1>1, <2>5, FS_Subset
<1>4. R # {} => Ratio(Cardinality(hallucinated), Cardinality(R)) = 0
  <2> HIDE DEF R, hallucinated
  <2> QED
    BY <1>2, <1>3, NoneIsNoShare
<1> QED
    BY <1>4 DEF hallucination_rate

\* No plan takes a transition that the table calls illegal.
LEMMA PlansAreLegal ==
    ASSUME NEW a, NEW p, NEW s \in Settings, NEW high
    PROVE  valid_transition_rate(Planned(a, p, s, high)) = 1000
<1> DEFINE t == Planned(a, p, s, high)
           N == PlannedLength(a, p, s, high)
           L == LookedUp(a, p, s)
           P == Proposed(a, p, s)
           T == Executed(a, p, s)
           valid == {i \in 2..Len(t) : <<t[i - 1].node, t[i].node>> \in LEGAL_TRANSITIONS}
<1>1. PICK l \in Nat \ {0}, o \in Nat \ {0}, e \in Nat \ {0} :
        L = 2 + l /\ P = L + 2 * o /\ T = P + e
    BY PlanNumbers
<1>2. N \in Nat /\ N >= 2 /\ N <= T + 1
    BY <1>1, PlanReaches
<1>3. Len(t) = N
  <2>1. t = [i \in 1..N |-> PlannedStep(a, p, s, i)]
    BY DEF Planned
  <2> HIDE DEF t, N
  <2> DEFINE V == {PlannedStep(a, p, s, i) : i \in 1..N}
  <2>2. t \in Seq(V)
    BY <1>2, <2>1
  <2> HIDE DEF V
  <2>3. DOMAIN t = 1..Len(t) /\ Len(t) \in Nat
    BY <2>2
  <2>4. DOMAIN t = 1..N
    BY <2>1
  <2>5. N \in 1..N /\ N \in 1..Len(t)
    BY <1>2, <2>3, <2>4
  <2>6. Len(t) \in 1..N
    BY <2>3, <2>4, <2>5
  <2> QED
    BY <1>2, <2>5, <2>6
<1>4. ASSUME NEW i \in 1..N
      PROVE  t[i].node = NodeAt(L, P, T, i)
    BY PlannedNodes DEF Planned, NodeAt
<1> HIDE DEF t, N, L, P, T
<1>5. ASSUME NEW i \in 2..N
      PROVE  <<NodeAt(L, P, T, i - 1), NodeAt(L, P, T, i)>> \in LEGAL_TRANSITIONS
  <2>1. i \in Nat /\ i >= 2 /\ i <= T + 1
    BY <1>1, <1>2
  <2>2. CASE i <= L
    BY <1>1, <2>1, <2>2 DEF NodeAt, LEGAL_TRANSITIONS
  <2>3. CASE i = L + 1
    BY <1>1, <2>1, <2>3 DEF NodeAt, LEGAL_TRANSITIONS
  <2>4. CASE i > L + 1 /\ i <= P
    <3>1. (i - L) % 2 = 1 <=> ((i - 1) - L) % 2 # 1
      BY <1>1, <2>1, <2>4
    <3> QED
      BY <1>1, <2>1, <2>4, <3>1 DEF NodeAt, LEGAL_TRANSITIONS
  <2>5. CASE i = P + 1
    <3>1. ((i - 1) - L) % 2 # 1
      BY <1>1, <2>5
    <3> QED
      BY <1>1, <2>1, <2>5, <3>1 DEF NodeAt, LEGAL_TRANSITIONS
  <2>6. CASE i > P + 1
    BY <1>1, <2>1, <2>6 DEF NodeAt, LEGAL_TRANSITIONS
  <2> QED
    BY <1>1, <2>1, <2>2, <2>3, <2>4, <2>5, <2>6
<1>6. ASSUME NEW i \in 2..N
      PROVE  <<t[i - 1].node, t[i].node>> \in LEGAL_TRANSITIONS
  <2>1. i \in 1..N /\ i - 1 \in 1..N
    BY <1>2
  <2> QED
    BY <1>4, <1>5, <2>1
<1>7. valid = 2..N
    BY <1>3, <1>6
<1>8. Cardinality(2..N) = N - 1
  <2>1. 2 \in Int /\ N \in Int
    BY <1>2
  <2>2. Cardinality(2..N) = IF 2 > N THEN 0 ELSE N - 2 + 1
    BY <2>1, FS_Interval
  <2> QED
    BY <1>2, <2>2
<1>9. Ratio(N - 1, N - 1) = 1000
  <2>1. N - 1 \in Nat /\ 0 < N - 1 /\ N - 1 <= N - 1
    BY <1>2
  <2> QED
    BY <2>1, ShareIsMetric
<1>10. valid_transition_rate(t) =
         IF Len(t) < 2 THEN 1000 ELSE Ratio(Cardinality(valid), Len(t) - 1)
    BY DEF valid_transition_rate
<1> HIDE DEF valid
<1> QED
    BY <1>2, <1>3, <1>7, <1>8, <1>9, <1>10 DEF t

\* Where faults are absorbed, the steps refer to carriers of the lane only.
LEMMA PlannedEntities ==
    ASSUME NEW a, NEW p \in MockProviders, NEW s \in Settings, NEW high, AbsorbsFaults(a, s),
           NEW i, i \in 1..PlannedLength(a, p, s, high)
    PROVE  PlannedStep(a, p, s, i).entities \subseteq LaneOf(a)
<1>1. LookedUp(a, p, s) \in Nat /\ LookedUp(a, p, s) >= 2
    BY PlanNumbers
<1>2. \/ Reach(a, p, s, high) = 1
      \/ Reach(a, p, s, high) = 2
      \/ Reach(a, p, s, high) \in {4, 6} /\ FeasibleFor(a) # {}
    BY FaultsLeaveReach
<1>3. i \in Nat /\ (i <= LookedUp(a, p, s) \/ FeasibleFor(a) # {})
    BY <1>1, <1>2, PlanReaches
<1>4. FeasibleFor(a) \subseteq LaneOf(a)
    BY DEF FeasibleFor, FeasibleCarriers
<1>5. CASE i <= LookedUp(a, p, s)
    BY <1>5 DEF PlannedStep, PlannedLookup, StepOf
<1>6. CASE ~ (i <= LookedUp(a, p, s)) /\ FeasibleFor(a) # {}
  <2>1. ChoiceFor(a) \in LaneOf(a)
    BY <1>4, <1>6, ChoiceIsFeasible
  <2> QED
    BY <1>1, <1>3, <1>4, <1>6, <2>1
    DEF PlannedStep, PlannedLookup, PlannedProposal, PlannedExecution, StepOf
<1> QED
    BY <1>3, <1>5, <1>6

\* A run that no fault was injected into has no failure, unless there is
\* nothing to be found; and none of its calls is refused.
LEMMA SparedSteps ==
    ASSUME NEW a, NEW s \in Settings, NEW high, AbsorbsFaults(a, s),
           NEW i, i \in 1..PlannedLength(a, "mock", s, high)
    PROVE  /\ PlannedStep(a, "mock", s, i).error # "schema"
           /\ Reach(a, "mock", s, high) # 2 =>
                /\ PlannedStep(a, "mock", s, i).error = "none"
                /\ PlannedStep(a, "mock", s, i).retry_of = 0
<1>1. SpoiltLookups(a, "mock") = 0 /\ SpoiltExecutions(a, "mock") = 0
    BY DEF SpoiltLookups, SpoiltExecutions
<1>2. PlannedStep(a, "mock", s, i).error # "schema"
    BY <1>1 DEF PlannedStep, PlannedLookup, PlannedProposal, PlannedExecution, StepOf
<1>3. ASSUME Reach(a, "mock", s, high) = 1
      PROVE  /\ PlannedStep(a, "mock", s, i).error = "none"
             /\ PlannedStep(a, "mock", s, i).retry_of = 0
  <2>1. i = 1 \/ i = 2
    BY <1>3, PlanReaches
  <2> QED
    BY <2>1 DEF PlannedStep, StepOf
<1>4. ASSUME Reach(a, "mock", s, high) \in {4, 6}, LaneOf(a) # {}, FeasibleFor(a) # {}
      PROVE  /\ PlannedStep(a, "mock", s, i).error = "none"
             /\ PlannedStep(a, "mock", s, i).retry_of = 0
  <2>1. MeetsNoLimit(a, "mock", s)
    BY FaultsLeaveReach
  <2>2. LookedUp(a, "mock", s) = 3
    BY <1>1, <1>4, <2>1 DEF LookedUp, Lookups, MeetsNoLimit
  <2>3. Proposed(a, "mock", s) \in Nat /\ (Bookable(a) =>
            Executed(a, "mock", s) = Proposed(a, "mock", s) + 1)
    BY <1>1, <2>1, PlanNumbers DEF Executed, Executions, MeetsNoLimit
  <2>4. i \in Nat /\ i >= 1
    OBVIOUS
  <2>5. CASE i <= 3
    BY <1>1, <1>4, <2>2, <2>4, <2>5 DEF PlannedStep, PlannedLookup, StepOf
  <2>6. CASE i > 3 /\ i <= Proposed(a, "mock", s)
    BY <1>4, <2>2, <2>4, <2>6 DEF PlannedStep, PlannedProposal, StepOf
  <2>7. CASE i > Proposed(a, "mock", s)
    <3>1. Bookable(a) /\ Reach(a, "mock", s, high) = 6
      BY <1>4, <2>3, <2>7, PlanReaches
    <3> QED
      BY <1>1, <2>2, <2>3, <2>4, <2>7, <3>1, PlanNumbers
      DEF PlannedStep, PlannedExecution, StepOf
  <2> QED
    BY <2>2, <2>3, <2>4, <2>5, <2>6, <2>7
<1>5. \/ Reach(a, "mock", s, high) \in {1, 2}
      \/ Reach(a, "mock", s, high) \in {4, 6} /\ LaneOf(a) # {} /\ FeasibleFor(a) # {}
    BY FaultsLeaveReach DEF MockProviders
<1> QED
    BY <1>2, <1>3, <1>4, <1>5

\* Where the lookup finds nothing, no failure is made good, and a retry is one
\* with either mock.
LEMMA NothingIsRecovered ==
    ASSUME NEW a, NEW p \in MockProviders, NEW s \in Settings, NEW high,
           LaneOf(a) = {}, Reach(a, p, s, high) = 2
    PROVE  /\ error_recovery_success_rate(Planned(a, p, s, high)) = 0
           /\ average_retries(Planned(a, p, s, high)) =
                  Cardinality({i \in 1..LookedUp(a, p, s) : i > 3})
<1> DEFINE t == Planned(a, p, s, high)
           L == LookedUp(a, p, s)
<1>1. L \in Nat /\ L >= 3 /\ PlannedLength(a, p, s, high) = L
    BY PlanNumbers, PlanReaches
<1>2. DOMAIN t = 1..L
    BY <1>1 DEF Planned
<1>3. ASSUME NEW i \in 1..L
      PROVE  /\ i >= 3 => t[i].node = "carrier_lookup" /\ t[i].error # "none"
             /\ i < 3 => t[i].node # "carrier_lookup" /\ t[i].error = "none"
             /\ t[i].retry_of = IF i > 3 THEN i - 1 ELSE 0
  <2>1. t[i] = PlannedStep(a, p, s, i)
    BY <1>1 DEF Planned
  <2>2. CASE i < 3
    BY <1>1, <2>1, <2>2 DEF PlannedStep, StepOf
  <2>3. CASE i >= 3
    BY <1>1, <2>1, <2>3 DEF PlannedStep, PlannedLookup, StepOf
  <2> QED
    BY <2>2, <2>3
<1> HIDE DEF t, L
<1>4. 3 \in ErrorSteps(t)
    BY <1>1, <1>2, <1>3 DEF ErrorSteps
<1>5. ASSUME NEW i \in ErrorSteps(t)
      PROVE  ~ Recovered(t, i)
  <2>1. i \in 1..L /\ t[i].node = "carrier_lookup"
    BY <1>1, <1>2, <1>3 DEF ErrorSteps
  <2>2. \A j \in 1..L : t[j].node = "carrier_lookup" => t[j].error # "none"
    BY <1>1, <1>3
  <2> QED
    BY <1>2, <2>1, <2>2 DEF Recovered
<1>6. error_recovery_success_rate(t) = 0
    BY <1>1, <1>2, <1>4, <1>5, RatesOfSteps
<1>7. {i \in DOMAIN t : t[i].retry_of # 0} = {i \in 1..L : i > 3}
    BY <1>1, <1>2, <1>3
<1> QED
    BY <1>6, <1>7 DEF average_retries, t, L

-----------------------------------------------------------------------------
\* u is marked no better than t: each rate of it is as good at most, and it has
\* as many retries and takes as long at least.
AtMost(x, y) == x \in Thousandths /\ y \in Thousandths /\ x <= y

NoBetter(u, t, truth) ==
    /\ AtMost(error_recovery_success_rate(u), error_recovery_success_rate(t))
    /\ AtMost(schema_validity_rate(u), schema_validity_rate(t))
    /\ AtMost(valid_transition_rate(u), valid_transition_rate(t))
    /\ AtMost(1000 - hallucination_rate(u, truth), 1000 - hallucination_rate(t, truth))
    /\ AtMost(plan_coherence(u, truth), plan_coherence(t, truth))
    /\ average_retries(u) >= average_retries(t)
    /\ total_latency_ms(u) >= total_latency_ms(t)

\* Where faults are absorbed, the flaky mock is marked no better.
LEMMA FlakyIsNoBetter ==
    ASSUME NEW a, a \in Alerts, NEW s \in Settings, NEW high, AbsorbsFaults(a, s)
    PROVE  NoBetter(Planned(a, "mock_flaky", s, high), Planned(a, "mock", s, high),
                    GroundTruth[a])
<1> DEFINE t == Planned(a, "mock", s, high)
           u == Planned(a, "mock_flaky", s, high)
           N == PlannedLength(a, "mock", s, high)
           M == PlannedLength(a, "mock_flaky", s, high)
           truth == GroundTruth[a]
<1>1. truth \in Truth /\ LaneOf(a) \subseteq truth.entities
    BY GroundTruthAssumption DEF GroundTruthAssumption, AbsorbsFaults
<1>2. N \in Nat /\ M \in Nat
    BY PlannedStarts
<1>3. /\ DOMAIN t = 1..N /\ \A i \in 1..N : t[i] = PlannedStep(a, "mock", s, i)
      /\ DOMAIN u = 1..M /\ \A i \in 1..M : u[i] = PlannedStep(a, "mock_flaky", s, i)
    BY DEF Planned
<1>4. /\ \A i \in 1..N : PlannedStep(a, "mock", s, i).entities \subseteq LaneOf(a)
      /\ \A i \in 1..M : PlannedStep(a, "mock_flaky", s, i).entities \subseteq LaneOf(a)
    BY PlannedEntities DEF MockProviders
<1>5. /\ valid_transition_rate(t) = 1000 /\ valid_transition_rate(u) = 1000
    BY PlansAreLegal
<1>6. PICK f : Embeds(f, t, u)
    BY PlansEmbed DEF Embeddable
<1>7. /\ \A i \in 1..N : PlannedStep(a, "mock", s, i).error # "schema"
      /\ Reach(a, "mock", s, high) # 2 =>
           \A i \in 1..N : /\ PlannedStep(a, "mock", s, i).error = "none"
                          /\ PlannedStep(a, "mock", s, i).retry_of = 0
    BY SparedSteps
<1>8. Reach(a, "mock", s, high) = 2 =>
        /\ error_recovery_success_rate(t) = 0 /\ error_recovery_success_rate(u) = 0
        /\ average_retries(t) = average_retries(u)
  <2> SUFFICES ASSUME Reach(a, "mock", s, high) = 2
               PROVE  /\ error_recovery_success_rate(t) = 0
                      /\ error_recovery_success_rate(u) = 0
                      /\ average_retries(t) = average_retries(u)
    OBVIOUS
  <2>1. LaneOf(a) = {} /\ Reach(a, "mock_flaky", s, high) = 2
    BY FaultsLeaveReach DEF MockProviders
  <2>2. MeetsNoLimit(a, "mock", s) /\ MeetsNoLimit(a, "mock_flaky", s)
    BY FaultsLeaveReach
  <2>3. LookedUp(a, "mock", s) = LookedUp(a, "mock_flaky", s)
    BY <2>1, <2>2 DEF LookedUp, Lookups, MeetsNoLimit
  <2>4. /\ error_recovery_success_rate(t) = 0
        /\ average_retries(t) = Cardinality({i \in 1..LookedUp(a, "mock", s) : i > 3})
    BY <2>1, NothingIsRecovered DEF MockProviders
  <2>5. /\ error_recovery_success_rate(u) = 0
        /\ average_retries(u) = Cardinality({i \in 1..LookedUp(a, "mock_flaky", s) : i > 3})
    BY <2>1, NothingIsRecovered DEF MockProviders
  <2> QED
    BY <2>3, <2>4, <2>5
<1> HIDE DEF t, u, N, M, truth
<1>9. total_latency_ms(t) <= total_latency_ms(u)
    BY Zenon, <1>2, <1>3, <1>6, EmbeddedLatency
<1>10. plan_coherence(t, truth) = plan_coherence(u, truth)
  <2>1. CoherentAlike(t, u)
    BY Zenon, <1>2, <1>3, <1>6, EmbeddedCoherence
  <2> QED
    BY <2>1 DEF CoherentAlike
<1>11. plan_coherence(t, truth) \in 0..1000
    BY <1>1, CoherenceRate
<1>12. hallucination_rate(t, truth) = 0 /\ hallucination_rate(u, truth) = 0
  <2>1. \A i \in 1..N : t[i].entities \subseteq truth.entities
    BY <1>1, <1>3, <1>4
  <2>2. \A i \in 1..M : u[i].entities \subseteq truth.entities
    BY <1>1, <1>3, <1>4
  <2> QED
    BY Zenon, <1>1, <1>2, <1>3, <2>1, <2>2, KnownEntities
<1>13. schema_validity_rate(t) = 1000 /\ schema_validity_rate(u) \in 0..1000
  <2>1. \A i \in 1..N : t[i].error # "schema"
    BY <1>3, <1>7
  <2>2. schema_validity_rate(t) = 1000
    BY <1>2, <1>3, <2>1, RatesOfSteps
  <2>3. schema_validity_rate(u) \in 0..1000 /\ average_retries(u) \in Nat
    BY <1>2, <1>3, RatesOfSteps
  <2> QED
    BY <2>2, <2>3
<1>14. /\ error_recovery_success_rate(t) \in 0..1000
       /\ error_recovery_success_rate(u) \in 0..1000
       /\ average_retries(u) \in Nat /\ average_retries(t) \in Nat
    BY <1>2, <1>3, RatesOfSteps
<1>15. Reach(a, "mock", s, high) # 2 =>
         error_recovery_success_rate(t) = 1000 /\ average_retries(t) = 0
  <2> SUFFICES ASSUME Reach(a, "mock", s, high) # 2
               PROVE  error_recovery_success_rate(t) = 1000 /\ average_retries(t) = 0
    OBVIOUS
  <2>1. ErrorSteps(t) = {} /\ \A i \in 1..N : t[i].retry_of = 0
    BY <1>3, <1>7 DEF ErrorSteps
  <2> QED
    BY <1>2, <1>3, <2>1, RatesOfSteps
<1>16. NoBetter(u, t, truth)
  <2>1. AtMost(error_recovery_success_rate(u), error_recovery_success_rate(t))
    BY <1>8, <1>14, <1>15 DEF AtMost, Thousandths
  <2>2. AtMost(schema_validity_rate(u), schema_validity_rate(t))
    BY <1>13 DEF AtMost, Thousandths
  <2>3. AtMost(valid_transition_rate(u), valid_transition_rate(t))
    BY <1>5 DEF AtMost, Thousandths
  <2>4. AtMost(1000 - hallucination_rate(u, truth), 1000 - hallucination_rate(t, truth))
    BY <1>12 DEF AtMost, Thousandths
  <2>5. AtMost(plan_coherence(u, truth), plan_coherence(t, truth))
    BY <1>10, <1>11 DEF AtMost, Thousandths
  <2>6. average_retries(u) >= average_retries(t)
    BY <1>8, <1>14, <1>15
  <2>7. total_latency_ms(u) >= total_latency_ms(t)
    BY <1>2, <1>3, <1>9, LatencyIsNumber
  <2> QED
    BY <2>1, <2>2, <2>3, <2>4, <2>5, <2>6, <2>7 DEF NoBetter
<1> QED
    BY <1>16 DEF t, u, truth

\* Of two rates that compare, so do the rubric scores.
LEMMA RubricsCompare ==
    ASSUME NEW x, NEW y, AtMost(x, y)
    PROVE  to_rubric(x) \in 0..400 /\ to_rubric(y) \in 0..400 /\ to_rubric(x) <= to_rubric(y)
<1>1. x \in 0..1000 /\ y \in 0..1000 /\ x <= y
    BY DEF AtMost, Thousandths
<1>2. to_rubric(x) = (8 * x + 10) \div 20 /\ to_rubric(y) = (8 * y + 10) \div 20
    BY <1>1 DEF to_rubric, Nearest
<1> QED
    BY <1>1, <1>2

\* The weighted sum that a composite rounds.
WeightedSum(t, status, truth) ==
    25 * to_rubric(task_completion(status, truth))
    + 25 * to_rubric(error_recovery_success_rate(t))
    + 18 * to_rubric(schema_validity_rate(t))
    + 18 * to_rubric(valid_transition_rate(t))
    + 7 * to_rubric(1000 - hallucination_rate(t, truth))
    + 7 * to_rubric(plan_coherence(t, truth))

\* What is marked no better has no higher a weighted sum,
LEMMA SumsCompare ==
    ASSUME NEW t, NEW u, NEW truth, NoBetter(u, t, truth), NEW status
    PROVE  /\ WeightedSum(u, status, truth) \in Nat
           /\ WeightedSum(t, status, truth) \in Nat
           /\ WeightedSum(u, status, truth) <= WeightedSum(t, status, truth)
<1> DEFINE c == to_rubric(task_completion(status, truth))
           u1 == to_rubric(error_recovery_success_rate(u))
           u2 == to_rubric(schema_validity_rate(u))
           u3 == to_rubric(valid_transition_rate(u))
           u4 == to_rubric(1000 - hallucination_rate(u, truth))
           u5 == to_rubric(plan_coherence(u, truth))
           t1 == to_rubric(error_recovery_success_rate(t))
           t2 == to_rubric(schema_validity_rate(t))
           t3 == to_rubric(valid_transition_rate(t))
           t4 == to_rubric(1000 - hallucination_rate(t, truth))
           t5 == to_rubric(plan_coherence(t, truth))
<1>1. c \in 0..400
  <2>1. AtMost(task_completion(status, truth), task_completion(status, truth))
    BY DEF task_completion, AtMost, Thousandths
  <2> QED
    BY <2>1, RubricsCompare
<1>2. u1 \in 0..400 /\ t1 \in 0..400 /\ u1 <= t1
    BY RubricsCompare DEF NoBetter
<1>3. u2 \in 0..400 /\ t2 \in 0..400 /\ u2 <= t2
    BY RubricsCompare DEF NoBetter
<1>4. u3 \in 0..400 /\ t3 \in 0..400 /\ u3 <= t3
    BY RubricsCompare DEF NoBetter
<1>5. u4 \in 0..400 /\ t4 \in 0..400 /\ u4 <= t4
    BY RubricsCompare DEF NoBetter
<1>6. u5 \in 0..400 /\ t5 \in 0..400 /\ u5 <= t5
    BY RubricsCompare DEF NoBetter
<1>7. /\ WeightedSum(u, status, truth) = 25 * c + 25 * u1 + 18 * u2 + 18 * u3 + 7 * u4 + 7 * u5
      /\ WeightedSum(t, status, truth) = 25 * c + 25 * t1 + 18 * t2 + 18 * t3 + 7 * t4 + 7 * t5
    BY DEF WeightedSum
<1> HIDE DEF c, u1, u2, u3, u4, u5, t1, t2, t3, t4, t5
<1> QED
    BY <1>1, <1>2, <1>3, <1>4, <1>5, <1>6, <1>7

\* The lower of the composites a sum may be rounded to.
LowComposite(t, status, truth) == (WeightedSum(t, status, truth) + 4) \div 10

\* nor a higher composite.
LEMMA CompositesCompare ==
    ASSUME NEW t, NEW u, NEW truth, NoBetter(u, t, truth), NEW status
    PROVE  /\ LowComposite(u, status, truth) \in CompositeScores(u, status, truth)
           /\ LowComposite(t, status, truth) \in CompositeScores(t, status, truth)
           /\ LowComposite(u, status, truth) <= LowComposite(t, status, truth)
<1>1. /\ LowComposite(u, status, truth) \in CompositeScores(u, status, truth)
      /\ LowComposite(t, status, truth) \in CompositeScores(t, status, truth)
    BY DEF LowComposite, CompositeScores, composite_scores, WeightedSum
<1> DEFINE x == WeightedSum(u, status, truth)
           y == WeightedSum(t, status, truth)
<1>2. x \in Nat /\ y \in Nat /\ x <= y
    BY SumsCompare
<1> HIDE DEF x, y
<1>3. (x + 4) \div 10 <= (y + 4) \div 10
    BY <1>2
<1> QED
    BY <1>1, <1>3 DEF LowComposite, x, y

-----------------------------------------------------------------------------
\* A planned card is that of a plan: the one with the lower composite is planned
\* too, so that is the card where the rounding is decided.
IsCardOf(card, t, status, truth) ==
    /\ card.final_status = status
    /\ card.average_retries = average_retries(t)
    /\ card.total_latency_ms = total_latency_ms(t)
    /\ card.composite_score = LowComposite(t, status, truth)

PlannedCard(card, a, p, s, high) ==
    IsCardOf(card, Planned(a, p, s, high), PlannedStatus(a, p, s, high), GroundTruth[a])

\* Whichever way the score is rounded, the card is the same.
LEMMA CardOfPlan ==
    ASSUME NEW a \in Alerts, NEW p \in MockProviders, NEW s, RoundingIsDecided(s),
           NEW card \in PlannedCards(a, p, s), NEW high \in Highs(a, s)
    PROVE  PlannedCard(card, a, p, s, high)
<1> DEFINE t == Planned(a, p, s, high)
           status == PlannedStatus(a, p, s, high)
           truth == GroundTruth[a]
           low == LowComposite(t, status, truth)
<1>1. low \in CompositeScores(t, status, truth)
    BY DEF LowComposite, CompositeScores, composite_scores, WeightedSum
<1> HIDE DEF t, status, truth, low
<1>2. PICK other \in compute_scorecard(t, status, truth) :
        /\ other.final_status = status
        /\ other.average_retries = average_retries(t)
        /\ other.total_latency_ms = total_latency_ms(t)
        /\ other.composite_score = low
  <2> DEFINE scored(score) ==
            [final_status |-> status,
             plan_coherence |-> plan_coherence(t, truth),
             tool_selection_precision |-> tool_selection_precision(t, truth),
             schema_validity_rate |-> schema_validity_rate(t),
             valid_transition_rate |-> valid_transition_rate(t),
             error_recovery_success_rate |-> error_recovery_success_rate(t),
             average_retries |-> average_retries(t),
             hallucination_rate |-> hallucination_rate(t, truth),
             task_completion |-> task_completion(status, truth),
             total_latency_ms |-> total_latency_ms(t),
             composite_score |-> score]
  <2>1. compute_scorecard(t, status, truth) =
          {scored(score) : score \in CompositeScores(t, status, truth)}
    BY Zenon DEF compute_scorecard
  <2>2. /\ scored(low).final_status = status
        /\ scored(low).average_retries = average_retries(t)
        /\ scored(low).total_latency_ms = total_latency_ms(t)
        /\ scored(low).composite_score = low
    OBVIOUS
  <2> HIDE DEF scored
  <2>3. scored(low) \in compute_scorecard(t, status, truth)
    BY <1>1, <2>1
  <2> QED
    BY <2>2, <2>3
<1>3. other \in PlannedCards(a, p, s)
    BY <1>2 DEF PlannedCards, t, status, truth
<1>4. card = other
    BY <1>3 DEF RoundingIsDecided
<1> QED
    BY <1>2, <1>4 DEF PlannedCard, IsCardOf, t, status, truth, low

\* What the faults one mock injects do to its card.
Costs(flaky, plain) ==
    /\ flaky.final_status = plain.final_status
    /\ flaky.composite_score <= plain.composite_score
    /\ flaky.average_retries >= plain.average_retries
    /\ flaky.total_latency_ms >= plain.total_latency_ms

\* The cards of the two mocks for one alert compare as their plans do.
LEMMA FaultsCostMarks ==
    ASSUME NEW a, a \in Alerts, NEW s \in Settings, RoundingIsDecided(s), AbsorbsFaults(a, s),
           NEW flaky \in PlannedCards(a, "mock_flaky", s),
           NEW plain \in PlannedCards(a, "mock", s)
    PROVE  Costs(flaky, plain)
<1>1. PICK high \in Highs(a, s) : TRUE
    BY DEF PlannedCards
<1> DEFINE t == Planned(a, "mock", s, high)
           u == Planned(a, "mock_flaky", s, high)
           status == PlannedStatus(a, "mock", s, high)
           truth == GroundTruth[a]
<1>2. PlannedCard(flaky, a, "mock_flaky", s, high) /\ PlannedCard(plain, a, "mock", s, high)
    BY <1>1, CardOfPlan DEF MockProviders
<1>3. PlannedStatus(a, "mock_flaky", s, high) = status
    BY FaultsLeaveReach DEF PlannedStatus
<1>4. IsCardOf(flaky, u, status, truth) /\ IsCardOf(plain, t, status, truth)
    BY <1>2, <1>3 DEF PlannedCard
<1>5. NoBetter(u, t, truth)
    BY FlakyIsNoBetter
<1> HIDE DEF t, u, status, truth
<1>6. LowComposite(u, status, truth) <= LowComposite(t, status, truth)
    BY <1>5, CompositesCompare
<1>7. average_retries(u) >= average_retries(t) /\ total_latency_ms(u) >= total_latency_ms(t)
    BY <1>5 DEF NoBetter
<1> QED
    BY <1>4, <1>6, <1>7 DEF IsCardOf, Costs

=============================================================================
