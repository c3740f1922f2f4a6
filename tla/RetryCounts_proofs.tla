-------------------------- MODULE RetryCounts_proofs --------------------------
(***************************************************************************)
(* Proofs about the retry counters and the failures in the trajectory they *)
(* stand for, for every network, set of alerts, settings, provider and     *)
(* recursion limit.                                                        *)
(***************************************************************************)
EXTENDS ReroutePipeline_proofs, FiniteSetTheorems

\* Node m records a step of some call.
StepIs(m, error, retry_of) ==
    \E tool, entities : add_step(m, tool, error, retry_of, entities)

\* What a lookup leaves behind for its edge.
LEMMA LookupShape ==
    ASSUME CarrierLookup
    PROVE  \/ /\ StepIs("carrier_lookup", "none", retry_of_step("carrier_lookup"))
              /\ ClearLastError
              /\ UNCHANGED retry_counts
           \/ \E error \in {"schema", "no_carrier"} :
                /\ StepIs("carrier_lookup", error, retry_of_step("carrier_lookup"))
                /\ CountFailure("carrier_lookup")
                /\ SetLastError("carrier_lookup", FALSE)
<1> DEFINE found == carrier_lookup(alert.origin, alert.destination, alert.affected)
           r == retry_of_step("carrier_lookup")
<1>1. PICK d \in Decisions(retry_counts.carrier_lookup) :
        LET error == IF ~ d.schema_valid THEN "schema"
                     ELSE IF found = {} THEN "no_carrier" ELSE "none"
        IN  \/ /\ error = "none"
               /\ add_step("carrier_lookup", d.tool, "none", r, found)
               /\ ClearLastError
               /\ UNCHANGED retry_counts
            \/ /\ error # "none"
               /\ add_step("carrier_lookup", d.tool, error, r, {})
               /\ CountFailure("carrier_lookup")
               /\ SetLastError("carrier_lookup", FALSE)
    BY Zenon DEF CarrierLookup
<1> HIDE DEF found, r
<1>2. CASE /\ add_step("carrier_lookup", d.tool, "none", r, found)
           /\ ClearLastError
           /\ UNCHANGED retry_counts
    BY <1>2 DEF StepIs, r
<1>3. CASE \E error \in {"schema", "no_carrier"} :
             /\ add_step("carrier_lookup", d.tool, error, r, {})
             /\ CountFailure("carrier_lookup")
             /\ SetLastError("carrier_lookup", FALSE)
    BY <1>3 DEF StepIs, r
<1> QED
    BY <1>1, <1>2, <1>3

\* What an execution leaves behind for its edge.
LEMMA ExecutionShape ==
    ASSUME Execution
    PROVE  \/ /\ StepIs("execution", "none", retry_of_step("execution"))
              /\ ClearLastError
              /\ UNCHANGED retry_counts
           \/ \E error \in Errors \ {"none"} :
                /\ StepIs("execution", error, retry_of_step("execution"))
                /\ CountFailure("execution")
                /\ SetLastError("execution", error = "transient")
<1>1. PICK d \in Decisions(retry_counts.execution) :
        /\ add_step("execution", d.tool, CallError(d), retry_of_step("execution"),
                    {d.carrier})
        /\ \/ /\ CallError(d) = "none"
              /\ ClearLastError
              /\ UNCHANGED retry_counts
           \/ /\ CallError(d) # "none"
              /\ CountFailure("execution")
              /\ SetLastError("execution", CallError(d) = "transient")
    BY DEF Execution
<1>2. CallError(d) \in Errors
    BY ErrorOfCall
<1>3. StepIs("execution", CallError(d), retry_of_step("execution"))
    BY <1>1, Zenon DEF StepIs
<1> QED
    BY <1>1, <1>2, <1>3

Failed(n) == Cardinality(FailedStepsOf(n))
Succeeded(n) == Cardinality(StepsOf(n) \ FailedStepsOf(n))

\* Positions of a trajectory can be counted.
LEMMA CountsAreNumbers ==
    ASSUME TypeOK, NEW n
    PROVE  /\ IsFiniteSet(FailedStepsOf(n)) /\ IsFiniteSet(StepsOf(n) \ FailedStepsOf(n))
           /\ Failed(n) \in Nat /\ Succeeded(n) \in Nat
<1>1. Len(trajectory) \in Nat /\ DOMAIN trajectory = 1..Len(trajectory)
    BY DEF TypeOK
<1>2. IsFiniteSet(1..Len(trajectory))
    BY <1>1, FS_Interval
<1>3. /\ FailedStepsOf(n) \subseteq 1..Len(trajectory)
      /\ StepsOf(n) \ FailedStepsOf(n) \subseteq 1..Len(trajectory)
    BY <1>1 DEF FailedStepsOf, StepsOf
<1>4. IsFiniteSet(FailedStepsOf(n)) /\ IsFiniteSet(StepsOf(n) \ FailedStepsOf(n))
    BY <1>2, <1>3, FS_Subset
<1> QED
    BY <1>4, FS_CardinalityType DEF Failed, Succeeded

\* A step is counted once, with the failures or with the successes of its node.
LEMMA StepIsCounted ==
    ASSUME TypeOK, NEW n, NEW m, NEW tool, NEW error, NEW retry_of, NEW entities,
           add_step(m, tool, error, retry_of, entities)
    PROVE  /\ Failed(n)' = IF m = n /\ error # "none" THEN Failed(n) + 1 ELSE Failed(n)
           /\ Succeeded(n)' = IF m = n /\ error = "none" THEN Succeeded(n) + 1
                              ELSE Succeeded(n)
<1> DEFINE p == Len(trajectory) + 1
           F == FailedStepsOf(n)
           O == StepsOf(n) \ FailedStepsOf(n)
<1>1. /\ trajectory \in Seq(Step)
      /\ Len(trajectory) \in Nat /\ DOMAIN trajectory = 1..Len(trajectory)
    BY DEF TypeOK
<1>2. /\ DOMAIN trajectory' = 1..p
      /\ \A i \in 1..Len(trajectory) : trajectory'[i] = trajectory[i]
      /\ trajectory'[p].node = m /\ trajectory'[p].error = error
    BY <1>1 DEF add_step
<1>3. 1..p = (1..Len(trajectory)) \cup {p} /\ p \notin 1..Len(trajectory)
    BY <1>1
<1>4. F' = IF m = n /\ error # "none" THEN F \cup {p} ELSE F
    BY <1>1, <1>2, <1>3 DEF FailedStepsOf, StepsOf
<1>5. O' = IF m = n /\ error = "none" THEN O \cup {p} ELSE O
    BY <1>1, <1>2, <1>3 DEF FailedStepsOf, StepsOf
<1>6. p \notin F /\ p \notin O
    BY <1>1, <1>3 DEF FailedStepsOf, StepsOf
<1>7. IsFiniteSet(F) /\ IsFiniteSet(O)
    BY CountsAreNumbers
<1>8. /\ Cardinality(F \cup {p}) = Cardinality(F) + 1
      /\ Cardinality(O \cup {p}) = Cardinality(O) + 1
    BY <1>6, <1>7, FS_AddElement
<1> QED
    BY <1>4, <1>5, <1>8 DEF Failed, Succeeded

-----------------------------------------------------------------------------
\* The counters match the trajectory, and a route found valid is not looked
\* at by the validator again.
CountInv ==
    /\ RetryCountsMatchTrajectory
    /\ validation_result = "valid" =>
         node \notin {"planner", "risk", "carrier_lookup", "route_optimizer", "validator"}

\* The numbers CountInv relates.
Matches(lookups, routes, executions, valid) ==
    /\ lookups = Failed("carrier_lookup")
    /\ executions = Failed("execution")
    /\ routes + (IF valid THEN 1 ELSE 0) = Succeeded("validator")

LEMMA CountersMatch ==
    RetryCountsMatchTrajectory <=>
        Matches(retry_counts.carrier_lookup, retry_counts.route_optimizer,
                retry_counts.execution, validation_result = "valid")
BY DEF RetryCountsMatchTrajectory, Matches, Failed, Succeeded

LEMMA FailedLookupIsCounted ==
    ASSUME TypeOK, CountInv, FailedStepsOf("carrier_lookup") # {}
    PROVE  retry_counts.carrier_lookup # 0
<1>1. Failed("carrier_lookup") # 0
    BY CountsAreNumbers, FS_EmptySet DEF Failed
<1> QED
    BY <1>1, CountersMatch DEF CountInv, Matches

LEMMA CountInit == Init => CountInv
<1> SUFFICES ASSUME Init
             PROVE  CountInv
    OBVIOUS
<1>1. \A n : FailedStepsOf(n) = {} /\ StepsOf(n) \ FailedStepsOf(n) = {}
    BY DEF Init, FailedStepsOf, StepsOf
<1>2. Cardinality({}) = 0
    BY FS_EmptySet
<1>3. \A n : Failed(n) = 0 /\ Succeeded(n) = 0
    BY <1>1, <1>2 DEF Failed, Succeeded
<1>4. retry_counts = NoRetries /\ validation_result = "none"
    BY DEF Init
<1>5. RetryCountsMatchTrajectory
    BY <1>3, <1>4, CountersMatch DEF Matches, NoRetries
<1> QED
    BY <1>4, <1>5 DEF CountInv

LEMMA CountStep == TypeOK /\ TypeOK' /\ CountInv /\ [Next]_vars => CountInv'
<1> SUFFICES ASSUME TypeOK, TypeOK', CountInv, [Next]_vars
             PROVE  CountInv'
    OBVIOUS
<1> USE DEF Enters
<1> DEFINE lk == retry_counts.carrier_lookup
           rt == retry_counts.route_optimizer
           ex == retry_counts.execution
           good == IF validation_result = "valid" THEN 1 ELSE 0
\* The counters and the counts before the step.
<1>m. /\ lk = Failed("carrier_lookup") /\ ex = Failed("execution")
      /\ rt + good = Succeeded("validator")
    BY CountersMatch DEF CountInv, Matches
<1>t. /\ retry_counts \in [carrier_lookup : Nat, route_optimizer : Nat, execution : Nat]
      /\ lk \in Nat /\ rt \in Nat /\ ex \in Nat
    BY DEF TypeOK
<1>v. ASSUME NEW n, CountFailure(n)
      PROVE  /\ n = "carrier_lookup" => lk' = lk + 1 /\ rt' = rt /\ ex' = ex
             /\ n = "route_optimizer" => lk' = lk /\ rt' = rt + 1 /\ ex' = ex
             /\ n = "execution" => lk' = lk /\ rt' = rt /\ ex' = ex + 1
    BY <1>v, <1>t DEF CountFailure
<1>w. ASSUME lk' = Failed("carrier_lookup")', ex' = Failed("execution")',
             rt' + good' = Succeeded("validator")'
      PROVE  RetryCountsMatchTrajectory'
    BY <1>w DEF RetryCountsMatchTrajectory, Failed, Succeeded
<1> HIDE DEF lk, rt, ex, good
<1>k. UNCHANGED retry_counts => lk' = lk /\ rt' = rt /\ ex' = ex
    BY DEF lk, rt, ex
<1>g. UNCHANGED validation_result => good' = good
    BY DEF good
\* A step no counter is about: of the planner, the risk, the optimizer or the
\* audit node, or a refused call of the validator.
<1>u. ASSUME NEW n, NEW tool, NEW error, NEW retry_of, NEW entities,
             add_step(n, tool, error, retry_of, entities),
             n \notin {"carrier_lookup", "execution"},
             n = "validator" => error # "none",
             UNCHANGED <<retry_counts, validation_result>>
      PROVE  RetryCountsMatchTrajectory'
  <2>1. /\ Failed("carrier_lookup")' = Failed("carrier_lookup")
        /\ Failed("execution")' = Failed("execution")
        /\ Succeeded("validator")' = Succeeded("validator")
    BY <1>u, StepIsCounted
  <2> QED
    BY <1>u, <1>m, <1>k, <1>g, <1>w, <2>1
<1>1. CASE Planner
    BY <1>1, <1>u DEF Planner, CountInv
<1>2. CASE Risk
  <2>1. RetryCountsMatchTrajectory'
    <3>1. PICK tool, error : add_step("risk", tool, error, 0, {})
      BY <1>2 DEF Risk
    <3> QED
      BY <1>2, <3>1, <1>u DEF Risk
  <2> QED
    BY <1>2, <2>1 DEF Risk, CountInv
<1>3. CASE CarrierLookup
  <2>1. /\ node = "carrier_lookup" /\ UNCHANGED validation_result
    BY <1>3 DEF CarrierLookup
  <2>2. PICK error, retry_of :
          /\ StepIs("carrier_lookup", error, retry_of)
          /\ \/ error = "none" /\ UNCHANGED retry_counts
             \/ error # "none" /\ CountFailure("carrier_lookup")
    <3> DEFINE Shape(error) ==
                 /\ StepIs("carrier_lookup", error, retry_of_step("carrier_lookup"))
                 /\ \/ error = "none" /\ UNCHANGED retry_counts
                    \/ error # "none" /\ CountFailure("carrier_lookup")
    <3>1. \E error \in Errors : Shape(error)
      BY <1>3, LookupShape DEF Errors
    <3> QED
      BY <3>1
  <2>3. /\ Failed("carrier_lookup")' = IF error # "none" THEN Failed("carrier_lookup") + 1
                                       ELSE Failed("carrier_lookup")
        /\ Failed("execution")' = Failed("execution")
        /\ Succeeded("validator")' = Succeeded("validator")
    BY <2>2, StepIsCounted DEF StepIs
  <2>4. RetryCountsMatchTrajectory'
    BY <2>1, <2>2, <2>3, <1>m, <1>k, <1>g, <1>v, <1>w
  <2> QED
    BY <2>1, <2>4 DEF CountInv
<1>4. CASE RouteOptimizer
  <2>1. RetryCountsMatchTrajectory'
    <3>1. PICK tool, error, entities : add_step("route_optimizer", tool, error, 0, entities)
      BY <1>4 DEF RouteOptimizer
    <3> QED
      BY <1>4, <3>1, <1>u DEF RouteOptimizer
  <2> QED
    BY <1>4, <2>1 DEF RouteOptimizer, CountInv
<1>5. CASE Validator
  <2>1. node = "validator" /\ validation_result # "valid" /\ good = 0
    BY <1>5 DEF Validator, CountInv, good
  <2>2. validation_result' = "valid" => node' = "execution"
    BY <1>5 DEF Validator, route_after_validator
  <2>3. \/ \E tool, seen : /\ add_step("validator", tool, "none", 0, seen)
                    /\ validation_result' = "valid" /\ UNCHANGED retry_counts
        \/ \E tool, seen : /\ add_step("validator", tool, "none", 0, seen)
                    /\ validation_result' = "invalid" /\ CountFailure("route_optimizer")
        \/ \E tool, seen : /\ add_step("validator", tool, "schema", 0, seen)
                    /\ UNCHANGED <<retry_counts, validation_result>>
    BY <1>5, Zenon DEF Validator
  <2>4. ASSUME NEW tool, NEW seen, add_step("validator", tool, "none", 0, seen)
        PROVE  /\ Failed("carrier_lookup")' = Failed("carrier_lookup")
               /\ Failed("execution")' = Failed("execution")
               /\ Succeeded("validator")' = Succeeded("validator") + 1
    BY <2>4, StepIsCounted
  <2>5. ASSUME NEW tool, NEW seen, add_step("validator", tool, "none", 0, seen),
               validation_result' = "valid", UNCHANGED retry_counts
        PROVE  CountInv'
    <3>1. good' = 1
      BY <2>5 DEF good
    <3> QED
      BY <2>1, <2>2, <2>4, <2>5, <3>1, <1>m, <1>t, <1>k, <1>w DEF CountInv
  <2>6. ASSUME NEW tool, NEW seen, add_step("validator", tool, "none", 0, seen),
               validation_result' = "invalid", CountFailure("route_optimizer")
        PROVE  CountInv'
    <3>1. good' = 0
      BY <2>6 DEF good
    <3> QED
      BY <2>1, <2>4, <2>6, <3>1, <1>m, <1>t, <1>v, <1>w DEF CountInv
  <2>7. ASSUME NEW tool, NEW seen, add_step("validator", tool, "schema", 0, seen),
               UNCHANGED <<retry_counts, validation_result>>
        PROVE  CountInv'
    BY <2>1, <2>7, <1>u DEF CountInv
  <2> QED
    BY <2>3, <2>5, <2>6, <2>7
<1>6. CASE Execution
  <2>1. /\ node = "execution" /\ UNCHANGED validation_result
        /\ node' \in {"execution", "audit", "fail_execution"}
    BY <1>6 DEF Execution, route_after_execution
  <2>2. PICK error, retry_of :
          /\ StepIs("execution", error, retry_of)
          /\ \/ error = "none" /\ UNCHANGED retry_counts
             \/ error # "none" /\ CountFailure("execution")
    <3> DEFINE Shape(error) ==
                 /\ StepIs("execution", error, retry_of_step("execution"))
                 /\ \/ error = "none" /\ UNCHANGED retry_counts
                    \/ error # "none" /\ CountFailure("execution")
    <3>1. \E error \in Errors : Shape(error)
      BY <1>6, ExecutionShape DEF Errors
    <3> QED
      BY <3>1
  <2>3. /\ Failed("carrier_lookup")' = Failed("carrier_lookup")
        /\ Failed("execution")' = IF error # "none" THEN Failed("execution") + 1
                                  ELSE Failed("execution")
        /\ Succeeded("validator")' = Succeeded("validator")
    <3>1. PICK tool, entities : add_step("execution", tool, error, retry_of, entities)
      BY <2>2 DEF StepIs
    <3>2. Failed("carrier_lookup")' = Failed("carrier_lookup")
      BY <3>1, StepIsCounted
    <3>3. Failed("execution")' = IF error # "none" THEN Failed("execution") + 1
                                 ELSE Failed("execution")
      BY <3>1, StepIsCounted
    <3>4. Succeeded("validator")' = Succeeded("validator")
      BY <3>1, StepIsCounted
    <3> QED
      BY <3>2, <3>3, <3>4
  <2>4. RetryCountsMatchTrajectory'
    BY <2>1, <2>2, <2>3, <1>m, <1>k, <1>g, <1>v, <1>w
  <2> QED
    BY <2>1, <2>4 DEF CountInv
<1>7. CASE Audit
    BY <1>7, <1>u DEF Audit, CountInv
<1>12. CASE ResultIsNoModel
  <2>1. /\ node \in {"risk", "execution"} /\ node' = "AttributeError"
        /\ UNCHANGED <<retry_counts, validation_result>>
    BY <1>12, NoModelStep
  <2>2. \E tool, retry_of, entities :
            \/ add_step("execution", tool, "none", retry_of, entities)
            \/ add_step("risk", tool, "none", retry_of, entities)
    BY <1>12, NoModelStep
  <2>3. /\ Failed("carrier_lookup")' = Failed("carrier_lookup")
        /\ Failed("execution")' = Failed("execution")
        /\ Succeeded("validator")' = Succeeded("validator")
    BY <2>2, StepIsCounted
  <2>4. RetryCountsMatchTrajectory'
    BY <2>1, <2>3, <1>m, <1>k, <1>g, <1>w
  <2> QED
    BY <2>1, <2>4 DEF CountInv
<1>8. ASSUME UNCHANGED <<trajectory, retry_counts, validation_result>>,
             UNCHANGED node \/ node' \in TerminalNodes \cup Stopped
      PROVE  CountInv'
    BY <1>8 DEF CountInv, RetryCountsMatchTrajectory, FailedStepsOf, StepsOf,
                TerminalNodes, Stopped, Exceptions
<1>9. CASE ValidateNothing \/ AuditWriteFails \/ ProviderRaises \/ RecursionAbort
    BY <1>8, <1>9 DEF ValidateNothing, AuditWriteFails, ProviderRaises, RecursionAbort,
                      Stopped, Exceptions
<1>10. CASE EscalateHighRisk \/ EscalateNoViableRoute \/ FailExecution
    BY <1>8, <1>10 DEF EscalateHighRisk, EscalateNoViableRoute, FailExecution, Terminal,
                       Stopped
<1>11. CASE UNCHANGED vars
    BY <1>8, <1>11 DEF vars
<1> QED
    BY <1>1, <1>2, <1>3, <1>4, <1>5, <1>6, <1>7, <1>9, <1>10, <1>11,
       <1>12 DEF Next, NodeStep, Terminating

\* The retry counters are the failures the trajectory shows, at every moment
\* of every run, with any provider and whether or not _last_error is carried.
THEOREM CountersAreFailures == Spec => []RetryCountsMatchTrajectory
<1>1. CountInv => RetryCountsMatchTrajectory
    BY DEF CountInv
<1> QED
    BY <1>1, TypeCorrect, InitType, StepType, CountInit, CountStep, PTL DEF Spec

=============================================================================
