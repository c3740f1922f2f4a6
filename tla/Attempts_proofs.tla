---------------------------- MODULE Attempts_proofs ----------------------------
(***************************************************************************)
(* Proofs about how often a node is tried, what its retries refer to and   *)
(* when a run may fail, for every network, set of alerts, settings and     *)
(* recursion limit.                                                        *)
(***************************************************************************)
EXTENDS RetryCounts_proofs

-----------------------------------------------------------------------------
(* The trajectory and the counters, step by step.                          *)

\* Node m records its step; only the audit gives a status away, and it is not
\* that of a failure.
Runs(m, error, retry_of) ==
    /\ node = m /\ Len(trajectory) < RecursionLimit
    /\ StepIs(m, error, retry_of)
    /\ final_status' \in {final_status, "SUCCESS"}

Plans == Runs("planner", "none", 0) /\ node' = "risk" /\ UNCHANGED retry_counts

Scores ==
    /\ \E error : Runs("risk", error, 0)
    /\ node' \in {"escalate_high_risk", "carrier_lookup"}
    /\ UNCHANGED retry_counts

FindsCarriers ==
    /\ Runs("carrier_lookup", "none", retry_of_step("carrier_lookup"))
    /\ node' = "route_optimizer"
    /\ UNCHANGED retry_counts

FindsNone ==
    /\ \E error : error # "none" /\ Runs("carrier_lookup", error, retry_of_step("carrier_lookup"))
    /\ CountFailure("carrier_lookup")
    /\ node' = IF ~ LastErrorCarried THEN "route_optimizer"
               ELSE IF retry_counts'.carrier_lookup <= settings.max_retries_carrier_lookup
               THEN "carrier_lookup" ELSE "escalate_no_viable_route"

Proposes ==
    /\ \E error : Runs("route_optimizer", error, 0)
    /\ node' \in {"validator", "escalate_no_viable_route"}
    /\ UNCHANGED retry_counts

Accepts == Runs("validator", "none", 0) /\ node' = "execution" /\ UNCHANGED retry_counts

Rejects ==
    /\ Runs("validator", "none", 0)
    /\ CountFailure("route_optimizer")
    /\ node' = IF retry_counts'.route_optimizer <= settings.max_retries_route_optimizer
               THEN "route_optimizer" ELSE "escalate_no_viable_route"

\* The call of an adapter that the registry refuses: the validator's edge goes
\* by the result of an earlier proposal.
Refuses ==
    /\ provider = "adapter"
    /\ Runs("validator", "schema", 0)
    /\ node' \in {"execution", "route_optimizer", "escalate_no_viable_route"}
    /\ UNCHANGED retry_counts

Books ==
    /\ Runs("execution", "none", retry_of_step("execution"))
    /\ node' = "audit"
    /\ UNCHANGED retry_counts

FailsToBook(error) ==
    /\ Runs("execution", error, retry_of_step("execution"))
    /\ CountFailure("execution")
    /\ node' = IF ~ LastErrorCarried THEN "audit"
               ELSE IF /\ error = "transient"
                       /\ retry_counts'.execution <= settings.max_retries_execution
               THEN "execution" ELSE "fail_execution"

\* A plain node meets a result that is no model.
Balks ==
    /\ \/ Runs("risk", "none", 0)
       \/ Runs("execution", "none", retry_of_step("execution"))
    /\ node' = "AttributeError"
    /\ UNCHANGED <<retry_counts, execution_result>>

\* What may keep an execution from returning a result.
CallErrors == {"schema", "no_carrier", "infeasible", "transient"}

Audits == Runs("audit", "none", 0) /\ node' = "END" /\ UNCHANGED retry_counts

\* No step is recorded: the run ends, or has ended.
Rests ==
    /\ UNCHANGED <<trajectory, retry_counts, execution_result>>
    /\ UNCHANGED node \/ node' \in Stopped
    /\ final_status' = "FAILED" => final_status = "FAILED" \/ node = "fail_execution"

\* What a step of the graph does to its trajectory, its counters and its edge.
LEMMA StepShapes ==
    TypeOK /\ ControlInv /\ [Next]_vars =>
        /\ UNCHANGED <<provider, settings>>
        /\ \/ Plans \/ Scores \/ FindsCarriers \/ FindsNone \/ Proposes
           \/ Accepts \/ Rejects \/ Refuses \/ Books
           \/ \E error \in CallErrors : FailsToBook(error)
           \/ Balks \/ Audits \/ Rests
<1> SUFFICES ASSUME TypeOK, ControlInv, [Next]_vars
             PROVE  /\ UNCHANGED <<provider, settings>>
                    /\ \/ Plans \/ Scores \/ FindsCarriers \/ FindsNone \/ Proposes
                       \/ Accepts \/ Rejects \/ Refuses \/ Books
                       \/ \E error \in CallErrors : FailsToBook(error)
                       \/ Balks \/ Audits \/ Rests
    OBVIOUS
<1> USE DEF inputs, proposal, outcome, Enters
<1>p. UNCHANGED <<provider, settings>>
    BY DEF Next, NodeStep, Terminating, vars, Planner, Risk, CarrierLookup,
           RouteOptimizer, Validator, ValidateNothing, Execution, ResultIsNoModel, Audit,
           AuditWriteFails, EscalateHighRisk, EscalateNoViableRoute,
           FailExecution, Terminal, ProviderRaises, RecursionAbort
\* The last error after a node has set or cleared it.
<1>e. /\ \A n, transient : SetLastError(n, transient) =>
             last_error' = IF LastErrorCarried THEN [node |-> n, transient |-> transient]
                           ELSE NoError
      /\ ClearLastError => last_error' = NoError
    BY DEF SetLastError, ClearLastError, ControlInv
<1>1. CASE Planner
  <2>1. Plans
    BY <1>1 DEF Planner, Plans, Runs, StepIs
  <2> QED
    BY <1>p, <2>1
<1>2. CASE Risk
  <2>1. Scores
    <3>1. PICK tool, error : add_step("risk", tool, error, 0, {})
      BY <1>2 DEF Risk
    <3>2. StepIs("risk", error, 0)
      BY <3>1 DEF StepIs
    <3> QED
      BY <1>2, <3>2 DEF Risk, Scores, Runs, route_after_risk
  <2> QED
    BY <1>p, <2>1
<1>3. CASE CarrierLookup
  <2> DEFINE r == retry_of_step("carrier_lookup")
  <2>1. /\ Enters("carrier_lookup") /\ final_status' = final_status
        /\ node' = route_after_carrier_lookup(last_error', retry_counts'.carrier_lookup)
    BY <1>3 DEF CarrierLookup
  <2>4. \/ /\ StepIs("carrier_lookup", "none", r)
           /\ ClearLastError /\ UNCHANGED retry_counts
        \/ \E error \in {"schema", "no_carrier"} :
             /\ StepIs("carrier_lookup", error, r)
             /\ CountFailure("carrier_lookup")
             /\ SetLastError("carrier_lookup", FALSE)
    BY <1>3, LookupShape
  <2> HIDE DEF r
  <2>2. ASSUME StepIs("carrier_lookup", "none", r), ClearLastError, UNCHANGED retry_counts
        PROVE  FindsCarriers
    BY <1>e, <2>1, <2>2 DEF FindsCarriers, Runs, r, route_after_carrier_lookup, NoError
  <2>3. ASSUME NEW error \in {"schema", "no_carrier"}, StepIs("carrier_lookup", error, r),
               CountFailure("carrier_lookup"), SetLastError("carrier_lookup", FALSE)
        PROVE  FindsNone
    <3>1. Runs("carrier_lookup", error, r)
      BY <2>1, <2>3 DEF Runs
    <3>2. last_error' = IF LastErrorCarried THEN [node |-> "carrier_lookup", transient |-> FALSE]
                        ELSE NoError
      BY <1>e, <2>3
    <3>3. node' = IF ~ LastErrorCarried THEN "route_optimizer"
                  ELSE IF retry_counts'.carrier_lookup <= settings.max_retries_carrier_lookup
                  THEN "carrier_lookup" ELSE "escalate_no_viable_route"
      BY <1>p, <2>1, <3>2 DEF route_after_carrier_lookup, NoError
    <3> QED
      BY <2>3, <3>1, <3>3 DEF FindsNone, r
  <2> QED
    BY <1>p, <2>4, <2>2, <2>3
<1>4. CASE RouteOptimizer
  <2>1. \E error : StepIs("route_optimizer", error, 0)
    <3>1. PICK tool, error, feasible : add_step("route_optimizer", tool, error, 0, feasible)
      BY <1>4 DEF RouteOptimizer
    <3> QED
      BY <3>1 DEF StepIs
  <2>2. Proposes
    BY <1>4, <2>1 DEF RouteOptimizer, Proposes, Runs, route_after_route_optimizer
  <2> QED
    BY <1>p, <2>2
<1>5. CASE Validator
  <2>1. /\ Enters("validator") /\ final_status' = final_status
        /\ node' = route_after_validator(validation_result', retry_counts'.route_optimizer)
    BY <1>5 DEF Validator
  <2>2. \/ \E tool, seen : /\ add_step("validator", tool, "none", 0, seen)
                           /\ validation_result' = "valid" /\ UNCHANGED retry_counts
        \/ \E tool, seen : /\ add_step("validator", tool, "none", 0, seen)
                           /\ validation_result' = "invalid"
                           /\ CountFailure("route_optimizer")
        \/ \E d \in Decisions(0) : \E tool, seen :
                /\ ~ d.schema_valid /\ add_step("validator", tool, "schema", 0, seen)
                /\ UNCHANGED retry_counts
    BY <1>5, Zenon DEF Validator
  <2>3. ASSUME NEW tool, NEW seen, add_step("validator", tool, "none", 0, seen),
               validation_result' = "valid", UNCHANGED retry_counts
        PROVE  Accepts
    <3>1. StepIs("validator", "none", 0)
      BY <2>3 DEF StepIs
    <3> QED
      BY <2>1, <2>3, <3>1 DEF Accepts, Runs, route_after_validator
  <2>4. ASSUME NEW tool, NEW seen, add_step("validator", tool, "none", 0, seen),
               validation_result' = "invalid", CountFailure("route_optimizer")
        PROVE  Rejects
    <3>1. StepIs("validator", "none", 0)
      BY <2>4 DEF StepIs
    <3> QED
      BY <1>p, <2>1, <2>4, <3>1 DEF Rejects, Runs, route_after_validator
  <2>5. ASSUME NEW d \in Decisions(0), NEW tool, NEW seen, ~ d.schema_valid,
               add_step("validator", tool, "schema", 0, seen), UNCHANGED retry_counts
        PROVE  Refuses
    <3>1. provider = "adapter"
      BY <2>1, <2>5, ShippedDecision
    <3>2. StepIs("validator", "schema", 0)
      BY <2>5 DEF StepIs
    <3> QED
      BY <2>1, <2>5, <3>1, <3>2 DEF Refuses, Runs, route_after_validator
  <2> QED
    BY <1>p, <2>2, <2>3, <2>4, <2>5
<1>6. CASE Execution
  <2> DEFINE r == retry_of_step("execution")
  <2>1. /\ Enters("execution") /\ final_status' = final_status
        /\ node' = route_after_execution(last_error', retry_counts'.execution)
    BY <1>6 DEF Execution
  <2>4. \/ /\ StepIs("execution", "none", r)
           /\ ClearLastError /\ UNCHANGED retry_counts
        \/ \E error \in CallErrors :
             /\ StepIs("execution", error, r)
             /\ CountFailure("execution")
             /\ SetLastError("execution", error = "transient")
    <3>1. Errors \ {"none"} = CallErrors
      BY DEF Errors, CallErrors
    <3> QED
      BY <1>6, <3>1, ExecutionShape
  <2> HIDE DEF r
  <2>2. ASSUME StepIs("execution", "none", r), ClearLastError, UNCHANGED retry_counts
        PROVE  Books
    BY <1>e, <2>1, <2>2 DEF Books, Runs, r, route_after_execution, NoError
  <2>3. ASSUME NEW error \in CallErrors,
               StepIs("execution", error, r), CountFailure("execution"),
               SetLastError("execution", error = "transient")
        PROVE  FailsToBook(error)
    <3>1. Runs("execution", error, r)
      BY <2>1, <2>3 DEF Runs
    <3>2. last_error' = IF LastErrorCarried
                        THEN [node |-> "execution", transient |-> error = "transient"]
                        ELSE NoError
      BY <1>e, <2>3
    <3>3. /\ LastErrorCarried => /\ last_error'.node = "execution"
                                 /\ last_error'.transient <=> error = "transient"
          /\ ~ LastErrorCarried => last_error'.node = "none"
      BY <3>2 DEF NoError
    <3>4. node' = IF ~ LastErrorCarried THEN "audit"
                  ELSE IF /\ error = "transient"
                          /\ retry_counts'.execution <= settings.max_retries_execution
                  THEN "execution" ELSE "fail_execution"
      BY <1>p, <2>1, <3>3 DEF route_after_execution
    <3> QED
      BY <2>3, <3>1, <3>4 DEF FailsToBook, r
  <2> QED
    BY <1>p, <2>4, <2>2, <2>3
<1>11. CASE ResultIsNoModel
  <2>1. \/ node = "execution" /\ StepIs("execution", "none", retry_of_step("execution"))
        \/ node = "risk" /\ StepIs("risk", "none", 0)
    BY <1>11, NoModelStep DEF StepIs
  <2>2. Balks
    BY <1>11, <2>1, NoModelStep DEF Balks, Runs
  <2> QED
    BY <1>p, <2>2
<1>7. CASE Audit
  <2>1. Audits
    BY <1>7 DEF Audit, Audits, Runs, StepIs
  <2> QED
    BY <1>p, <2>1
<1>8. CASE ValidateNothing \/ AuditWriteFails \/ ProviderRaises \/ RecursionAbort
  <2>1. Rests
    BY <1>8 DEF ValidateNothing, AuditWriteFails, ProviderRaises, RecursionAbort, Rests,
                Stopped, Exceptions
  <2> QED
    BY <1>p, <2>1
<1>9. CASE EscalateHighRisk \/ EscalateNoViableRoute \/ FailExecution
  <2>1. Rests
    BY <1>9 DEF EscalateHighRisk, EscalateNoViableRoute, FailExecution, Terminal, Rests,
                Stopped
  <2> QED
    BY <1>p, <2>1
<1>10. CASE UNCHANGED vars
  <2>1. Rests
    BY <1>10 DEF vars, Rests
  <2> QED
    BY <1>p, <2>1
<1> QED
    BY <1>1, <1>2, <1>3, <1>4, <1>5, <1>6, <1>7, <1>8, <1>9, <1>10,
       <1>11 DEF Next, NodeStep, Terminating

-----------------------------------------------------------------------------
(* How often a node is tried.                                              *)

Tried(n) == Cardinality(StepsOf(n))

LEMMA TriesAreNumbers ==
    ASSUME TypeOK, NEW n
    PROVE  IsFiniteSet(StepsOf(n)) /\ Tried(n) \in Nat
<1>1. Len(trajectory) \in Nat /\ DOMAIN trajectory = 1..Len(trajectory)
    BY DEF TypeOK
<1>2. IsFiniteSet(1..Len(trajectory)) /\ StepsOf(n) \subseteq 1..Len(trajectory)
    BY <1>1, FS_Interval DEF StepsOf
<1> QED
    BY <1>2, FS_Subset, FS_CardinalityType DEF Tried

LEMMA StepIsTried ==
    ASSUME TypeOK, NEW n, NEW m, NEW error, NEW retry_of, StepIs(m, error, retry_of)
    PROVE  Tried(n)' = IF m = n THEN Tried(n) + 1 ELSE Tried(n)
<1> DEFINE p == Len(trajectory) + 1
           A == StepsOf(n)
<1>1. /\ trajectory \in Seq(Step)
      /\ Len(trajectory) \in Nat /\ DOMAIN trajectory = 1..Len(trajectory)
    BY DEF TypeOK
<1>2. /\ DOMAIN trajectory' = (1..Len(trajectory)) \cup {p} /\ p \notin 1..Len(trajectory)
      /\ \A i \in 1..Len(trajectory) : trajectory'[i] = trajectory[i]
      /\ trajectory'[p].node = m
  <2>1. PICK tool, entities : add_step(m, tool, error, retry_of, entities)
    BY DEF StepIs
  <2> QED
    BY <1>1, <2>1 DEF add_step
<1>3. A' = (IF m = n THEN A \cup {p} ELSE A) /\ p \notin A
    BY <1>1, <1>2 DEF StepsOf
<1>4. Cardinality(A \cup {p}) = Cardinality(A) + 1
    BY <1>3, TriesAreNumbers, FS_AddElement
<1> QED
    BY <1>3, <1>4 DEF Tried

\* What may have been tried at node n: lk, rt and ex are the counters, tl, to
\* and te the tries of the lookup, the optimizer and the execution, L, R and E
\* the retries their settings grant; shipped tells an adapter from the others.
Attempts(n, shipped, lk, rt, ex, tl, to, te, L, R, E) ==
    /\ n \in {"planner", "risk"} => tl = 0 /\ lk = 0
    /\ n \in {"planner", "risk", "carrier_lookup"} => to = 0 /\ rt = 0
    /\ n \in {"planner", "risk", "carrier_lookup",
              "route_optimizer", "validator"} => te = 0 /\ ex = 0
    /\ n = "carrier_lookup" => tl = lk /\ lk <= L
    /\ n = "execution" => te = ex /\ ex <= E
    /\ tl <= L + 1 /\ te <= E + 1
    /\ shipped =>
         /\ n = "route_optimizer" => to = rt /\ rt <= R
         /\ n = "validator" => to = rt + 1 /\ rt <= R
         /\ to <= R + 1

AttemptsInv ==
    Attempts(node, provider # "adapter",
             retry_counts.carrier_lookup, retry_counts.route_optimizer,
             retry_counts.execution,
             Tried("carrier_lookup"), Tried("route_optimizer"), Tried("execution"),
             settings.max_retries_carrier_lookup, settings.max_retries_route_optimizer,
             settings.max_retries_execution)

LEMMA AttemptsInit == TypeOK /\ Init => AttemptsInv
<1> SUFFICES ASSUME TypeOK, Init
             PROVE  AttemptsInv
    OBVIOUS
<1>1. \A n : StepsOf(n) = {}
    BY DEF Init, StepsOf
<1>2. \A n : Tried(n) = 0
    BY <1>1, FS_EmptySet DEF Tried
<1> QED
    BY <1>2, SettingsType DEF Init, AttemptsInv, Attempts, NoRetries

LEMMA AttemptsStep ==
    TypeOK /\ ControlInv /\ AttemptsInv /\ [Next]_vars => AttemptsInv'
<1> SUFFICES ASSUME TypeOK, ControlInv, AttemptsInv, [Next]_vars
             PROVE  AttemptsInv'
    OBVIOUS
<1> DEFINE shipped == provider # "adapter"
           lk == retry_counts.carrier_lookup
           rt == retry_counts.route_optimizer
           ex == retry_counts.execution
           tl == Tried("carrier_lookup")
           to == Tried("route_optimizer")
           te == Tried("execution")
           L == settings.max_retries_carrier_lookup
           R == settings.max_retries_route_optimizer
           E == settings.max_retries_execution
<1>1. Attempts(node, shipped, lk, rt, ex, tl, to, te, L, R, E)
    BY DEF AttemptsInv
<1>2. /\ retry_counts \in [carrier_lookup : Nat, route_optimizer : Nat, execution : Nat]
      /\ lk \in Nat /\ rt \in Nat /\ ex \in Nat
      /\ tl \in Nat /\ to \in Nat /\ te \in Nat
      /\ L \in Nat /\ R \in Nat /\ E \in Nat
    BY SettingsType, TriesAreNumbers DEF TypeOK
<1>3. shipped' = shipped /\ L' = L /\ R' = R /\ E' = E
    BY StepShapes
<1>4. ASSUME NEW n, CountFailure(n)
      PROVE  /\ n = "carrier_lookup" => lk' = lk + 1 /\ rt' = rt /\ ex' = ex
             /\ n = "route_optimizer" => lk' = lk /\ rt' = rt + 1 /\ ex' = ex
             /\ n = "execution" => lk' = lk /\ rt' = rt /\ ex' = ex + 1
    BY <1>2, <1>4 DEF CountFailure
<1>5. ASSUME NEW n, NEW error, NEW retry_of, Runs(n, error, retry_of)
      PROVE  /\ node = n
             /\ tl' = IF n = "carrier_lookup" THEN tl + 1 ELSE tl
             /\ to' = IF n = "route_optimizer" THEN to + 1 ELSE to
             /\ te' = IF n = "execution" THEN te + 1 ELSE te
    BY <1>5, StepIsTried DEF Runs
<1>6. UNCHANGED retry_counts => lk' = lk /\ rt' = rt /\ ex' = ex
    OBVIOUS
<1>7. UNCHANGED trajectory => tl' = tl /\ to' = to /\ te' = te
    BY DEF Tried, StepsOf
<1>8. Attempts(node', shipped, lk', rt', ex', tl', to', te', L, R, E) => AttemptsInv'
    BY <1>3 DEF AttemptsInv
<1> HIDE DEF shipped, lk, rt, ex, tl, to, te, L, R, E
<1> USE DEF Attempts
<1>9. CASE Plans
    BY <1>1, <1>2, <1>5, <1>6, <1>8, <1>9 DEF Plans
<1>10. CASE Scores
    BY <1>1, <1>2, <1>5, <1>6, <1>8, <1>10 DEF Scores
<1>11. CASE FindsCarriers
    BY <1>1, <1>2, <1>5, <1>6, <1>8, <1>11 DEF FindsCarriers
<1>12. CASE FindsNone
  <2>1. node' = IF ~ LastErrorCarried THEN "route_optimizer"
                ELSE IF lk' <= L THEN "carrier_lookup" ELSE "escalate_no_viable_route"
    BY <1>12 DEF FindsNone, lk, L
  <2> QED
    BY <1>1, <1>2, <1>4, <1>5, <1>8, <1>12, <2>1 DEF FindsNone
<1>13. CASE Proposes
    BY <1>1, <1>2, <1>5, <1>6, <1>8, <1>13 DEF Proposes
<1>14. CASE Accepts
    BY <1>1, <1>2, <1>5, <1>6, <1>8, <1>14 DEF Accepts
<1>15. CASE Rejects
  <2>1. node' = IF rt' <= R THEN "route_optimizer" ELSE "escalate_no_viable_route"
    BY <1>15 DEF Rejects, rt, R
  <2> QED
    BY <1>1, <1>2, <1>4, <1>5, <1>8, <1>15, <2>1 DEF Rejects
<1>16. CASE Refuses
    BY <1>1, <1>2, <1>5, <1>6, <1>8, <1>16 DEF Refuses, shipped
<1>17. CASE Books
    BY <1>1, <1>2, <1>5, <1>6, <1>8, <1>17 DEF Books
<1>18. ASSUME NEW error \in CallErrors, FailsToBook(error)
       PROVE  AttemptsInv'
  <2>1. node' = IF ~ LastErrorCarried THEN "audit"
                ELSE IF error = "transient" /\ ex' <= E THEN "execution" ELSE "fail_execution"
    BY <1>18 DEF FailsToBook, ex, E
  <2> QED
    BY <1>1, <1>2, <1>4, <1>5, <1>8, <1>18, <2>1 DEF FailsToBook
<1>19. CASE Audits
    BY <1>1, <1>2, <1>5, <1>6, <1>8, <1>19 DEF Audits
<1>21. CASE Balks
    BY <1>1, <1>2, <1>5, <1>6, <1>8, <1>21 DEF Balks
<1>20. CASE Rests
    BY <1>1, <1>6, <1>7, <1>8, <1>20 DEF Rests, Stopped, Exceptions
<1> QED
    BY StepShapes, <1>9, <1>10, <1>11, <1>12, <1>13, <1>14, <1>15, <1>16, <1>17, <1>18,
       <1>19, <1>20, <1>21

\* No node of a run of a shipped provider is tried more often than its ceiling
\* allows; with an adapter that still holds of the lookup and the execution.
THEOREM TriesHaveCeilings ==
    Spec => [](/\ provider # "adapter" => AttemptCeilings
               /\ Tried("carrier_lookup") <= settings.max_retries_carrier_lookup + 1
               /\ Tried("execution") <= settings.max_retries_execution + 1)
<1>1. AttemptsInv =>
          /\ provider # "adapter" => AttemptCeilings
          /\ Tried("carrier_lookup") <= settings.max_retries_carrier_lookup + 1
          /\ Tried("execution") <= settings.max_retries_execution + 1
    BY DEF AttemptsInv, Attempts, AttemptCeilings, Tried
<1>2. Init => AttemptsInv
    BY InitType, AttemptsInit
<1> QED
    BY <1>1, <1>2, InitType, StepType, ControlInit, ControlStep, AttemptsStep, PTL DEF Spec

-----------------------------------------------------------------------------
(* What a retry refers to.                                                 *)

\* Step i is linked to the step before it exactly when it tries a lookup or an
\* execution again, and then that step failed at it.
Linked(steps, i) ==
    LET repeated == /\ steps[i].node \in {"carrier_lookup", "execution"}
                    /\ \E j \in 1..(i - 1) : steps[j].node = steps[i].node
    IN  /\ steps[i].retry_of = (IF repeated THEN i - 1 ELSE 0)
        /\ repeated => /\ steps[i - 1].node = steps[i].node
                       /\ steps[i - 1].error # "none"

\* A node that is about to be tried again has just failed.
LinkInv ==
    /\ \A i \in DOMAIN trajectory : Linked(trajectory, i)
    /\ node \in {"carrier_lookup", "execution"} /\ retry_counts[node] > 0 =>
         /\ trajectory # <<>>
         /\ trajectory[Len(trajectory)].node = node
         /\ trajectory[Len(trajectory)].error # "none"

\* The step before is the latest of its node, which is where the backward
\* search stops.
LEMMA PreviousIsLast ==
    ASSUME TypeOK, NEW n, trajectory # <<>>, trajectory[Len(trajectory)].node = n
    PROVE  PreviousStep(n) = Len(trajectory)
<1> DEFINE p == Len(trajectory)
           at == {i \in DOMAIN trajectory : trajectory[i].node = n}
           latest == {i \in at : \A j \in at : j <= i}
<1>1. p \in Nat \ {0} /\ DOMAIN trajectory = 1..p
    BY DEF TypeOK
<1>2. p \in at /\ \A j \in at : j <= p /\ j \in Nat
    BY <1>1
<1>3. latest = {p}
    BY <1>1, <1>2
<1> QED
    BY <1>3 DEF PreviousStep

\* A recorded step is one more and changes none before it.
LEMMA StepIsAdded ==
    ASSUME TypeOK, NEW m, NEW error, NEW retry_of, Runs(m, error, retry_of)
    PROVE  /\ Len(trajectory) \in Nat /\ DOMAIN trajectory = 1..Len(trajectory)
           /\ Len(trajectory') = Len(trajectory) + 1 /\ trajectory' # <<>>
           /\ DOMAIN trajectory' = (1..Len(trajectory)) \cup {Len(trajectory')}
           /\ \A i \in 1..Len(trajectory) : trajectory'[i] = trajectory[i]
           /\ trajectory'[Len(trajectory')].node = m
           /\ trajectory'[Len(trajectory')].error = error
           /\ trajectory'[Len(trajectory')].retry_of = retry_of
<1> DEFINE n == Len(trajectory)
<1>1. PICK tool, entities : add_step(m, tool, error, retry_of, entities)
    BY DEF Runs, StepIs
<1>2. trajectory \in Seq(Step) /\ n \in Nat /\ DOMAIN trajectory = 1..n
    BY DEF TypeOK
<1>3. /\ Len(trajectory') = n + 1 /\ DOMAIN trajectory' = 1..(n + 1)
      /\ \A i \in 1..n : trajectory'[i] = trajectory[i]
      /\ trajectory'[n + 1].node = m
      /\ trajectory'[n + 1].error = error
      /\ trajectory'[n + 1].retry_of = retry_of
    BY <1>1, <1>2 DEF add_step
<1>4. 1..(n + 1) = (1..n) \cup {n + 1} /\ trajectory' # <<>>
    BY <1>2, <1>3
<1> QED
    BY <1>2, <1>3, <1>4

\* Links only look back.
LEMMA LinksAreKept ==
    ASSUME NEW s, NEW t, NEW n \in Nat, \A i \in 1..n : t[i] = s[i],
           NEW k \in 1..n, Linked(s, k)
    PROVE  Linked(t, k)
<1>1. t[k] = s[k] /\ \A j \in 1..(k - 1) : t[j] = s[j]
    OBVIOUS
<1>2. k - 1 \in 1..n \/ 1..(k - 1) = {}
    OBVIOUS
<1>3. CASE k - 1 \in 1..n
    BY <1>1, <1>3 DEF Linked
<1>4. CASE 1..(k - 1) = {}
    BY <1>1, <1>4 DEF Linked
<1> QED
    BY <1>2, <1>3, <1>4

LEMMA LinkStep ==
    TypeOK /\ ControlInv /\ AttemptsInv /\ LinkInv /\ [Next]_vars => LinkInv'
<1> SUFFICES ASSUME TypeOK, ControlInv, AttemptsInv, LinkInv, [Next]_vars
             PROVE  LinkInv'
    OBVIOUS
<1> DEFINE n == Len(trajectory)
           retried == {"carrier_lookup", "execution"}
<1>c. retry_counts \in [carrier_lookup : Nat, route_optimizer : Nat, execution : Nat]
    BY DEF TypeOK
<1>a. ASSUME NEW m, NEW error, NEW retry_of, Runs(m, error, retry_of)
      PROVE  /\ n \in Nat /\ DOMAIN trajectory = 1..n
             /\ n' = n + 1 /\ trajectory' # <<>>
             /\ DOMAIN trajectory' = (1..n) \cup {n'}
             /\ \A i \in 1..n : trajectory'[i] = trajectory[i]
             /\ trajectory'[n'].node = m
             /\ trajectory'[n'].error = error
             /\ trajectory'[n'].retry_of = retry_of
             /\ \A i \in 1..n : Linked(trajectory', i)
  <2>1. /\ n \in Nat /\ DOMAIN trajectory = 1..n
        /\ n' = n + 1 /\ trajectory' # <<>>
        /\ DOMAIN trajectory' = (1..n) \cup {n'}
        /\ \A i \in 1..n : trajectory'[i] = trajectory[i]
        /\ trajectory'[n'].node = m
        /\ trajectory'[n'].error = error
        /\ trajectory'[n'].retry_of = retry_of
    BY <1>a, StepIsAdded
  <2>2. \A i \in 1..n : Linked(trajectory, i)
    BY <2>1 DEF LinkInv
  <2>3. \A i \in 1..n : Linked(trajectory', i)
    BY <2>1, <2>2, LinksAreKept
  <2> QED
    BY <2>1, <2>3
<1>b. trajectory # <<>> => n \in Nat \ {0}
    BY DEF TypeOK
<1>d. \A m : trajectory # <<>> /\ trajectory[n].node = m => PreviousStep(m) = n
    BY PreviousIsLast
<1>f. LinkInv /\ node \in retried /\ retry_counts[node] > 0 =>
          trajectory # <<>> /\ trajectory[n].node = node /\ trajectory[n].error # "none"
    BY DEF LinkInv
<1>g. ASSUME \A i \in DOMAIN trajectory' : Linked(trajectory', i),
             trajectory' # <<>> /\ trajectory'[n'].node = node'
                 /\ trajectory'[n'].error # "none"
      PROVE  LinkInv'
    BY <1>g DEF LinkInv
<1> HIDE DEF n
\* The new step of a node that is never retried.
<1>1. ASSUME NEW m, NEW error, Runs(m, error, 0), m \notin retried
      PROVE  \A i \in DOMAIN trajectory' : Linked(trajectory', i)
  <2>1. Linked(trajectory', n')
    BY <1>1, <1>a DEF Linked
  <2> QED
    BY <1>1, <1>a, <2>1
\* The new step of a lookup or an execution.
<1>2. ASSUME NEW m \in retried, NEW error, Runs(m, error, retry_of_step(m))
      PROVE  /\ \A i \in DOMAIN trajectory' : Linked(trajectory', i)
             /\ trajectory' # <<>>
             /\ trajectory'[n'].node = m
             /\ trajectory'[n'].error = error
  <2> DEFINE r == retry_of_step(m)
  <2>1. /\ n \in Nat /\ DOMAIN trajectory = 1..n
        /\ n' = n + 1 /\ trajectory' # <<>>
        /\ DOMAIN trajectory' = (1..n) \cup {n'}
        /\ \A i \in 1..n : trajectory'[i] = trajectory[i]
        /\ trajectory'[n'].node = m
        /\ trajectory'[n'].error = error
        /\ trajectory'[n'].retry_of = r
        /\ \A i \in 1..n : Linked(trajectory', i)
    BY <1>2, <1>a
  <2>2. node = m /\ retry_counts[m] = Tried(m) /\ retry_counts[m] \in Nat
    BY <1>c, <1>2 DEF Runs, AttemptsInv, Attempts
  <2>3. Linked(trajectory', n')
    <3>1. CASE retry_counts[m] > 0
      <4>1. trajectory # <<>> /\ trajectory[n].node = m /\ trajectory[n].error # "none"
        BY <1>f, <2>2, <3>1
      <4>2. r = n /\ n \in 1..n
        BY <1>b, <1>d, <3>1, <4>1 DEF retry_of_step
      <4>3. trajectory'[n] = trajectory[n] /\ n' - 1 = n
        BY <2>1, <4>2
      <4> HIDE DEF r
      <4> QED
        BY <2>1, <4>1, <4>2, <4>3 DEF Linked
    <3>2. CASE retry_counts[m] = 0
      <4>1. StepsOf(m) = {}
        BY <2>2, <3>2, TriesAreNumbers, FS_EmptySet DEF Tried
      <4>2. \A j \in 1..n : trajectory[j].node # m
        BY <2>1, <4>1 DEF StepsOf
      <4>3. r = 0
        BY <3>2 DEF retry_of_step
      <4>4. n' - 1 = n
        BY <2>1
      <4> HIDE DEF r
      <4> QED
        BY <2>1, <4>2, <4>3, <4>4 DEF Linked
    <3> QED
      BY <2>2, <3>1, <3>2
  <2> QED
    BY <2>1, <2>3
\* A node entered from another one has not been tried.
<1>3. ASSUME \A i \in DOMAIN trajectory' : Linked(trajectory', i),
             node' \notin retried \/ retry_counts'[node'] = 0
      PROVE  LinkInv'
    BY <1>3 DEF LinkInv
<1>4. CASE Plans \/ Proposes \/ Rejects \/ Audits
    BY <1>1, <1>3, <1>4 DEF Plans, Proposes, Rejects, Audits
<1>5. CASE Scores
  <2>1. retry_counts'.carrier_lookup = 0
    BY <1>5 DEF Scores, Runs, AttemptsInv, Attempts
  <2> QED
    BY <1>1, <1>3, <1>5, <2>1 DEF Scores
<1>6. CASE Accepts \/ Refuses
  <2>1. retry_counts'.execution = 0
    BY <1>6 DEF Accepts, Refuses, Runs, AttemptsInv, Attempts
  <2> QED
    BY <1>1, <1>3, <1>6, <2>1 DEF Accepts, Refuses
<1>7. CASE FindsCarriers \/ Books
    BY <1>2, <1>3, <1>7 DEF FindsCarriers, Books
<1>8. CASE FindsNone
  <2>1. PICK error : /\ error # "none"
                     /\ Runs("carrier_lookup", error, retry_of_step("carrier_lookup"))
    BY <1>8 DEF FindsNone
  <2>2. node' \in {"route_optimizer", "carrier_lookup", "escalate_no_viable_route"}
    BY <1>8 DEF FindsNone
  <2> QED
    BY <1>2, <1>3, <1>g, <2>1, <2>2
<1>9. ASSUME NEW error \in CallErrors, FailsToBook(error)
      PROVE  LinkInv'
  <2>1. /\ Runs("execution", error, retry_of_step("execution"))
        /\ node' \in {"audit", "execution", "fail_execution"}
    BY <1>9 DEF FailsToBook
  <2> QED
    BY <1>2, <1>3, <1>9, <1>g, <2>1 DEF CallErrors
<1>11. CASE Balks
  <2>1. CASE Runs("risk", "none", 0)
    BY <1>1, <1>3, <1>11, <2>1 DEF Balks
  <2>2. CASE Runs("execution", "none", retry_of_step("execution"))
    BY <1>2, <1>3, <1>11, <2>2 DEF Balks
  <2> QED
    BY <1>11, <2>1, <2>2 DEF Balks
<1>10. CASE Rests
    BY <1>10 DEF Rests, LinkInv, Stopped, Exceptions
<1> QED
    BY StepShapes, <1>4, <1>5, <1>6, <1>7, <1>8, <1>9, <1>10, <1>11

\* Every repeated lookup or execution is recorded as a retry of the failed step
\* just before it, and nothing else is: with any provider, whether or not
\* _last_error is carried.
THEOREM RetriesAreLinked == Spec => []RetryLinks
<1>1. LinkInv => RetryLinks
    BY DEF LinkInv, Linked, RetryLinks
<1>2. Init => LinkInv
    BY DEF Init, LinkInv
<1>3. Init => AttemptsInv
    BY InitType, AttemptsInit
<1> QED
    BY <1>1, <1>2, <1>3, InitType, StepType, ControlInit, ControlStep, AttemptsStep,
       LinkStep, PTL DEF Spec

-----------------------------------------------------------------------------
(* When a run may fail.                                                    *)

\* The execution has just failed, for good.
FailedForGood ==
    /\ trajectory # <<>>
    /\ trajectory[Len(trajectory)].node = "execution"
    /\ trajectory[Len(trajectory)].error # "none"
    /\ trajectory[Len(trajectory)].error = "transient" =>
         Tried("execution") = settings.max_retries_execution + 1
    /\ ~ execution_result.executed

FailInv == node = "fail_execution" \/ final_status = "FAILED" => FailedForGood

LEMMA FailStep ==
    TypeOK /\ ControlInv /\ ControlInv' /\ AttemptsInv /\ FailInv /\ [Next]_vars
        => FailInv'
<1> SUFFICES ASSUME TypeOK, ControlInv, ControlInv', AttemptsInv, FailInv, [Next]_vars
             PROVE  FailInv'
    OBVIOUS
\* A run that records a step has not failed.
<1>1. ASSUME NEW m, NEW error, NEW retry_of, Runs(m, error, retry_of), m \in StepNodes
      PROVE  final_status' # "FAILED"
  <2>1. node # "END"
    BY <1>1 DEF Runs, StepNodes, ToolNodes
  <2> QED
    BY <1>1, <2>1 DEF Runs, ControlInv
<1>2. CASE \/ Plans \/ Scores \/ FindsCarriers \/ FindsNone \/ Proposes
           \/ Accepts \/ Rejects \/ Refuses \/ Books \/ Balks \/ Audits
  <2>1. /\ \E m \in StepNodes : \E error, retry_of : Runs(m, error, retry_of)
        /\ node' # "fail_execution"
    BY <1>2 DEF Plans, Scores, FindsCarriers, FindsNone, Proposes, Accepts, Rejects,
                Refuses, Books, Balks, Audits, StepNodes, ToolNodes
  <2> QED
    BY <1>1, <2>1 DEF FailInv
<1>3. ASSUME NEW error \in CallErrors, FailsToBook(error)
      PROVE  FailInv'
  <2>1. Runs("execution", error, retry_of_step("execution")) /\ CountFailure("execution")
    BY <1>3 DEF FailsToBook
  <2>2. final_status' # "FAILED"
    BY <1>1, <2>1 DEF StepNodes, ToolNodes
  <2>3. CASE node' # "fail_execution"
    BY <2>2, <2>3 DEF FailInv
  <2>4. CASE node' = "fail_execution"
    <3>1. /\ trajectory' # <<>>
          /\ trajectory'[Len(trajectory')].node = "execution"
          /\ trajectory'[Len(trajectory')].error = error
      BY <2>1, StepIsAdded
    <3>2. Tried("execution")' = Tried("execution") + 1
      BY <2>1, StepIsTried DEF Runs
    <3>3. /\ Tried("execution") = retry_counts.execution
          /\ retry_counts.execution <= settings.max_retries_execution
      BY <2>1 DEF Runs, AttemptsInv, Attempts
    <3>4. retry_counts'.execution = retry_counts.execution + 1
      BY <2>1 DEF CountFailure, TypeOK
    <3>5. error = "transient" => retry_counts'.execution > settings.max_retries_execution
      <4>1. error = "transient" => ~ (retry_counts'.execution <= settings.max_retries_execution)
        BY <1>3, <2>4 DEF FailsToBook
      <4> QED
        BY <4>1, <3>4, SettingsType DEF TypeOK
    <3>6. settings' = settings
      BY StepShapes
    <3>7. error = "transient" => Tried("execution")' = settings'.max_retries_execution + 1
      BY <3>2, <3>3, <3>4, <3>5, <3>6, SettingsType DEF TypeOK
    <3>8. ~ execution_result'.executed
      BY <2>4 DEF ControlInv, Stopped, Exceptions
    <3> QED
      BY <1>3, <3>1, <3>7, <3>8 DEF FailInv, FailedForGood, CallErrors
  <2> QED
    BY <2>3, <2>4
<1>4. CASE Rests
  <2>1. UNCHANGED <<settings, trajectory, execution_result>>
    BY <1>4, StepShapes DEF Rests
  <2>2. FailedForGood' <=> FailedForGood
    BY <2>1 DEF FailedForGood, Tried, StepsOf
  <2> QED
    BY <1>4, <2>2 DEF FailInv, Rests, Stopped, Exceptions
<1> QED
    BY StepShapes, <1>2, <1>3, <1>4

\* A run only fails on an execution that may not be retried, and without a
\* booking: with any provider, whether or not _last_error is carried.
THEOREM OnlyFinalErrorsFail == Spec => []FailureIsFinal
<1>1. FailInv => FailureIsFinal
    BY DEF FailInv, FailedForGood, FailureIsFinal, Tried
<1>2. Init => FailInv
    BY DEF Init, FailInv
<1>3. Init => AttemptsInv
    BY InitType, AttemptsInit
<1> QED
    BY <1>1, <1>2, <1>3, InitType, StepType, ControlInit, ControlStep, AttemptsStep,
       FailStep, PTL DEF Spec

-----------------------------------------------------------------------------
(* When _last_error is dropped.                                            *)

\* The lookup and the execution are tried once: they are entered with no
\* failure counted, and are never entered again.
LostInv ==
    /\ node = "carrier_lookup" => retry_counts.carrier_lookup = 0
    /\ node = "execution" => retry_counts.execution = 0
    /\ node # "fail_execution"
    /\ LostErrorsAreNeverRetried

LEMMA LostStep ==
    ASSUME ~ LastErrorCarried
    PROVE  TypeOK /\ ControlInv /\ AttemptsInv /\ LostInv /\ [Next]_vars => LostInv'
<1> SUFFICES ASSUME TypeOK, ControlInv, AttemptsInv, LostInv, [Next]_vars
             PROVE  LostInv'
    OBVIOUS
<1>1. ASSUME NEW m, NEW error, Runs(m, error, 0)
      PROVE  LostErrorsAreNeverRetried'
  <2>1. /\ DOMAIN trajectory = 1..Len(trajectory)
        /\ DOMAIN trajectory' = (1..Len(trajectory)) \cup {Len(trajectory')}
        /\ \A i \in 1..Len(trajectory) : trajectory'[i] = trajectory[i]
        /\ trajectory'[Len(trajectory')].retry_of = 0
    BY <1>1, StepIsAdded
  <2>2. /\ final_status # "FAILED"
        /\ \A i \in DOMAIN trajectory : trajectory[i].retry_of = 0
    BY DEF LostInv, LostErrorsAreNeverRetried
  <2>3. final_status' # "FAILED"
    BY <1>1, <2>2 DEF Runs
  <2>4. \A i \in DOMAIN trajectory' : trajectory'[i].retry_of = 0
    BY <2>1, <2>2
  <2> QED
    BY <2>3, <2>4 DEF LostErrorsAreNeverRetried
<1>2. /\ node = "carrier_lookup" => retry_of_step("carrier_lookup") = 0
      /\ node = "execution" => retry_of_step("execution") = 0
    BY DEF LostInv, retry_of_step
<1>3. CASE Plans \/ Proposes \/ Rejects \/ Audits
    BY <1>1, <1>3 DEF Plans, Proposes, Rejects, Audits, LostInv
<1>4. CASE Scores
  <2>1. retry_counts'.carrier_lookup = 0
    BY <1>4 DEF Scores, Runs, AttemptsInv, Attempts
  <2> QED
    BY <1>1, <1>4, <2>1 DEF Scores, LostInv
<1>5. CASE Accepts \/ Refuses
  <2>1. retry_counts'.execution = 0
    BY <1>5 DEF Accepts, Refuses, Runs, AttemptsInv, Attempts
  <2> QED
    BY <1>1, <1>5, <2>1 DEF Accepts, Refuses, LostInv
<1>6. CASE FindsCarriers \/ FindsNone \/ Books
  <2>1. /\ \E m, error : Runs(m, error, 0)
        /\ node' \in {"route_optimizer", "audit"}
    BY <1>2, <1>6, ~ LastErrorCarried DEF FindsCarriers, FindsNone, Books, Runs
  <2> QED
    BY <1>1, <2>1 DEF LostInv
<1>7. ASSUME NEW error \in CallErrors, FailsToBook(error)
      PROVE  LostInv'
  <2>1. Runs("execution", error, 0) /\ node' = "audit"
    BY <1>2, <1>7, ~ LastErrorCarried DEF FailsToBook, Runs
  <2> QED
    BY <1>1, <2>1 DEF LostInv
<1>9. CASE Balks
  <2>1. /\ \E m, error : Runs(m, error, 0)
        /\ node' = "AttributeError"
    BY <1>2, <1>9 DEF Balks, Runs
  <2> QED
    BY <1>1, <2>1 DEF LostInv
<1>8. CASE Rests
  <2>1. UNCHANGED <<trajectory, retry_counts>> /\ final_status' # "FAILED"
    BY <1>8 DEF Rests, LostInv, LostErrorsAreNeverRetried
  <2>2. LostErrorsAreNeverRetried'
    BY <2>1 DEF LostInv, LostErrorsAreNeverRetried
  <2> QED
    BY <1>8, <2>1, <2>2 DEF Rests, LostInv, Stopped, Exceptions
<1> QED
    BY StepShapes, <1>3, <1>4, <1>5, <1>6, <1>7, <1>8, <1>9

\* Under the declared state schema, which drops _last_error, no run of any
\* provider ever retries or fails: the errors go unnoticed.
THEOREM DroppedErrorsAreUnnoticed ==
    ASSUME ~ LastErrorCarried
    PROVE  Spec => []LostErrorsAreNeverRetried
<1>1. LostInv => LostErrorsAreNeverRetried
    BY DEF LostInv
<1>2. Init => LostInv
    BY DEF Init, LostInv, LostErrorsAreNeverRetried
<1>3. Init => AttemptsInv
    BY InitType, AttemptsInit
<1> QED
    BY <1>1, <1>2, <1>3, InitType, StepType, ControlInit, ControlStep, AttemptsStep,
       LostStep, PTL DEF Spec

=============================================================================
