---------------------------- MODULE Metrics_proofs ----------------------------
(***************************************************************************)
(* Proofs about what the metrics say of a run, against what the pipeline   *)
(* did, for every network, set of alerts, settings and ground truth.       *)
(***************************************************************************)
EXTENDS ScoredPipeline, Attempts_proofs, Outcomes_proofs

-----------------------------------------------------------------------------
(* The transitions the metrics call legal.                                 *)

\* The transition that the next step, if there is one, will add is legal too.
NextIsLegal ==
    node \in StepNodes /\ trajectory # <<>> =>
        <<trajectory[Len(trajectory)].node, node>> \in LEGAL_TRANSITIONS

TransitionInv == TransitionsAreLegal /\ NextIsLegal

\* A step of the node that was to run extends the trajectory by one more legal
\* transition.
LEMMA AppendKeepsLegal ==
    ASSUME TypeOK, TransitionInv, node \in StepNodes,
           NEW error, NEW retry_of, StepIs(node, error, retry_of)
    PROVE  /\ TransitionsAreLegal'
           /\ trajectory' # <<>>
           /\ trajectory'[Len(trajectory')].node = node
<1>0. PICK tool, entities : add_step(node, tool, error, retry_of, entities)
    BY DEF StepIs
<1> DEFINE step == [node |-> node, tool |-> tool, error |-> error, retry_of |-> retry_of,
                    entities |-> entities]
<1>1. trajectory \in Seq(Step) /\ trajectory' = Append(trajectory, step)
    BY <1>0 DEF TypeOK, add_step
<1>2. /\ Len(trajectory) \in Nat
      /\ Len(trajectory') = Len(trajectory) + 1
      /\ \A i \in 1..Len(trajectory) : trajectory'[i] = trajectory[i]
      /\ trajectory'[Len(trajectory) + 1] = step
    BY <1>1
<1>3. step.node = node
    OBVIOUS
<1>4. ASSUME NEW i \in 2..Len(trajectory')
      PROVE  <<trajectory'[i - 1].node, trajectory'[i].node>> \in LEGAL_TRANSITIONS
  <2>1. CASE i \in 2..Len(trajectory)
    <3>1. i - 1 \in 1..Len(trajectory) /\ i \in 1..Len(trajectory)
        BY <1>2, <2>1
    <3> QED
        BY <1>2, <2>1, <3>1 DEF TransitionInv, TransitionsAreLegal
  <2>2. CASE i = Len(trajectory) + 1
    <3>1. Len(trajectory) \in 1..Len(trajectory) /\ i - 1 = Len(trajectory)
        BY <1>2, <2>2
    <3>2. trajectory # <<>>
        BY <1>1, <3>1
    <3>3. <<trajectory[Len(trajectory)].node, node>> \in LEGAL_TRANSITIONS
        BY <3>2 DEF TransitionInv, NextIsLegal
    <3> QED
        BY <1>2, <1>3, <2>2, <3>1, <3>3
  <2> QED
    BY <1>2, <2>1, <2>2
<1> QED
    BY <1>1, <1>2, <1>3, <1>4 DEF TransitionsAreLegal

\* So an action that adds a step keeps the invariant when it goes on to a node
\* the table allows, or to none that adds a step.
LEMMA LegalStep ==
    ASSUME TypeOK, TransitionInv, node \in StepNodes,
           NEW error, NEW retry_of, StepIs(node, error, retry_of),
           node' \in StepNodes => <<node, node'>> \in LEGAL_TRANSITIONS
    PROVE  TransitionInv'
<1>1. /\ TransitionsAreLegal'
      /\ trajectory' # <<>>
      /\ trajectory'[Len(trajectory')].node = node
    BY AppendKeepsLegal
<1>2. NextIsLegal'
    BY <1>1 DEF NextIsLegal
<1> QED
    BY <1>1, <1>2 DEF TransitionInv

LEMMA TransitionInit == Init => TransitionInv
BY DEF Init, TransitionInv, TransitionsAreLegal, NextIsLegal

LEMMA TransitionStep ==
    TypeOK /\ ControlInv /\ TransitionInv /\ [Next]_vars => TransitionInv'
<1> SUFFICES ASSUME TypeOK, ControlInv, TransitionInv, [Next]_vars
             PROVE  TransitionInv'
    OBVIOUS
<1> DEFINE Legal(m, n) == <<m, n>> \in LEGAL_TRANSITIONS
<1>l. /\ Legal("planner", "risk") /\ Legal("risk", "carrier_lookup")
      /\ Legal("carrier_lookup", "carrier_lookup")
      /\ Legal("carrier_lookup", "route_optimizer")
      /\ Legal("route_optimizer", "validator") /\ Legal("validator", "route_optimizer")
      /\ Legal("validator", "execution") /\ Legal("execution", "execution")
      /\ Legal("execution", "audit")
    BY DEF LEGAL_TRANSITIONS
<1>s. ASSUME NEW m \in StepNodes, NEW error, NEW retry_of, Runs(m, error, retry_of),
             Legal(m, node') \/ node' \notin StepNodes
      PROVE  TransitionInv'
    BY <1>s, LegalStep DEF Runs
<1> HIDE DEF Legal
<1>n. /\ {"planner", "risk", "carrier_lookup", "route_optimizer", "validator",
          "execution", "audit"} \subseteq StepNodes
      /\ {"END", "AttributeError", "escalate_high_risk", "escalate_no_viable_route",
          "fail_execution"} \cap StepNodes = {}
    BY DEF StepNodes, ToolNodes
<1>1. CASE Plans \/ Scores
    BY <1>1, <1>l, <1>s, <1>n DEF Plans, Scores
<1>2. CASE FindsCarriers
    BY <1>2, <1>l, <1>s, <1>n DEF FindsCarriers
<1>3. CASE FindsNone
  <2>1. node' \in {"carrier_lookup", "route_optimizer", "escalate_no_viable_route"}
    BY <1>3 DEF FindsNone
  <2>2. PICK error : Runs("carrier_lookup", error, retry_of_step("carrier_lookup"))
    BY <1>3 DEF FindsNone
  <2> QED
    BY <2>1, <2>2, <1>l, <1>s, <1>n
<1>4. CASE Proposes
    BY <1>4, <1>l, <1>s, <1>n DEF Proposes
<1>5. CASE Accepts \/ Rejects \/ Refuses
    BY <1>5, <1>l, <1>s, <1>n DEF Accepts, Rejects, Refuses
<1>6. CASE Books \/ \E error \in CallErrors : FailsToBook(error)
  <2>1. node' \in {"execution", "audit", "fail_execution"}
    BY <1>6 DEF Books, FailsToBook
  <2>2. PICK error : Runs("execution", error, retry_of_step("execution"))
    BY <1>6 DEF Books, FailsToBook
  <2> QED
    BY <2>1, <2>2, <1>l, <1>s, <1>n
<1>7. CASE Balks
    BY <1>7, <1>s, <1>n DEF Balks
<1>8. CASE Audits
    BY <1>8, <1>s, <1>n DEF Audits
\* A run that rests adds no step, and goes on to no node that would.
<1>9. CASE Rests
    BY <1>9 DEF Rests, TransitionInv, TransitionsAreLegal, NextIsLegal, StepNodes,
                ToolNodes, Stopped, Exceptions
<1> QED
    BY StepShapes, <1>1, <1>2, <1>3, <1>4, <1>5, <1>6, <1>7, <1>8, <1>9

\* No run, of any provider, whether or not _last_error is carried, takes two
\* steps in a row that metrics.py calls an illegal transition.
THEOREM RunsTakeLegalTransitions == Spec => []TransitionsAreLegal
<1>1. TransitionInv => TransitionsAreLegal
    BY DEF TransitionInv
<1> QED
    BY <1>1, InitType, StepType, ControlInit, ControlStep, TransitionInit, TransitionStep,
       PTL DEF Spec

-----------------------------------------------------------------------------
(* The retries the metric counts.                                          *)

LastFailedAt(n) == EndedInError /\ trajectory[Len(trajectory)].node = n

Retried == {"carrier_lookup", "execution"}

\* The failure of a lookup or an execution that no step has answered yet.
Open == IF \E n \in Retried : LastFailedAt(n) THEN 1 ELSE 0

\* Each counted failure but the open one was answered by a retry, and an open
\* one is to be answered by the node that is about to run, or never.
RetriedInv ==
    /\ average_retries(trajectory) + Open = retry_counts.carrier_lookup + retry_counts.execution
    /\ Open = 1 =>
         \/ node \in TerminalNodes \cup Stopped
         \/ node \in Retried /\ retry_counts[node] > 0

LEMMA RetriesAreNumbers ==
    ASSUME TypeOK
    PROVE  /\ IsFiniteSet({i \in DOMAIN trajectory : trajectory[i].retry_of # 0})
           /\ average_retries(trajectory) \in Nat
<1>1. DOMAIN trajectory = 1..Len(trajectory) /\ Len(trajectory) \in Nat
    BY DEF TypeOK
<1>2. IsFiniteSet(DOMAIN trajectory)
    BY <1>1, FS_Interval
<1> QED
    BY <1>2, FS_Subset, FS_CardinalityType DEF average_retries

LEMMA RetryIsCounted ==
    ASSUME TypeOK, NEW m, NEW error, NEW retry_of, Runs(m, error, retry_of)
    PROVE  average_retries(trajectory') =
               average_retries(trajectory) + (IF retry_of # 0 THEN 1 ELSE 0)
<1> DEFINE n == Len(trajectory)
           A == {i \in DOMAIN trajectory : trajectory[i].retry_of # 0}
           B == {i \in DOMAIN trajectory' : trajectory'[i].retry_of # 0}
<1>1. /\ n \in Nat /\ DOMAIN trajectory = 1..n /\ n' = n + 1
      /\ DOMAIN trajectory' = (1..n) \cup {n'}
      /\ \A i \in 1..n : trajectory'[i] = trajectory[i]
      /\ trajectory'[n'].retry_of = retry_of
    BY StepIsAdded
<1>2. n' \notin 1..n
    BY <1>1
<1> HIDE DEF n
<1>3. B = (IF retry_of # 0 THEN A \cup {n'} ELSE A) /\ n' \notin A
    BY <1>1, <1>2
<1>4. Cardinality(A \cup {n'}) = Cardinality(A) + 1 /\ Cardinality(A) \in Nat
    BY <1>3, RetriesAreNumbers, FS_AddElement DEF average_retries
<1>5. /\ average_retries(trajectory') = Cardinality(B)
      /\ average_retries(trajectory) = Cardinality(A)
    BY DEF average_retries
<1> HIDE DEF A, B
<1>6. CASE retry_of # 0
    BY <1>3, <1>4, <1>5, <1>6
<1>7. CASE retry_of = 0
    BY <1>3, <1>4, <1>5, <1>7
<1> QED
    BY <1>6, <1>7

LEMMA RetriedStep ==
    ASSUME LastErrorCarried
    PROVE  TypeOK /\ ControlInv /\ AttemptsInv /\ LinkInv /\ RetriedInv /\ [Next]_vars
               => RetriedInv'
<1> SUFFICES ASSUME TypeOK, ControlInv, AttemptsInv, LinkInv, RetriedInv, [Next]_vars
             PROVE  RetriedInv'
    OBVIOUS
<1> DEFINE ar == average_retries(trajectory)
           lk == retry_counts.carrier_lookup
           ex == retry_counts.execution
<1>t. /\ retry_counts \in [carrier_lookup : Nat, route_optimizer : Nat, execution : Nat]
      /\ lk \in Nat /\ ex \in Nat /\ ar \in Nat /\ Open \in {0, 1}
      /\ ar + Open = lk + ex
    BY RetriesAreNumbers DEF TypeOK, RetriedInv, Open
<1>c. ASSUME NEW n, CountFailure(n)
      PROVE  /\ n = "carrier_lookup" => lk' = lk + 1 /\ ex' = ex
             /\ n = "route_optimizer" => lk' = lk /\ ex' = ex
             /\ n = "execution" => lk' = lk /\ ex' = ex + 1
             /\ n \in Retried => retry_counts'[n] > 0
    BY <1>t, <1>c DEF CountFailure, Retried
<1>u. UNCHANGED retry_counts => lk' = lk /\ ex' = ex
    OBVIOUS
<1>w. ASSUME ar' + Open' = lk' + ex',
             Open' = 1 => \/ node' \in TerminalNodes \cup Stopped
                          \/ node' \in Retried /\ retry_counts'[node'] > 0
      PROVE  RetriedInv'
    BY <1>w DEF RetriedInv
<1>r. ASSUME NEW m, NEW error, NEW retry_of, Runs(m, error, retry_of)
      PROVE  /\ ar' = ar + (IF retry_of # 0 THEN 1 ELSE 0)
             /\ Open' = IF m \in Retried /\ error # "none" THEN 1 ELSE 0
  <2>1. ar' = ar + (IF retry_of # 0 THEN 1 ELSE 0)
    BY <1>r, RetryIsCounted
  <2>2. /\ trajectory' # <<>>
        /\ trajectory'[Len(trajectory')].node = m
        /\ trajectory'[Len(trajectory')].error = error
    BY <1>r, StepIsAdded
  <2> QED
    BY <2>1, <2>2 DEF Open, LastFailedAt, EndedInError
<1> HIDE DEF ar
\* A node that is never retried runs when no failure is open.
<1>1. ASSUME NEW m, NEW error, Runs(m, error, 0), m \in StepNodes \ Retried,
             lk' = lk, ex' = ex
      PROVE  RetriedInv'
  <2>1. Open = 0
    BY <1>1, <1>t DEF Runs, RetriedInv, StepNodes, ToolNodes, TerminalNodes, Stopped, Exceptions
  <2>2. Open' = 0 /\ ar' = ar
    BY <1>1, <1>r, <1>t
  <2>3. ar' + Open' = lk' + ex'
    BY <1>1, <1>t, <2>1, <2>2
  <2> QED
    BY <1>w, <2>2, <2>3
\* A retried node answers the open failure, if there is one.
<1>2. ASSUME NEW m \in Retried, NEW error, Runs(m, error, retry_of_step(m))
      PROVE  /\ ar' = ar + Open
             /\ Open' = IF error # "none" THEN 1 ELSE 0
  <2>1. node = m /\ retry_counts[m] \in Nat
    BY <1>2, <1>t DEF Runs, Retried
  <2>2. CASE retry_counts[m] > 0
    <3>1. /\ trajectory # <<>>
          /\ trajectory[Len(trajectory)].node = m
          /\ trajectory[Len(trajectory)].error # "none"
      BY <1>2, <2>1, <2>2 DEF LinkInv, Retried
    <3>2. Open = 1
      BY <3>1 DEF Open, LastFailedAt, EndedInError
    <3>3. retry_of_step(m) = Len(trajectory) /\ Len(trajectory) # 0
      BY <2>2, <3>1, PreviousIsLast DEF retry_of_step, TypeOK
    <3> QED
      BY <1>2, <1>r, <3>2, <3>3
  <2>3. CASE retry_counts[m] = 0
    <3>1. Open = 0
      BY <1>2, <1>t, <2>1, <2>3
         DEF RetriedInv, TerminalNodes, Stopped, Exceptions, Retried
    <3>2. retry_of_step(m) = 0
      BY <2>3 DEF retry_of_step
    <3> QED
      BY <1>2, <1>r, <3>1, <3>2
  <2> QED
    BY <2>1, <2>2, <2>3
<1>3. CASE Plans \/ Scores \/ Proposes \/ Accepts \/ Refuses \/ Audits
  <2>1. UNCHANGED retry_counts /\ \E m \in StepNodes \ Retried : \E error : Runs(m, error, 0)
    BY <1>3 DEF Plans, Scores, Proposes, Accepts, Refuses, Audits, StepNodes, ToolNodes,
                Retried
  <2> QED
    BY <1>1, <1>u, <2>1
<1>4. CASE Rejects
  <2>1. Runs("validator", "none", 0) /\ CountFailure("route_optimizer")
    BY <1>4 DEF Rejects
  <2> QED
    BY <1>1, <1>c, <2>1 DEF StepNodes, ToolNodes, Retried
<1>5. CASE FindsCarriers \/ Books
  <2>1. UNCHANGED retry_counts /\ \E m \in Retried : Runs(m, "none", retry_of_step(m))
    BY <1>5 DEF FindsCarriers, Books, Retried
  <2>2. ar' = ar + Open /\ Open' = 0
    BY <1>2, <2>1
  <2>3. ar' + Open' = lk' + ex'
    BY <1>t, <1>u, <2>1, <2>2
  <2> QED
    BY <1>w, <2>2, <2>3
<1>6. CASE FindsNone
  <2>1. /\ CountFailure("carrier_lookup")
        /\ node' \in {"carrier_lookup", "escalate_no_viable_route"}
        /\ \E error : /\ error # "none"
                      /\ Runs("carrier_lookup", error, retry_of_step("carrier_lookup"))
    BY <1>6, LastErrorCarried DEF FindsNone
  <2>2. ar' = ar + Open /\ Open' = 1
    BY <1>2, <2>1 DEF Retried
  <2>3. ar' + Open' = lk' + ex'
    BY <1>t, <1>c, <2>1, <2>2
  <2> QED
    BY <1>c, <1>w, <2>1, <2>3 DEF TerminalNodes, Retried
<1>7. ASSUME NEW error \in CallErrors, FailsToBook(error)
      PROVE  RetriedInv'
  <2>1. /\ CountFailure("execution")
        /\ node' \in {"execution", "fail_execution"}
        /\ Runs("execution", error, retry_of_step("execution"))
    BY <1>7, LastErrorCarried DEF FailsToBook
  <2>2. ar' = ar + Open /\ Open' = 1
    BY <1>2, <1>7, <2>1 DEF Retried, CallErrors
  <2>3. ar' + Open' = lk' + ex'
    BY <1>t, <1>c, <2>1, <2>2
  <2> QED
    BY <1>c, <1>w, <2>1, <2>3 DEF TerminalNodes, Retried
<1>9. CASE Balks
  <2>1. UNCHANGED retry_counts /\ node' \in Stopped
    BY <1>9 DEF Balks, Stopped, Exceptions
  <2>2. CASE Runs("risk", "none", 0)
    BY <1>1, <1>u, <2>1, <2>2 DEF StepNodes, ToolNodes, Retried
  <2>3. CASE Runs("execution", "none", retry_of_step("execution"))
    <3>1. ar' = ar + Open /\ Open' = 0
      BY <1>2, <2>3 DEF Retried
    <3>2. ar' + Open' = lk' + ex'
      BY <1>t, <1>u, <2>1, <3>1
    <3> QED
      BY <1>w, <3>1, <3>2
  <2> QED
    BY <1>9, <2>2, <2>3 DEF Balks
<1>8. CASE Rests
  <2>1. ar' = ar /\ Open' = Open /\ lk' = lk /\ ex' = ex
    BY <1>8 DEF Rests, ar, Open, LastFailedAt, EndedInError
  <2> QED
    BY <1>8, <1>t, <1>w, <2>1 DEF Rests, RetriedInv
<1> QED
    BY StepShapes, <1>3, <1>4, <1>5, <1>6, <1>7, <1>8, <1>9

LEMMA RetriedInit == Init => RetriedInv
<1> SUFFICES ASSUME Init
             PROVE  RetriedInv
    OBVIOUS
<1>1. {i \in DOMAIN trajectory : trajectory[i].retry_of # 0} = {}
    BY DEF Init
<1>2. average_retries(trajectory) = 0
    BY <1>1, FS_EmptySet DEF average_retries
<1>3. Open = 0
    BY DEF Init, Open, LastFailedAt, EndedInError
<1> QED
    BY <1>2, <1>3 DEF Init, RetriedInv, NoRetries

\* The retries the metric counts are the failures the pipeline counted, less
\* the one that ended the run: with any provider, when _last_error is carried.
THEOREM RetriesAreCounted ==
    ASSUME LastErrorCarried
    PROVE  Spec => []RetriesMatchCounters
<1>1. RetriedInv => RetriesMatchCounters
    BY DEF RetriedInv, RetriesMatchCounters, Open, LastFailedAt, Retried
<1>2. Init => LinkInv
    BY DEF Init, LinkInv
<1>3. Init => AttemptsInv
    BY InitType, AttemptsInit
<1> QED
    BY <1>1, <1>2, <1>3, InitType, StepType, ControlInit, ControlStep, AttemptsStep,
       LinkStep, RetriedInit, RetriedStep, PTL DEF Spec

-----------------------------------------------------------------------------
(* A booking nobody expected.                                              *)

\* What was booked is named by a step, and the steps are within the limit.
NamedInv ==
    /\ Len(trajectory) <= RecursionLimit
    /\ execution_result.executed =>
         \E i \in DOMAIN trajectory : execution_result.carrier \in trajectory[i].entities

\* Steps are only ever added, and only below the recursion limit.
LEMMA TrajectoryGrows ==
    ASSUME TypeOK, ControlInv, [Next]_vars
    PROVE  /\ DOMAIN trajectory \subseteq DOMAIN trajectory'
           /\ \A i \in DOMAIN trajectory : trajectory'[i] = trajectory[i]
           /\ Len(trajectory) <= RecursionLimit => Len(trajectory') <= RecursionLimit
<1>1. ASSUME NEW m, NEW error, NEW retry_of, Runs(m, error, retry_of)
      PROVE  /\ DOMAIN trajectory \subseteq DOMAIN trajectory'
             /\ \A i \in DOMAIN trajectory : trajectory'[i] = trajectory[i]
             /\ Len(trajectory') <= RecursionLimit
  <2>1. /\ Len(trajectory) \in Nat /\ DOMAIN trajectory = 1..Len(trajectory)
        /\ Len(trajectory') = Len(trajectory) + 1
        /\ DOMAIN trajectory' = (1..Len(trajectory)) \cup {Len(trajectory')}
        /\ \A i \in 1..Len(trajectory) : trajectory'[i] = trajectory[i]
    BY <1>1, StepIsAdded
  <2>2. Len(trajectory) < RecursionLimit /\ RecursionLimit \in Nat
    BY <1>1, InputAssumption DEF Runs, InputAssumption
  <2> QED
    BY <2>1, <2>2
<1>2. CASE Rests
    BY <1>2 DEF Rests
<1>3. CASE ~ Rests
  <2>1. \E m, error, retry_of : Runs(m, error, retry_of)
    BY <1>3, StepShapes, Zenon
       DEF Plans, Scores, FindsCarriers, FindsNone, Proposes, Accepts, Rejects, Refuses,
           Books, FailsToBook, Balks, Audits
  <2> QED
    BY <1>1, <2>1
<1> QED
    BY <1>2, <1>3

LEMMA NamedInit == Init => NamedInv
BY InputAssumption DEF Init, NamedInv, NotExecuted, InputAssumption

LEMMA NamedStep == TypeOK /\ TypeOK' /\ ControlInv /\ NamedInv /\ [Next]_vars => NamedInv'
<1> SUFFICES ASSUME TypeOK, TypeOK', ControlInv, NamedInv, [Next]_vars
             PROVE  NamedInv'
    OBVIOUS
<1>1. /\ DOMAIN trajectory \subseteq DOMAIN trajectory'
      /\ \A i \in DOMAIN trajectory : trajectory'[i] = trajectory[i]
      /\ Len(trajectory') <= RecursionLimit
    BY TrajectoryGrows DEF NamedInv
<1>2. CASE UNCHANGED execution_result
    BY <1>1, <1>2 DEF NamedInv
<1>3. CASE Execution /\ ~ UNCHANGED execution_result
  <2>1. PICK d \in Decisions(retry_counts.execution) :
          /\ add_step("execution", d.tool, "none", retry_of_step("execution"), {d.carrier})
          /\ execution_result' = IF d.tool = "execution_simulator"
                 THEN [executed |-> TRUE, carrier |-> d.carrier] ELSE NotExecuted
    BY <1>3 DEF Execution
  <2> DEFINE n == Len(trajectory)
             step == [node |-> "execution", tool |-> d.tool, error |-> "none",
                      retry_of |-> retry_of_step("execution"), entities |-> {d.carrier}]
  <2>2. trajectory \in Seq(Step) /\ n \in Nat /\ trajectory' = Append(trajectory, step)
    BY <2>1 DEF TypeOK, add_step
  <2>3. n + 1 \in DOMAIN trajectory' /\ trajectory'[n + 1] = step
    BY <2>2
  <2>4. execution_result'.executed => execution_result'.carrier \in step.entities
    BY <2>1 DEF NotExecuted
  <2> QED
    BY <1>1, <2>3, <2>4 DEF NamedInv
<1>4. Execution \/ UNCHANGED execution_result
    BY DEF Next, NodeStep, Terminating, vars, Planner, Risk, CarrierLookup,
           RouteOptimizer, Validator, ValidateNothing, Audit, AuditWriteFails,
           EscalateHighRisk, EscalateNoViableRoute, FailExecution, Terminal,
           ProviderRaises, RecursionAbort, ResultIsNoModel
<1> QED
    BY <1>2, <1>3, <1>4

\* A step refers to each carrier, and to a missing one, at most once.
LEMMA ReferencesAreBounded ==
    ASSUME TypeOK, Len(trajectory) <= RecursionLimit
    PROVE  /\ IsFiniteSet(References(trajectory))
           /\ Cardinality(References(trajectory)) \in Nat
           /\ Cardinality(References(trajectory)) <= RecursionLimit * (Len(Network) + 1)
<1> DEFINE P == 1..RecursionLimit
           C == 0..Len(Network)
<1>1. RecursionLimit \in Nat /\ Len(Network) \in Nat
    BY InputAssumption, NetworkAssumption DEF InputAssumption
<1>2. /\ IsFiniteSet(P) /\ Cardinality(P) = RecursionLimit
      /\ IsFiniteSet(C) /\ Cardinality(C) = Len(Network) + 1
    BY <1>1, FS_Interval
<1>3. /\ IsFiniteSet(P \X C)
      /\ Cardinality(P \X C) = RecursionLimit * (Len(Network) + 1)
  <2> HIDE DEF P, C
  <2>1. /\ IsFiniteSet(P \X C)
        /\ Cardinality(P \X C) = Cardinality(P) * Cardinality(C)
    BY <1>2, FS_Product, Zenon
  <2> QED
    BY <1>2, <2>1
<1>4. References(trajectory) \subseteq P \X C
  <2>1. /\ trajectory \in Seq(Step) /\ Len(trajectory) \in Nat
        /\ DOMAIN trajectory = 1..Len(trajectory)
    BY DEF TypeOK
  <2>2. ASSUME NEW i \in DOMAIN trajectory
        PROVE  {i} \X trajectory[i].entities \subseteq P \X C
    <3>1. i \in P
      BY <1>1, <2>1
    <3>2. trajectory[i].entities \subseteq Carriers \cup {NoCarrier}
      <4>1. trajectory[i] \in Step
        BY <2>1
      <4> QED
        BY <4>1 DEF Step
    <3>3. Carriers \cup {NoCarrier} \subseteq C
      BY <1>1 DEF Carriers, NoCarrier
    <3> QED
      BY <3>1, <3>2, <3>3
  <2> QED
    BY <2>2 DEF References
<1> QED
    BY <1>3, <1>4, FS_Subset, FS_CardinalityType

\* A rate of one in at most 2000 is not rounded to nothing.
LEMMA SmallRatioIsSeen ==
    ASSUME NEW part \in Nat, NEW whole \in Nat, 0 < part, part <= whole, whole <= 2000
    PROVE  Ratio(part, whole) > 0
<1>1. 2 * (1000 * part) + whole >= 2 * whole
    OBVIOUS
<1>2. \A a \in Nat, b \in Nat \ {0} : a >= b => a \div b > 0
    OBVIOUS
<1>3. /\ 2 * (1000 * part) + whole \in Nat /\ 2 * whole \in Nat \ {0}
    OBVIOUS
<1> QED
    BY <1>1, <1>2, <1>3 DEF Ratio, Nearest

\* A run that booked a carrier nobody expected is seen by the rule-based check
\* and, as long as the run can refer to at most 2000 entities, has a
\* hallucination rate that is not zero: whichever provider named the carrier.
THEOREM UnexpectedIsSeen ==
    ASSUME RecursionLimit * (Len(Network) + 1) <= 2000
    PROVE  Spec => []UnexpectedBookingsAreSeen
<1>1. ASSUME TypeOK, NamedInv, execution_result.executed,
             execution_result.carrier \in Carriers \ ground_truth.entities
      PROVE  /\ hallucination_rate(trajectory, ground_truth) > 0
             /\ execution_result.carrier \in
                    rule_based_hallucination_check(trajectory, ground_truth.entities)
  <2> DEFINE c == execution_result.carrier
             refs == References(trajectory)
             hallucinated == {r \in refs : r[2] \notin ground_truth.entities}
  <2>1. PICK i \in DOMAIN trajectory : c \in trajectory[i].entities
    BY <1>1 DEF NamedInv
  <2>2. <<i, c>> \in refs
    BY <2>1 DEF References
  <2>3. <<i, c>> \in hallucinated
    BY <1>1, <2>2
  <2>4. /\ IsFiniteSet(refs) /\ Cardinality(refs) \in Nat
        /\ Cardinality(refs) <= RecursionLimit * (Len(Network) + 1)
    BY <1>1, ReferencesAreBounded DEF NamedInv
  <2>5. RecursionLimit * (Len(Network) + 1) \in Nat
    <3>1. RecursionLimit \in Nat /\ Len(Network) + 1 \in Nat
      BY InputAssumption, NetworkAssumption DEF InputAssumption
    <3> QED
      BY <3>1
  <2>6. Cardinality(refs) <= 2000
    BY <2>4, <2>5
  <2>7. /\ IsFiniteSet(hallucinated) /\ Cardinality(hallucinated) \in Nat
        /\ Cardinality(hallucinated) <= Cardinality(refs)
        /\ Cardinality(hallucinated) # 0
    <3>1. hallucinated \subseteq refs /\ hallucinated # {}
      BY <2>3
    <3> HIDE DEF hallucinated, refs
    <3> QED
      BY <2>4, <3>1, FS_Subset, FS_CardinalityType, FS_EmptySet
  <2>8. Ratio(Cardinality(hallucinated), Cardinality(refs)) > 0
    <3> HIDE DEF hallucinated, refs
    <3> QED
      BY <2>4, <2>6, <2>7, SmallRatioIsSeen
  <2>9. hallucination_rate(trajectory, ground_truth) > 0
    BY <2>2, <2>8 DEF hallucination_rate
  <2>10. c \in rule_based_hallucination_check(trajectory, ground_truth.entities)
    BY <1>1, <2>2 DEF rule_based_hallucination_check
  <2> QED
    BY <2>9, <2>10
<1>2. TypeOK /\ NamedInv => UnexpectedBookingsAreSeen
    BY <1>1 DEF UnexpectedBookingsAreSeen
<1> QED
    BY <1>2, InitType, StepType, ControlInit, ControlStep, NamedInit, NamedStep, PTL DEF Spec

-----------------------------------------------------------------------------
(* Full marks for recovery.                                                *)

NothingToFind == Lane = {} /\ LastFailedAt("carrier_lookup")

\* Every failure but the last step's has been made good, unless the lookup
\* fails over and over because no carrier serves the lane; and a run whose last
\* step failed is about to retry it, or to end.
RecoveryInv ==
    provider # "adapter" =>
        /\ \A i \in ErrorSteps(trajectory) :
             i = Len(trajectory) \/ Recovered(trajectory, i) \/ NothingToFind
        /\ EndedInError =>
             \/ node \in TerminalNodes \cup Stopped
             \/ node \in Retried /\ LastFailedAt(node) /\ retry_counts[node] > 0

LEMMA RecoveryInit == Init => RecoveryInv
BY DEF Init, RecoveryInv, EndedInError, ErrorSteps

\* What may fail under a shipped provider: the optimizer, for good; the first
\* lookup, or any if no carrier serves the lane; and the first execution.
LEMMA ShippedErrors ==
    ASSUME LastErrorCarried, TypeOK, ControlInv, [Next]_vars, provider # "adapter",
           NEW m, NEW error, NEW retry_of, Runs(m, error, retry_of)
    PROVE  /\ error # "none" => m \in {"carrier_lookup", "route_optimizer", "execution"}
           /\ m = "carrier_lookup" /\ error = "none" => Lane # {}
           /\ m = "carrier_lookup" /\ error # "none" =>
                \/ error = "no_carrier" /\ Lane = {}
                \/ error = "schema" /\ retry_counts[m] = 0
           /\ m = "route_optimizer" /\ error # "none" =>
                error = "infeasible" /\ node' \in TerminalNodes
           /\ m = "execution" /\ error # "none" =>
                error = "transient" /\ retry_counts[m] = 0
<1> USE DEF Enters
<1>n. node = m /\ Len(trajectory) \in Nat
    BY DEF Runs, TypeOK
\* The step that an action adds is the one that node m records.
<1>a. ASSUME NEW n, NEW tool, NEW e, NEW r, NEW entities, add_step(n, tool, e, r, entities)
      PROVE  e = error
  <2>1. PICK called, seen : add_step(m, called, error, retry_of, seen)
    BY DEF Runs, StepIs
  <2>2. trajectory \in Seq(Step)
    BY DEF TypeOK
  <2>3. /\ trajectory'[Len(trajectory) + 1].error = e
        /\ trajectory'[Len(trajectory) + 1].error = error
    BY <1>a, <2>1, <2>2 DEF add_step
  <2> QED
    BY <2>3
<1>1. CASE Planner \/ Audit
  <2>1. node \in {"planner", "audit"} /\ error = "none"
    BY <1>1, <1>a DEF Planner, Audit
  <2> QED
    BY <1>n, <2>1
<1>2. CASE Risk
  <2>1. PICK d \in Decisions(0) : add_step("risk", d.tool, CallError(d), 0, {})
    BY <1>2 DEF Risk
  <2>2. node = "risk" /\ CallError(d) = "none"
    BY <1>2, ShippedCall DEF Risk
  <2>3. error = "none"
    BY <1>a, <2>1, <2>2
  <2> QED
    BY <1>n, <2>2, <2>3
<1>3. CASE CarrierLookup
  <2> DEFINE r == retry_of_step("carrier_lookup")
             lk == retry_counts.carrier_lookup
  <2>1. PICK d \in Decisions(lk) :
          \/ d.schema_valid /\ Lane # {} /\ add_step("carrier_lookup", d.tool, "none", r, Lane)
          \/ ~ d.schema_valid /\ add_step("carrier_lookup", d.tool, "schema", r, {})
          \/ Lane = {} /\ add_step("carrier_lookup", d.tool, "no_carrier", r, {})
    BY <1>3 DEF CarrierLookup, Lane
  <2>2. node = "carrier_lookup" /\ lk \in Nat
    BY <1>3 DEF CarrierLookup, TypeOK
  <2>3. ~ d.schema_valid => lk = 0
    BY OnlyTheFirstIsSpoilt
  <2>4. \/ error = "none" /\ Lane # {}
        \/ error = "schema" /\ lk = 0
        \/ error = "no_carrier" /\ Lane = {}
    BY <1>a, <2>1, <2>3
  <2> QED
    BY <1>n, <2>2, <2>4 DEF Retried
<1>4. CASE RouteOptimizer
  <2>1. node = "route_optimizer" /\ node' = route_after_route_optimizer(last_error')
    BY <1>4 DEF RouteOptimizer
  <2>2. \/ \E tool, seen : add_step("route_optimizer", tool, "none", 0, seen)
        \/ /\ \E tool : add_step("route_optimizer", tool, "infeasible", 0, {})
           /\ SetLastError("route_optimizer", FALSE)
    BY <1>4, ShippedDecision DEF RouteOptimizer
  <2>3. SetLastError("route_optimizer", FALSE) => node' = "escalate_no_viable_route"
    BY <2>1, LastErrorCarried DEF SetLastError, route_after_route_optimizer
  <2>4. error = "none" \/ (error = "infeasible" /\ node' = "escalate_no_viable_route")
    BY <1>a, <2>2, <2>3
  <2> QED
    BY <1>n, <2>1, <2>4 DEF TerminalNodes
<1>5. CASE Validator
  <2>1. PICK d \in Decisions(0) :
          d.schema_valid => \E seen : add_step("validator", d.tool, "none", 0, seen)
    BY <1>5 DEF Validator
  <2>2. node = "validator" /\ d.schema_valid
    BY <1>5, ShippedDecision DEF Validator
  <2>3. error = "none"
    BY <1>a, <2>1, <2>2
  <2> QED
    BY <1>n, <2>2, <2>3
<1>6. CASE Execution
  <2> DEFINE r == retry_of_step("execution")
             ex == retry_counts.execution
  <2>1. PICK d \in Decisions(ex) :
          add_step("execution", d.tool, CallError(d), r, {d.carrier})
    BY <1>6 DEF Execution
  <2>2. node = "execution" /\ ex \in Nat
    BY <1>6 DEF Execution, TypeOK
  <2>3. error = IF FailsTransiently(d.force, d.attempt) THEN "transient" ELSE "none"
    BY <1>a, <2>1, <2>2, ShippedCall
  <2>4. d.attempt = Attempt(ex)
    <3>1. provider \in {"mock", "mock_flaky"}
      BY AnsweringProvider DEF MockProviders
    <3>2. \/ d = MockDecision(node, candidate_route, ex)
          \/ d = FlakyDecision(node, alert, candidate_route, ex)
      BY <3>1 DEF Decisions, decide_tool_call
    <3> QED
      BY <3>2 DEF MockDecision, FlakyDecision
  <2>5. error # "none" => error = "transient" /\ ex = 0
    BY <2>2, <2>3, <2>4 DEF FailsTransiently, Attempt
  <2> QED
    BY <1>n, <2>2, <2>5 DEF Retried
\* No other action records a step.
<1>7. CASE UNCHANGED trajectory
  <2>1. PICK called, seen : add_step(m, called, error, retry_of, seen)
    BY DEF Runs, StepIs
  <2>2. trajectory \in Seq(Step)
    BY DEF TypeOK
  <2>3. Len(trajectory') = Len(trajectory) + 1
    BY <2>1, <2>2 DEF add_step
  <2> QED
    BY <1>7, <1>n, <2>3
<1>8. \/ Planner \/ Audit \/ Risk \/ CarrierLookup \/ RouteOptimizer \/ Validator
      \/ Execution \/ UNCHANGED trajectory
    BY ShippedResult DEF Next, NodeStep, Terminating, vars, ValidateNothing, AuditWriteFails,
           EscalateHighRisk, EscalateNoViableRoute, FailExecution, Terminal,
           ProviderRaises, RecursionAbort
<1> QED
    BY <1>1, <1>2, <1>3, <1>4, <1>5, <1>6, <1>7, <1>8

LEMMA NodeThatRuns ==
    ASSUME TypeOK, [Next]_vars, NEW m, NEW error, NEW retry_of, Runs(m, error, retry_of)
    PROVE  node = m /\ m \in StepNodes
<1>1. trajectory' \in Seq(Step) /\ Len(trajectory') \in DOMAIN trajectory'
    BY StepIsAdded, StepType DEF TypeOK
<1>2. trajectory'[Len(trajectory')] \in Step
    BY <1>1
<1>3. trajectory'[Len(trajectory')].node = m
    BY StepIsAdded
<1> QED
    BY <1>2, <1>3 DEF Runs, Step

\* A retried node that fails is counted and tried again, or ends the run.
LEMMA RetriedNodeIsCounted ==
    ASSUME LastErrorCarried, TypeOK, ControlInv, [Next]_vars,
           NEW m \in Retried, NEW error, NEW retry_of, Runs(m, error, retry_of),
           error # "none"
    PROVE  node' \in TerminalNodes \/ (node' = m /\ retry_counts'[m] > 0)
<1>c. CountFailure(m) => retry_counts'[m] > 0
    BY DEF CountFailure, TypeOK, Retried
<1>a. ASSUME NEW n, NEW e, NEW r, Runs(n, e, r)
      PROVE  n = m /\ e = error
  <2>1. trajectory'[Len(trajectory')].error = e
    BY <1>a, StepIsAdded
  <2>2. trajectory'[Len(trajectory')].error = error
    BY StepIsAdded
  <2> QED
    BY <1>a, <2>1, <2>2 DEF Runs
<1>1. CASE FindsNone
  <2>1. m = "carrier_lookup" /\ CountFailure(m)
    BY <1>1, <1>a DEF FindsNone
  <2> QED
    BY <1>1, <1>c, <2>1, LastErrorCarried DEF FindsNone, TerminalNodes
<1>2. ASSUME NEW e, FailsToBook(e)
      PROVE  node' \in TerminalNodes \/ (node' = m /\ retry_counts'[m] > 0)
  <2>1. m = "execution" /\ CountFailure(m)
    BY <1>2, <1>a DEF FailsToBook
  <2> QED
    BY <1>2, <1>c, <2>1, LastErrorCarried DEF FailsToBook, TerminalNodes
<1>6. ~ Balks
    BY <1>a DEF Balks, Retried
<1>3. ~ (Plans \/ Accepts \/ Rejects \/ Refuses \/ Audits \/ FindsCarriers \/ Books)
    BY <1>a DEF Plans, Accepts, Rejects, Refuses, Audits, FindsCarriers, Books, Retried
<1>4. ~ (Scores \/ Proposes)
    BY <1>a DEF Scores, Proposes, Retried
<1>5. ~ Rests
  <2>1. Len(trajectory') = Len(trajectory) + 1 /\ Len(trajectory) \in Nat
    BY StepIsAdded
  <2> QED
    BY <2>1 DEF Rests
<1> QED
    BY StepShapes, <1>1, <1>2, <1>3, <1>4, <1>5, <1>6

\* What has been made good stays so when a step is added.
LEMMA RecoveredIsKept ==
    ASSUME TypeOK, NEW m, NEW error, NEW retry_of, Runs(m, error, retry_of),
           NEW i \in DOMAIN trajectory, Recovered(trajectory, i)
    PROVE  Recovered(trajectory', i)
<1>1. /\ Len(trajectory) \in Nat /\ DOMAIN trajectory = 1..Len(trajectory)
      /\ DOMAIN trajectory' = (1..Len(trajectory)) \cup {Len(trajectory')}
      /\ \A k \in 1..Len(trajectory) : trajectory'[k] = trajectory[k]
    BY StepIsAdded
<1>2. PICK j \in DOMAIN trajectory :
        /\ j > i /\ trajectory[j].node = trajectory[i].node /\ trajectory[j].error = "none"
        /\ \A k \in (i + 1)..(j - 1) : trajectory[k].node # trajectory[i].node
    BY DEF Recovered
<1>3. \A k \in (i + 1)..(j - 1) : k \in 1..Len(trajectory)
  <2> DEFINE n == Len(trajectory)
  <2>1. n \in Nat /\ i \in 1..n /\ j \in 1..n
    BY <1>1
  <2> HIDE DEF n
  <2>2. \A k \in (i + 1)..(j - 1) : k \in 1..n
    BY <2>1
  <2> QED
    BY <2>2 DEF n
<1>4. /\ trajectory'[j] = trajectory[j] /\ trajectory'[i] = trajectory[i]
      /\ j \in DOMAIN trajectory'
    BY <1>1
<1>5. \A k \in (i + 1)..(j - 1) : trajectory'[k].node # trajectory'[i].node
    BY <1>1, <1>2, <1>3, <1>4
<1> QED
    BY <1>2, <1>4, <1>5 DEF Recovered

\* A step that succeeds makes good a failure of its node just before it.
LEMMA SuccessRecoversLast ==
    ASSUME TypeOK, NEW m, NEW retry_of, Runs(m, "none", retry_of), LastFailedAt(m)
    PROVE  Recovered(trajectory', Len(trajectory))
<1> DEFINE n == Len(trajectory)
<1>1. /\ n \in Nat /\ DOMAIN trajectory = 1..n /\ Len(trajectory') = n + 1
      /\ DOMAIN trajectory' = (1..n) \cup {n + 1}
      /\ \A k \in 1..n : trajectory'[k] = trajectory[k]
      /\ trajectory'[n + 1].node = m /\ trajectory'[n + 1].error = "none"
    BY StepIsAdded
<1>2. n \in 1..n /\ trajectory[n].node = m
    BY <1>1 DEF LastFailedAt, EndedInError, TypeOK
<1> HIDE DEF n
<1>3. (n + 1)..((n + 1) - 1) = {}
    BY <1>1
<1>4. trajectory'[n].node = m
    BY <1>1, <1>2
<1>5. Recovered(trajectory', n)
    BY <1>1, <1>3, <1>4 DEF Recovered
<1> QED
    BY <1>5 DEF n

LEMMA RecoveryStep ==
    ASSUME LastErrorCarried
    PROVE  TypeOK /\ ControlInv /\ RecoveryInv /\ [Next]_vars => RecoveryInv'
<1> SUFFICES ASSUME TypeOK, ControlInv, RecoveryInv, [Next]_vars, provider' # "adapter"
             PROVE  RecoveryInv'
    BY DEF RecoveryInv
<1>p. provider # "adapter" /\ UNCHANGED Lane
    BY InputsAreFixed
<1>w. ASSUME \A i \in ErrorSteps(trajectory') :
                 i = Len(trajectory') \/ Recovered(trajectory', i) \/ NothingToFind',
             EndedInError' =>
                 \/ node' \in TerminalNodes \cup Stopped
                 \/ node' \in Retried /\ LastFailedAt(node)' /\ retry_counts'[node'] > 0
      PROVE  RecoveryInv'
    BY <1>w DEF RecoveryInv
<1>1. CASE Rests
  <2>1. /\ UNCHANGED <<trajectory, retry_counts>>
        /\ EndedInError' = EndedInError /\ NothingToFind' = NothingToFind
        /\ node' = node \/ node' \in Stopped
    BY <1>1, <1>p DEF Rests, EndedInError, NothingToFind, LastFailedAt
  <2>2. \A n : LastFailedAt(n)' = LastFailedAt(n)
    BY <2>1 DEF LastFailedAt
  <2> QED
    BY <1>p, <1>w, <2>1, <2>2 DEF RecoveryInv, Stopped
<1>2. ASSUME NEW m, NEW error, NEW retry_of, Runs(m, error, retry_of)
      PROVE  RecoveryInv'
  <2> DEFINE n == Len(trajectory)
  <2>1. /\ n \in Nat /\ DOMAIN trajectory = 1..n /\ Len(trajectory') = n + 1
        /\ trajectory' # <<>>
        /\ DOMAIN trajectory' = (1..n) \cup {Len(trajectory')}
        /\ \A i \in 1..n : trajectory'[i] = trajectory[i]
        /\ trajectory'[Len(trajectory')].node = m
        /\ trajectory'[Len(trajectory')].error = error
    BY <1>2, StepIsAdded
  <2>2. /\ EndedInError' <=> error # "none"
        /\ LastFailedAt(m)' <=> error # "none"
    BY <2>1 DEF EndedInError, LastFailedAt
  <2>3. /\ error # "none" => m \in Retried \/ node' \in TerminalNodes
        /\ m = "carrier_lookup" /\ error = "none" => Lane # {}
        /\ m = "carrier_lookup" /\ error # "none" => Lane = {} \/ retry_counts[m] = 0
        /\ m = "execution" /\ error # "none" => retry_counts[m] = 0
    BY <1>2, <1>p, ShippedErrors, LastErrorCarried DEF Retried
  <2>4. EndedInError => m \in Retried /\ LastFailedAt(m) /\ retry_counts[m] > 0
    <3>1. node = m /\ m \in StepNodes
      BY <1>2, NodeThatRuns
    <3>2. m \notin TerminalNodes \cup Stopped
      BY <3>1 DEF StepNodes, ToolNodes, TerminalNodes, Stopped, Exceptions
    <3> QED
      BY <1>p, <3>1, <3>2 DEF RecoveryInv
  <2>5. ASSUME NEW i \in ErrorSteps(trajectory')
        PROVE  i = Len(trajectory') \/ Recovered(trajectory', i) \/ NothingToFind'
    <3>1. SUFFICES ASSUME i \in 1..n
                   PROVE  Recovered(trajectory', i) \/ NothingToFind'
      BY <2>1 DEF ErrorSteps
    <3>2. i \in ErrorSteps(trajectory)
      BY <2>1, <3>1 DEF ErrorSteps
    <3>3. i = n => EndedInError
      <4>1. trajectory # <<>>
        BY <2>1, <3>1
      <4> QED
        BY <3>2, <4>1 DEF ErrorSteps, EndedInError
    <3>4. i = n \/ Recovered(trajectory, i) \/ NothingToFind
      BY <1>p, <3>2 DEF RecoveryInv
    <3>5. CASE Recovered(trajectory, i)
      BY <1>2, <2>1, <3>1, <3>5, RecoveredIsKept
    <3>6. CASE EndedInError /\ error # "none"
      <4>1. m = "carrier_lookup" /\ Lane = {}
        BY <2>3, <2>4, <3>6, <1>2 DEF Retried, TypeOK
      <4> QED
        BY <1>p, <2>2, <3>6, <4>1 DEF NothingToFind
    <3>7. CASE EndedInError /\ error = "none"
      <4>1. LastFailedAt(m) /\ ~ NothingToFind
        BY <2>3, <2>4, <3>7 DEF NothingToFind, LastFailedAt
      <4>2. i = n => Recovered(trajectory', i)
        BY <1>2, <3>7, <4>1, SuccessRecoversLast
      <4> QED
        BY <3>4, <3>5, <4>1, <4>2
    <3> QED
      BY <3>3, <3>4, <3>5, <3>6, <3>7 DEF NothingToFind, LastFailedAt
  <2>6. ASSUME EndedInError'
        PROVE  \/ node' \in TerminalNodes \cup Stopped
               \/ node' \in Retried /\ LastFailedAt(node)' /\ retry_counts'[node'] > 0
    <3>1. error # "none"
      BY <2>2, <2>6
    <3>2. CASE node' \in TerminalNodes
      BY <3>2
    <3>3. CASE m \in Retried
      <4>1. \/ node' \in TerminalNodes
            \/ node' = m /\ retry_counts'[m] > 0
        BY <1>2, <3>1, <3>3, LastErrorCarried, RetriedNodeIsCounted
      <4>2. node' = m => LastFailedAt(node)'
        BY <2>2, <3>1 DEF LastFailedAt
      <4> QED
        BY <3>3, <4>1, <4>2
    <3> QED
      BY <2>3, <3>1, <3>2, <3>3
  <2> QED
    BY <1>w, <2>5, <2>6
<1>3. CASE ~ Rests
  <2>1. \E m, error, retry_of : Runs(m, error, retry_of)
    BY <1>3, StepShapes, Zenon
       DEF Plans, Scores, FindsCarriers, FindsNone, Proposes, Accepts, Rejects, Refuses,
           Books, FailsToBook, Balks, Audits
  <2> QED
    BY <1>2, <2>1
<1> QED
    BY <1>1, <1>3

\* A share of fewer than 2000 that is not the whole is rounded below 1000.
LEMMA OnlyTheWholeIsFull ==
    ASSUME NEW part \in Nat, NEW whole \in Nat, 0 < whole, part <= whole, whole < 2000
    PROVE  Ratio(part, whole) = 1000 <=> part = whole
<1>1. /\ 2 * (1000 * part) + whole \in Nat /\ 2 * whole \in Nat \ {0}
      /\ Ratio(part, whole) = (2 * (1000 * part) + whole) \div (2 * whole)
    BY DEF Ratio, Nearest
<1>2. \A a \in Nat, b \in Nat \ {0} :
          a \div b = 1000 <=> 1000 * b <= a /\ a < 1001 * b
    OBVIOUS
<1>3. Ratio(part, whole) = 1000 <=>
          /\ 1000 * (2 * whole) <= 2 * (1000 * part) + whole
          /\ 2 * (1000 * part) + whole < 1001 * (2 * whole)
    BY <1>1, <1>2
<1> QED
    BY <1>3

\* Full marks for recovery mean that no failure had the last word, in a run of
\* a shipped provider of fewer than 2000 steps, when _last_error is carried.
THEOREM RecoveryTells ==
    ASSUME LastErrorCarried, RecursionLimit < 2000
    PROVE  Spec => [](provider # "adapter" => RecoveryTellsOutcome)
<1>1. ASSUME TypeOK, NamedInv, RecoveryInv, provider # "adapter"
      PROVE  error_recovery_success_rate(trajectory) = 1000 <=> ~ EndedInError
  <2> DEFINE n == Len(trajectory)
             errors == ErrorSteps(trajectory)
             recovered == {i \in errors : Recovered(trajectory, i)}
  <2>1. n \in Nat /\ DOMAIN trajectory = 1..n /\ n < 2000
    BY <1>1, InputAssumption DEF TypeOK, NamedInv, InputAssumption
  <2>2. /\ IsFiniteSet(errors) /\ Cardinality(errors) \in Nat /\ Cardinality(errors) < 2000
    <3> DEFINE steps == 1..n
    <3>1. errors \subseteq steps
      BY <2>1 DEF ErrorSteps
    <3> HIDE DEF errors, n
    <3>2. IsFiniteSet(steps) /\ Cardinality(steps) = n
      BY <2>1, FS_Interval
    <3> HIDE DEF steps
    <3>3. IsFiniteSet(errors) /\ Cardinality(errors) <= Cardinality(steps)
      BY <3>1, <3>2, FS_Subset
    <3>4. Cardinality(errors) \in Nat
      BY <3>3, FS_CardinalityType
    <3> QED
      BY <2>1, <3>2, <3>3, <3>4
  <2>3. /\ recovered \subseteq errors
        /\ Cardinality(recovered) \in Nat /\ Cardinality(recovered) <= Cardinality(errors)
        /\ Cardinality(recovered) = Cardinality(errors) <=> recovered = errors
    <3>1. recovered \subseteq errors
      OBVIOUS
    <3> HIDE DEF recovered, errors
    <3> QED
      BY <2>2, <3>1, FS_Subset, FS_CardinalityType
  <2>4. recovered = errors <=> ~ EndedInError
    <3>1. CASE EndedInError
      <4>1. n \in errors
        BY <2>1, <3>1 DEF ErrorSteps, EndedInError, TypeOK
      <4>2. ~ Recovered(trajectory, n)
        BY <2>1 DEF Recovered
      <4> QED
        BY <3>1, <4>1, <4>2
    <3>2. CASE ~ EndedInError
      <4>1. n \notin errors
        BY <2>1, <3>2 DEF ErrorSteps, EndedInError
      <4>2. \A i \in errors : Recovered(trajectory, i)
        BY <1>1, <3>2, <4>1 DEF RecoveryInv, NothingToFind, LastFailedAt
      <4> QED
        BY <3>2, <4>2
    <3> QED
      BY <3>1, <3>2
  <2>5. CASE errors = {}
    BY <2>4, <2>5 DEF error_recovery_success_rate
  <2>6. CASE errors # {}
    <3>1. error_recovery_success_rate(trajectory) =
              Ratio(Cardinality(recovered), Cardinality(errors))
      BY <2>6 DEF error_recovery_success_rate
    <3> HIDE DEF recovered, errors
    <3>2. Cardinality(errors) # 0
      BY <2>2, <2>6, FS_EmptySet
    <3>3. error_recovery_success_rate(trajectory) = 1000 <=>
              Cardinality(recovered) = Cardinality(errors)
      BY <2>2, <2>3, <3>1, <3>2, OnlyTheWholeIsFull
    <3> QED
      BY <2>3, <2>4, <3>3
  <2> QED
    BY <2>5, <2>6
<1>2. TypeOK /\ NamedInv /\ RecoveryInv => (provider # "adapter" => RecoveryTellsOutcome)
    BY <1>1 DEF RecoveryTellsOutcome
<1> QED
    BY <1>2, LastErrorCarried, InitType, StepType, ControlInit, ControlStep, NamedInit,
       NamedStep, RecoveryInit, RecoveryStep, PTL DEF Spec

-----------------------------------------------------------------------------
(* What the composite tells, whatever the ground truth.                    *)

RefusedSteps == {i \in DOMAIN trajectory : trajectory[i].error = "schema"}

\* Of the calls of a shipped provider one lookup at most is refused, after a
\* call of the risk tool that was not; and what can not be made good is a
\* lookup on a lane no carrier serves, or a proposal that ends the run.
CallsInv ==
    provider # "adapter" =>
        /\ \A i \in DOMAIN trajectory :
             /\ trajectory[i].error = "schema" => trajectory[i].node = "carrier_lookup"
             /\ trajectory[i].error = "no_carrier" =>
                  trajectory[i].node = "carrier_lookup" /\ Lane = {}
             /\ trajectory[i].error = "infeasible" =>
                  trajectory[i].node = "route_optimizer" /\ i = Len(trajectory)
             /\ trajectory[i].node = "carrier_lookup" /\ trajectory[i].error = "none" =>
                  Lane # {}
        /\ \A i, j \in RefusedSteps : i = j
        /\ node = "carrier_lookup" \/ RefusedSteps # {} =>
             \E i \in ToolCalls(trajectory) : trajectory[i].error # "schema"

LEMMA CallsInit == Init => CallsInv
BY DEF Init, CallsInv, RefusedSteps, ToolCalls

\* A refused lookup has been counted.
LEMMA RefusalIsCounted ==
    ASSUME TypeOK, CountInv, CallsInv, provider # "adapter", RefusedSteps # {}
    PROVE  retry_counts.carrier_lookup # 0
<1>1. FailedStepsOf("carrier_lookup") # {}
    BY DEF CallsInv, RefusedSteps, FailedStepsOf, StepsOf
<1> QED
    BY <1>1, FailedLookupIsCounted

\* The lookup is entered from the risk node, or from the lookup itself.
LEMMA LookupFollows ==
    ASSUME TypeOK, ControlInv, [Next]_vars, NEW m, NEW error, NEW retry_of,
           Runs(m, error, retry_of), node' = "carrier_lookup"
    PROVE  m \in {"risk", "carrier_lookup"}
BY StepShapes DEF Runs, Plans, Scores, FindsCarriers, FindsNone, Proposes, Accepts,
                  Rejects, Refuses, Books, FailsToBook, Balks, Audits, Rests, Stopped, Exceptions

LEMMA CallsStep ==
    ASSUME LastErrorCarried
    PROVE  TypeOK /\ ControlInv /\ CountInv /\ RecoveryInv /\ CallsInv /\ [Next]_vars
               => CallsInv'
<1> SUFFICES ASSUME TypeOK, ControlInv, CountInv, RecoveryInv, CallsInv, [Next]_vars,
                    provider' # "adapter"
             PROVE  CallsInv'
    BY DEF CallsInv
<1>p. provider # "adapter" /\ UNCHANGED Lane
    BY InputsAreFixed
<1>1. CASE Rests
  <2>1. /\ trajectory' = trajectory /\ RefusedSteps' = RefusedSteps
        /\ node' = "carrier_lookup" => node = "carrier_lookup"
    BY <1>1 DEF Rests, RefusedSteps, Stopped, Exceptions
  <2> HIDE DEF Lane
  <2> QED
    BY <1>p, <2>1 DEF CallsInv
<1>2. ASSUME NEW m, NEW error, NEW retry_of, Runs(m, error, retry_of)
      PROVE  CallsInv'
  <2> DEFINE n == Len(trajectory)
             p == Len(trajectory')
  <2>1. /\ n \in Nat /\ DOMAIN trajectory = 1..n /\ p = n + 1
        /\ DOMAIN trajectory' = (1..n) \cup {p}
        /\ \A i \in 1..n : trajectory'[i] = trajectory[i]
        /\ trajectory'[p].node = m /\ trajectory'[p].error = error
    BY <1>2, StepIsAdded
  <2>2. /\ error # "none" => m \in {"carrier_lookup", "route_optimizer", "execution"}
        /\ m = "carrier_lookup" /\ error = "none" => Lane # {}
        /\ m = "carrier_lookup" /\ error # "none" =>
             \/ error = "no_carrier" /\ Lane = {}
             \/ error = "schema" /\ retry_counts[m] = 0
        /\ m = "route_optimizer" /\ error # "none" => error = "infeasible"
        /\ m = "execution" /\ error # "none" => error = "transient"
    BY <1>2, <1>p, ShippedErrors, LastErrorCarried
  \* A proposal that failed was the end of the run.
  <2>3. \A i \in DOMAIN trajectory : trajectory[i].error # "infeasible"
    <3>1. SUFFICES ASSUME NEW i \in DOMAIN trajectory, trajectory[i].error = "infeasible"
                   PROVE  FALSE
      OBVIOUS
    <3>2. i = n /\ trajectory[n].node = "route_optimizer"
      BY <1>p, <3>1 DEF CallsInv
    <3>3. trajectory # <<>>
      BY <2>1, <3>1
    <3>4. EndedInError /\ ~ LastFailedAt("carrier_lookup") /\ ~ LastFailedAt("execution")
      BY <3>1, <3>2, <3>3 DEF EndedInError, LastFailedAt
    <3>5. node \in TerminalNodes \cup Stopped
      BY <1>p, <3>4 DEF RecoveryInv, Retried
    <3>6. node \in StepNodes
      BY <1>2, NodeThatRuns
    <3> QED
      BY <3>5, <3>6 DEF StepNodes, ToolNodes, TerminalNodes, Stopped, Exceptions
  <2>4. ASSUME NEW i \in DOMAIN trajectory'
        PROVE  /\ trajectory'[i].error = "schema" => trajectory'[i].node = "carrier_lookup"
               /\ trajectory'[i].error = "no_carrier" =>
                    trajectory'[i].node = "carrier_lookup" /\ Lane = {}
               /\ trajectory'[i].error = "infeasible" =>
                    trajectory'[i].node = "route_optimizer" /\ i = p
               /\ trajectory'[i].node = "carrier_lookup" /\ trajectory'[i].error = "none" =>
                    Lane # {}
    <3> HIDE DEF Lane, n, p
    <3>1. CASE i \in 1..n
      BY <1>p, <2>1, <2>3, <3>1 DEF CallsInv
    <3>2. CASE i = p
      BY <2>1, <2>2, <3>2
    <3> QED
      BY <2>1, <3>1, <3>2
  <2>5. RefusedSteps' = IF error = "schema" THEN {p} ELSE RefusedSteps
    <3>1. error = "schema" => RefusedSteps = {}
      BY <1>p, <2>2, RefusalIsCounted
    <3>2. RefusedSteps' = IF error = "schema" THEN RefusedSteps \cup {p} ELSE RefusedSteps
      <4> HIDE DEF n, p
      <4> QED
        BY <2>1 DEF RefusedSteps
    <3> QED
      BY <3>1, <3>2
  <2>6. \A i, j \in RefusedSteps' : i = j
    BY <1>p, <2>5 DEF CallsInv
  <2>7. ASSUME node' = "carrier_lookup" \/ RefusedSteps' # {}
        PROVE  \E i \in ToolCalls(trajectory') : trajectory'[i].error # "schema"
    <3>1. \/ \E i \in ToolCalls(trajectory) : trajectory[i].error # "schema"
          \/ m = "risk"
      <4>1. node = m
        BY <1>2 DEF Runs
      <4>2. node' = "carrier_lookup" => m \in {"risk", "carrier_lookup"}
        BY <1>2, LookupFollows
      <4>3. error = "schema" => m = "carrier_lookup"
        BY <2>2
      <4> QED
        BY <1>p, <2>5, <2>7, <4>1, <4>2, <4>3 DEF CallsInv
    <3>2. CASE m = "risk"
      <4>1. p \in ToolCalls(trajectory') /\ trajectory'[p].error = "none"
        BY <2>1, <2>2, <3>2 DEF ToolCalls, ToolNodes
      <4> QED
        BY <4>1
    <3>3. CASE \E i \in ToolCalls(trajectory) : trajectory[i].error # "schema"
      BY <2>1, <3>3 DEF ToolCalls
    <3> QED
      BY <3>1, <3>2, <3>3
  <2> QED
    BY <1>p, <2>4, <2>6, <2>7 DEF CallsInv
<1>3. CASE ~ Rests
  <2>1. \E m, error, retry_of : Runs(m, error, retry_of)
    BY <1>3, StepShapes, Zenon
       DEF Plans, Scores, FindsCarriers, FindsNone, Proposes, Accepts, Rejects, Refuses,
           Books, FailsToBook, Balks, Audits
  <2> QED
    BY <1>2, <2>1
<1> QED
    BY <1>1, <1>3

-----------------------------------------------------------------------------
(* The arithmetic of the score card.                                       *)

LEMMA ShareIsMetric ==
    ASSUME NEW part \in Nat, NEW whole \in Nat, 0 < whole, part <= whole
    PROVE  /\ Ratio(part, whole) \in 0..1000
           /\ part = whole => Ratio(part, whole) = 1000
           /\ whole <= 2 * part => Ratio(part, whole) >= 500
           /\ whole < 667 /\ Ratio(part, whole) >= 999 => part = whole
<1> DEFINE a == 2 * (1000 * part) + whole
           b == 2 * whole
<1>1. a \in Nat /\ b \in Nat \ {0} /\ Ratio(part, whole) = a \div b
    BY DEF Ratio, Nearest
<1>2. \A x \in Nat, y \in Nat \ {0} :
          /\ x \div y \in Nat
          /\ x < 1001 * y => x \div y <= 1000
          /\ 500 * y <= x => x \div y >= 500
          /\ 1000 * y <= x => x \div y >= 1000
          /\ x \div y >= 999 => 999 * y <= x
    OBVIOUS
<1>3. a < 1001 * b
    OBVIOUS
<1>4. part = whole => 1000 * b <= a
    OBVIOUS
<1>5. whole <= 2 * part => 500 * b <= a
    OBVIOUS
<1>6. whole < 667 /\ 999 * b <= a => part = whole
    OBVIOUS
<1> HIDE DEF a, b
<1> QED
    BY <1>1, <1>2, <1>3, <1>4, <1>5, <1>6

Thousandths == 0..1000

LEMMA RubricOfMetric ==
    ASSUME NEW value, value \in Thousandths, NEW mark, mark = to_rubric(value)
    PROVE  /\ mark \in 0..400
           /\ value = 0 => mark = 0
           /\ value = 1000 => mark = 400
           /\ value >= 500 => mark >= 200
           /\ mark = 400 => value >= 999
<1>1. mark = (8 * value + 10) \div 20
    BY DEF to_rubric, Nearest, Thousandths
<1> QED
    BY <1>1 DEF Thousandths

LEMMA CompositeOfMarks ==
    ASSUME NEW completion, completion \in 0..400, NEW recovery, recovery \in 0..400,
           NEW correctness, correctness \in 0..400, NEW transitions, transitions = 400,
           NEW hallucination, hallucination \in 0..400, NEW planning, planning \in 0..400,
           NEW score, score \in composite_scores(completion, recovery, correctness,
                                                 transitions, hallucination, planning)
    PROVE  /\ completion = 0 => score <= 3000
           /\ completion = 400 /\ recovery = 400 /\ correctness >= 200 => score > 3000
           /\ score = 4000 => recovery = 400 /\ correctness = 400
<1> DEFINE sum == 25 * completion + 25 * recovery + 18 * correctness
                  + 18 * transitions + 7 * hallucination + 7 * planning
<1>1. score = (sum + 4) \div 10 \/ score = (sum + 5) \div 10
    BY DEF composite_scores
<1>2. sum \in Nat
    OBVIOUS
<1>3. completion = 0 => sum <= 30000
    OBVIOUS
<1>4. completion = 400 /\ recovery = 400 /\ correctness >= 200 => sum >= 30800
    OBVIOUS
<1>5. sum >= 39995 => recovery = 400 /\ correctness = 400
    OBVIOUS
<1> HIDE DEF sum
<1> QED
    BY <1>1, <1>2, <1>3, <1>4, <1>5

\* What the composite tells of a run that completed its task or not, recovered
\* and made valid calls so well.
Tells(score, completed, recovered, correct) ==
    /\ completed = 0 => score <= 3000
    /\ completed = 1000 /\ recovered = 1000 => score > 3000
    /\ score = 4000 => recovered >= 999 /\ correct >= 999

LEMMA CompositeOfMetrics ==
    ASSUME NEW completed, completed \in Thousandths, NEW recovered, recovered \in Thousandths,
           NEW correct, correct \in Thousandths, 500 <= correct,
           NEW legal, legal \in {1000},
           NEW known, known \in Thousandths, NEW planned, planned \in Thousandths,
           NEW score, score \in composite_scores(to_rubric(completed), to_rubric(recovered),
                                                 to_rubric(correct), to_rubric(legal),
                                                 to_rubric(known), to_rubric(planned))
    PROVE  Tells(score, completed, recovered, correct)
<1>1. /\ to_rubric(completed) \in 0..400
      /\ completed = 0 => to_rubric(completed) = 0
      /\ completed = 1000 => to_rubric(completed) = 400
  <2> DEFINE mark == to_rubric(completed)
  <2>1. /\ mark \in 0..400
        /\ completed = 0 => mark = 0
        /\ completed = 1000 => mark = 400
    BY RubricOfMetric
  <2> QED
    BY <2>1
<1>2. /\ to_rubric(recovered) \in 0..400
      /\ recovered = 1000 => to_rubric(recovered) = 400
      /\ to_rubric(recovered) = 400 => recovered >= 999
    BY RubricOfMetric
<1>3. /\ to_rubric(correct) \in 0..400 /\ to_rubric(correct) >= 200
      /\ to_rubric(correct) = 400 => correct >= 999
    BY RubricOfMetric
<1>4. legal \in Thousandths /\ to_rubric(legal) = 400
  <2>1. legal \in Thousandths
    BY DEF Thousandths
  <2> QED
    BY <2>1, RubricOfMetric
<1>5. to_rubric(known) \in 0..400
    BY RubricOfMetric
<1>6. to_rubric(planned) \in 0..400
    BY RubricOfMetric
<1> QED
    BY <1>1, <1>2, <1>3, <1>4, <1>5, <1>6, CompositeOfMarks DEF Tells

-----------------------------------------------------------------------------
(* The metrics of a run of a shipped provider.                             *)

\* The number of some of the steps of a run.
LEMMA StepsAreFew ==
    ASSUME TypeOK, Len(trajectory) <= RecursionLimit, NEW S, S \subseteq DOMAIN trajectory
    PROVE  /\ IsFiniteSet(S) /\ Cardinality(S) \in Nat /\ Cardinality(S) <= RecursionLimit
           /\ S # {} => Cardinality(S) # 0
<1> DEFINE n == Len(trajectory)
           steps == 1..n
<1>1. n \in Nat /\ DOMAIN trajectory = steps /\ n <= RecursionLimit /\ RecursionLimit \in Nat
    BY InputAssumption DEF TypeOK, InputAssumption
<1> HIDE DEF n
<1>2. IsFiniteSet(steps) /\ Cardinality(steps) = n
    BY <1>1, FS_Interval
<1> HIDE DEF steps
<1>3. IsFiniteSet(S) /\ Cardinality(S) <= Cardinality(steps)
    BY <1>1, <1>2, FS_Subset
<1>4. Cardinality(S) \in Nat /\ (S # {} => Cardinality(S) # 0)
    BY <1>3, FS_CardinalityType, FS_EmptySet
<1> QED
    BY <1>1, <1>2, <1>3, <1>4

\* A share of a set that counts.
LEMMA PartOfSet ==
    ASSUME NEW S, IsFiniteSet(S), NEW T, T \subseteq S, S # {}
    PROVE  /\ Cardinality(T) \in Nat /\ Cardinality(S) \in Nat
           /\ 0 < Cardinality(S) /\ Cardinality(T) <= Cardinality(S)
           /\ Cardinality(T) = Cardinality(S) => T = S
<1>1. /\ IsFiniteSet(T) /\ Cardinality(T) <= Cardinality(S)
      /\ Cardinality(S) = Cardinality(T) => S = T
    BY FS_Subset
<1>2. Cardinality(T) \in Nat /\ Cardinality(S) \in Nat /\ Cardinality(S) # 0
    BY <1>1, FS_CardinalityType, FS_EmptySet
<1> QED
    BY <1>1, <1>2

LEMMA ShareOfSet ==
    ASSUME NEW S, IsFiniteSet(S), NEW T, T \subseteq S, S # {}
    PROVE  /\ Ratio(Cardinality(T), Cardinality(S)) \in 0..1000
           /\ T = S => Ratio(Cardinality(T), Cardinality(S)) = 1000
           /\ Cardinality(S) <= 2 * Cardinality(T) =>
                Ratio(Cardinality(T), Cardinality(S)) >= 500
           /\ /\ Cardinality(S) < 667
              /\ Ratio(Cardinality(T), Cardinality(S)) >= 999
              => T = S
<1> DEFINE part == Cardinality(T)
           whole == Cardinality(S)
<1>1. /\ part \in Nat /\ whole \in Nat /\ 0 < whole /\ part <= whole
      /\ part = whole => T = S
      /\ T = S => part = whole
    BY PartOfSet
<1> HIDE DEF part, whole
<1>2. /\ Ratio(part, whole) \in 0..1000
      /\ part = whole => Ratio(part, whole) = 1000
      /\ whole <= 2 * part => Ratio(part, whole) >= 500
      /\ whole < 667 /\ Ratio(part, whole) >= 999 => part = whole
    BY <1>1, ShareIsMetric
<1> QED
    BY <1>1, <1>2 DEF part, whole

LEMMA RecoveryRate ==
    ASSUME TypeOK, NamedInv
    PROVE  /\ error_recovery_success_rate(trajectory) \in 0..1000
           /\ (\A i \in ErrorSteps(trajectory) : Recovered(trajectory, i)) =>
                error_recovery_success_rate(trajectory) = 1000
           /\ RecursionLimit < 667 /\ error_recovery_success_rate(trajectory) >= 999 =>
                \A i \in ErrorSteps(trajectory) : Recovered(trajectory, i)
<1> DEFINE errors == ErrorSteps(trajectory)
           recovered == {i \in errors : Recovered(trajectory, i)}
<1>1. /\ IsFiniteSet(errors) /\ Cardinality(errors) \in Nat
      /\ Cardinality(errors) <= RecursionLimit
    BY StepsAreFew DEF NamedInv, ErrorSteps
<1>2. CASE errors = {}
    BY <1>2 DEF error_recovery_success_rate
<1>3. CASE errors # {}
  <2>1. error_recovery_success_rate(trajectory) =
            Ratio(Cardinality(recovered), Cardinality(errors))
    BY <1>3 DEF error_recovery_success_rate
  <2>2. recovered \subseteq errors
    OBVIOUS
  <2>3. recovered = errors <=> \A i \in errors : Recovered(trajectory, i)
    OBVIOUS
  <2> HIDE DEF recovered, errors
  <2>4. RecursionLimit < 667 => Cardinality(errors) < 667
    BY <1>1, InputAssumption DEF InputAssumption
  <2>5. /\ Ratio(Cardinality(recovered), Cardinality(errors)) \in 0..1000
        /\ recovered = errors => Ratio(Cardinality(recovered), Cardinality(errors)) = 1000
        /\ /\ Cardinality(errors) < 667
           /\ Ratio(Cardinality(recovered), Cardinality(errors)) >= 999
           => recovered = errors
    BY <1>1, <1>3, <2>2, ShareOfSet
  <2>6. /\ error_recovery_success_rate(trajectory) \in 0..1000
        /\ recovered = errors => error_recovery_success_rate(trajectory) = 1000
        /\ RecursionLimit < 667 /\ error_recovery_success_rate(trajectory) >= 999 =>
             recovered = errors
    BY <2>1, <2>4, <2>5
  <2> QED
    BY <2>3, <2>6 DEF errors
<1> QED
    BY <1>2, <1>3

LEMMA ValidityRate ==
    ASSUME TypeOK, NamedInv, CallsInv, provider # "adapter"
    PROVE  /\ schema_validity_rate(trajectory) \in 0..1000
           /\ schema_validity_rate(trajectory) >= 500
           /\ RecursionLimit < 667 /\ schema_validity_rate(trajectory) >= 999 =>
                RefusedSteps = {}
<1> DEFINE calls == ToolCalls(trajectory)
           valid == {i \in calls : trajectory[i].error # "schema"}
<1>1. /\ IsFiniteSet(calls) /\ Cardinality(calls) \in Nat
      /\ Cardinality(calls) <= RecursionLimit
    BY StepsAreFew DEF NamedInv, ToolCalls
<1>2. valid \subseteq calls /\ calls \ valid = RefusedSteps
    BY DEF CallsInv, RefusedSteps, ToolCalls, ToolNodes
<1>3. CASE calls = {}
    BY <1>2, <1>3 DEF schema_validity_rate
<1>4. CASE calls # {}
  <2>1. schema_validity_rate(trajectory) = Ratio(Cardinality(valid), Cardinality(calls))
    BY <1>4 DEF schema_validity_rate
  <2>2. RefusedSteps # {} => valid # {}
    BY DEF CallsInv
  <2> HIDE DEF valid, calls
  <2>3. /\ Cardinality(valid) \in Nat /\ 0 < Cardinality(calls)
        /\ Cardinality(valid) <= Cardinality(calls)
        /\ Cardinality(valid) = Cardinality(calls) => valid = calls
    BY <1>1, <1>2, <1>4, PartOfSet
  \* One call is refused, and one is not.
  <2>4. Cardinality(calls) <= 2 * Cardinality(valid)
    <3>1. CASE RefusedSteps = {}
      <4>1. valid = calls
        BY <1>2, <3>1
      <4> QED
        BY <2>3, <4>1
    <3>2. CASE RefusedSteps # {}
      <4>1. PICK k : k \in RefusedSteps
        BY <3>2
      <4>2. RefusedSteps = {k}
        BY <4>1 DEF CallsInv
      <4>3. calls = valid \cup {k} /\ k \notin valid
        BY <1>2, <4>2
      <4>4. IsFiniteSet(valid)
        BY <1>1, <1>2, FS_Subset
      <4>5. Cardinality(calls) = Cardinality(valid) + 1
        BY <4>3, <4>4, FS_AddElement
      <4>6. Cardinality(valid) # 0
        BY <2>2, <3>2, <4>4, FS_EmptySet
      <4> QED
        BY <2>3, <4>5, <4>6
    <3> QED
      BY <3>1, <3>2
  <2>5. RecursionLimit < 667 => Cardinality(calls) < 667
    BY <1>1, InputAssumption DEF InputAssumption
  <2>6. /\ schema_validity_rate(trajectory) \in 0..1000
        /\ schema_validity_rate(trajectory) >= 500
        /\ RecursionLimit < 667 /\ schema_validity_rate(trajectory) >= 999 => valid = calls
    <3>1. /\ Ratio(Cardinality(valid), Cardinality(calls)) \in 0..1000
          /\ Ratio(Cardinality(valid), Cardinality(calls)) >= 500
          /\ /\ Cardinality(calls) < 667
             /\ Ratio(Cardinality(valid), Cardinality(calls)) >= 999
             => valid = calls
      BY <1>1, <1>2, <1>4, <2>4, ShareOfSet
    <3> QED
      BY <2>1, <2>5, <3>1
  <2> QED
    BY <1>2, <2>6
<1> QED
    BY <1>3, <1>4

LEMMA TransitionRate ==
    ASSUME TypeOK, TransitionsAreLegal
    PROVE  valid_transition_rate(trajectory) = 1000
<1> DEFINE n == Len(trajectory)
           legal == {i \in 2..n :
                        <<trajectory[i - 1].node, trajectory[i].node>> \in LEGAL_TRANSITIONS}
<1>1. n \in Nat /\ legal = 2..n
    BY DEF TypeOK, TransitionsAreLegal
<1>2. valid_transition_rate(trajectory) =
          IF n < 2 THEN 1000 ELSE Ratio(Cardinality(2..n), n - 1)
    BY <1>1 DEF valid_transition_rate
<1> HIDE DEF n
<1>3. CASE n < 2
    BY <1>2, <1>3
<1>4. CASE ~ (n < 2)
  <2>1. Cardinality(2..n) = n - 1
    BY <1>1, <1>4, FS_Interval
  <2>2. n - 1 \in Nat /\ 0 < n - 1
    BY <1>1, <1>4
  <2>3. Ratio(n - 1, n - 1) = 1000
    BY <2>2, ShareIsMetric
  <2> QED
    BY <1>2, <1>4, <2>1, <2>3
<1> QED
    BY <1>3, <1>4

LEMMA HallucinationRate ==
    ASSUME TypeOK, NamedInv, NEW truth
    PROVE  hallucination_rate(trajectory, truth) \in 0..1000
<1> DEFINE refs == References(trajectory)
           hallucinated == {r \in refs : r[2] \notin truth.entities}
<1>1. IsFiniteSet(refs)
    BY ReferencesAreBounded DEF NamedInv
<1>2. CASE refs = {}
    BY <1>2 DEF hallucination_rate
<1>3. CASE refs # {}
  <2>1. hallucination_rate(trajectory, truth) =
            Ratio(Cardinality(hallucinated), Cardinality(refs))
    BY <1>3 DEF hallucination_rate
  <2>2. hallucinated \subseteq refs
    OBVIOUS
  <2> HIDE DEF hallucinated, refs
  <2>3. Ratio(Cardinality(hallucinated), Cardinality(refs)) \in 0..1000
    BY <1>1, <1>3, <2>2, ShareOfSet
  <2> QED
    BY <2>1, <2>3
<1> QED
    BY <1>2, <1>3

LEMMA CoherenceRate ==
    ASSUME NEW t, NEW truth \in Truth
    PROVE  plan_coherence(t, truth) \in 0..1000
<1> DEFINE n == Len(truth.order)
           actual == {i \in collapsed_node_sequence(t) : t[i].node # "planner"}
           place(i) == Cardinality({j \in actual : j <= i})
           matches == {k \in DOMAIN truth.order :
                          \E i \in actual : place(i) = k /\ t[i].node = truth.order[k]}
           places == 1..n
<1>1. truth.order \in Seq(ToolNodes \cup {"audit"})
    BY DEF Truth
<1>2. n \in Nat /\ DOMAIN truth.order = places /\ (truth.order # <<>> => n # 0)
    BY <1>1
<1>m. matches \subseteq places
  <2> HIDE DEF places, actual
  <2> QED
    BY <1>2
<1>3. CASE truth.order = <<>>
    BY <1>3 DEF plan_coherence
<1>4. CASE truth.order # <<>>
  <2>1. plan_coherence(t, truth) = Ratio(Cardinality(matches), n)
    BY <1>4 DEF plan_coherence
  <2> HIDE DEF matches, n
  <2>2. IsFiniteSet(places) /\ Cardinality(places) = n
    BY <1>2, FS_Interval
  <2>3. places # {}
    BY <1>2, <1>4
  <2> HIDE DEF places
  <2>4. Ratio(Cardinality(matches), Cardinality(places)) \in 0..1000
    BY <1>m, <2>2, <2>3, ShareOfSet
  <2> QED
    BY <2>1, <2>2, <2>4
<1> QED
    BY <1>3, <1>4

-----------------------------------------------------------------------------
\* Whatever the ground truth of an alert says, the composite of a run of a
\* shipped provider is at most three quarters if the run missed its expected
\* status, and more if it met it without ending in an error; and full marks go
\* to runs with no failed call but transient ones they recovered from: for runs
\* of fewer than 667 steps, when _last_error is carried.
THEOREM CompositeTells ==
    ASSUME LastErrorCarried, RecursionLimit < 667
    PROVE  Spec => [](provider # "adapter" => CompositeTellsOutcome)
<1>1. ASSUME TypeOK, NamedInv, RecoveryInv, CallsInv, TransitionsAreLegal,
             provider # "adapter", NEW score, score \in Composites
      PROVE  /\ final_status # ground_truth.status => score <= 3000
             /\ final_status = ground_truth.status /\ ~ EndedInError => score > 3000
             /\ score = 4000 =>
                  \A i \in ErrorSteps(trajectory) :
                      trajectory[i].error = "transient" /\ Recovered(trajectory, i)
  <2>1. PICK completed :
          /\ completed \in 0..1000
          /\ completed = task_completion(final_status, ground_truth)
          /\ final_status # ground_truth.status => completed = 0
          /\ final_status = ground_truth.status => completed = 1000
    BY DEF task_completion
  <2>2. PICK recovered :
          /\ recovered \in 0..1000
          /\ recovered = error_recovery_success_rate(trajectory)
          /\ (\A i \in ErrorSteps(trajectory) : Recovered(trajectory, i)) => recovered = 1000
          /\ recovered >= 999 => \A i \in ErrorSteps(trajectory) : Recovered(trajectory, i)
    BY <1>1, RecoveryRate
  <2>3. PICK correct :
          /\ correct \in 0..1000
          /\ correct = schema_validity_rate(trajectory)
          /\ correct >= 500
          /\ correct >= 999 => RefusedSteps = {}
    BY <1>1, ValidityRate
  <2>4. PICK legal : legal = valid_transition_rate(trajectory) /\ legal = 1000
    BY <1>1, TransitionRate
  <2>5. PICK known :
          known \in 0..1000 /\ known = 1000 - hallucination_rate(trajectory, ground_truth)
    <3>1. hallucination_rate(trajectory, ground_truth) \in 0..1000
      BY <1>1, HallucinationRate
    <3> QED
      BY <3>1
  <2>6. PICK planned :
          planned \in 0..1000 /\ planned = plan_coherence(trajectory, ground_truth)
    <3>1. ground_truth \in Truth
      BY <1>1, GroundTruthAssumption DEF GroundTruthAssumption, ground_truth, TypeOK
    <3> QED
      BY <3>1, CoherenceRate
  <2>7. score \in composite_scores(to_rubric(completed), to_rubric(recovered),
                                   to_rubric(correct), to_rubric(legal),
                                   to_rubric(known), to_rubric(planned))
    BY <1>1, <2>1, <2>2, <2>3, <2>4, <2>5, <2>6 DEF Composites, CompositeScores
  <2>8. /\ completed = 0 => score <= 3000
        /\ completed = 1000 /\ recovered = 1000 => score > 3000
        /\ score = 4000 => recovered >= 999 /\ correct >= 999
    <3>1. /\ completed \in Thousandths /\ recovered \in Thousandths
          /\ correct \in Thousandths /\ 500 <= correct /\ legal \in {1000}
          /\ known \in Thousandths /\ planned \in Thousandths
      BY <2>1, <2>2, <2>3, <2>4, <2>5, <2>6 DEF Thousandths
    <3>2. Tells(score, completed, recovered, correct)
      BY <2>7, <3>1, CompositeOfMetrics
    <3> QED
      BY <3>2 DEF Tells
  <2>9. ASSUME ~ EndedInError, NEW i \in ErrorSteps(trajectory)
        PROVE  Recovered(trajectory, i)
    <3>1. /\ DOMAIN trajectory = 1..Len(trajectory) /\ i \in DOMAIN trajectory
          /\ trajectory[i].error # "none"
      BY <1>1 DEF TypeOK, ErrorSteps
    <3>2. i # Len(trajectory)
      BY <2>9, <3>1 DEF EndedInError
    <3> QED
      BY <1>1, <2>9, <3>2 DEF RecoveryInv, NothingToFind, LastFailedAt
  \* What was made good was neither a search of an empty lane nor a proposal.
  <2>10. ASSUME RefusedSteps = {}, NEW i \in ErrorSteps(trajectory), Recovered(trajectory, i)
         PROVE  trajectory[i].error = "transient"
    <3>1. /\ i \in DOMAIN trajectory /\ DOMAIN trajectory = 1..Len(trajectory)
          /\ trajectory[i].error \in Errors \ {"none", "schema"}
      <4>1. i \in DOMAIN trajectory /\ trajectory[i].error # "none"
        BY DEF ErrorSteps
      <4>2. trajectory[i] \in Step
        BY <1>1, <4>1 DEF TypeOK
      <4>3. trajectory[i].error # "schema"
        BY <2>10, <4>1 DEF RefusedSteps
      <4> QED
        BY <1>1, <4>1, <4>2, <4>3 DEF Step, TypeOK
    <3>2. PICK j \in DOMAIN trajectory :
            j > i /\ trajectory[j].node = trajectory[i].node /\ trajectory[j].error = "none"
      BY <2>10 DEF Recovered
    <3>3. trajectory[i].error # "no_carrier"
      BY <1>1, <3>1, <3>2 DEF CallsInv
    <3>4. trajectory[i].error # "infeasible"
      BY <1>1, <3>1, <3>2 DEF CallsInv, TypeOK
    <3> QED
      BY <3>1, <3>3, <3>4 DEF Errors
  <2> QED
    BY <2>1, <2>2, <2>3, <2>8, <2>9, <2>10
<1>2. TypeOK /\ NamedInv /\ RecoveryInv /\ CallsInv /\ TransitionInv
          => (provider # "adapter" => CompositeTellsOutcome)
    BY <1>1 DEF CompositeTellsOutcome, TransitionInv
<1> QED
    BY <1>2, LastErrorCarried, InitType, StepType, ControlInit, ControlStep, CountInit,
       CountStep, NamedInit, NamedStep, RecoveryInit, RecoveryStep, CallsInit, CallsStep,
       TransitionInit, TransitionStep, PTL DEF Spec

=============================================================================
