-------------------------- MODULE CommandLine_proofs --------------------------
(***************************************************************************)
(* Proofs about the evaluation harness behind the command line, for every  *)
(* fixture, suite, list of providers, setting and number of commands.      *)
(***************************************************************************)
EXTENDS CommandLine, Predictions_proofs
LOCAL INSTANCE SequencesExt

-----------------------------------------------------------------------------
(* The audit file.                                                         *)

\* The harness only has work to do while an evaluation is being executed, and
\* its runs are under the settings of the evaluation, which ask for no record.
AuditInv ==
    /\ stage # "idle" => command = "eval"
    /\ stage = "running" => settings = eval_settings

\* No node of the graph changes the settings of its run.
LEMMA SettingsAreFixed == NodeStep => settings' = settings
BY DEF NodeStep, Planner, Risk, CarrierLookup, RouteOptimizer, Validator,
       ValidateNothing, Execution, ResultIsNoModel, Audit, AuditWriteFails, EscalateHighRisk,
       EscalateNoViableRoute, FailExecution, Terminal, ProviderRaises,
       RecursionAbort, inputs

LEMMA EvaluationAsksForNoRecord == eval_settings.write_audit_log_file = FALSE
BY HarnessAssumption, InputAssumption DEF eval_settings, Settings

\* A run that asks for no record leaves the file as it is.
LEMMA NoRecordUnasked ==
    NodeStep /\ settings.write_audit_log_file = FALSE => UNCHANGED audit_log
<1>1. Audit /\ settings.write_audit_log_file = FALSE => UNCHANGED audit_log
    BY DEF Audit
<1>2. NodeStep => Audit \/ UNCHANGED audit_log
    BY DEF NodeStep, Planner, Risk, CarrierLookup, RouteOptimizer, Validator,
           ValidateNothing, Execution, ResultIsNoModel, AuditWriteFails, EscalateHighRisk,
           EscalateNoViableRoute, FailExecution, Terminal, ProviderRaises, RecursionAbort
<1> QED
    BY <1>1, <1>2

LEMMA AuditInit == CliInit => AuditInv
BY DEF CliInit, HarnessInit, AuditInv

\* Only an evaluation that is being executed moves the harness, and the one
\* step that enters a run of it sets the run's settings.
LEMMA AuditStep == AuditInv /\ [CliNext]_cliVars => AuditInv'
<1> SUFFICES ASSUME AuditInv, [CliNext]_cliVars
             PROVE  AuditInv'
    OBVIOUS
<1> USE DEF AuditInv, eval_settings
<1>1. CASE cmd_demo
    BY <1>1 DEF cmd_demo, Invokes, harness
<1>2. CASE DemoRefused
    BY <1>2 DEF DemoRefused, Invokes, harness, vars, inputs
<1>3. CASE cmd_eval
    BY <1>3 DEF cmd_eval, Invokes, StartEvaluation
<1>4. CASE StepDemo
    BY <1>4 DEF StepDemo, harness, cli
<1>5. CASE DemoPrints \/ DemoRaises
    BY <1>5 DEF DemoPrints, DemoRaises, harness, vars, inputs
<1>6. CASE StepEval
  <2>1. command' = command
    BY <1>6 DEF StepEval, cli
  <2>2. CASE BeginRun
    BY <1>6, <2>1, <2>2 DEF StepEval, BeginRun, new_initial_state
  <2>3. CASE StepRun
    BY <1>6, <2>1, <2>3, SettingsAreFixed DEF StepEval, StepRun, harness
  <2>4. CASE ScoreRun \/ RunRaises \/ WriteJson \/ WriteMarkdown \/ WriteFails
    BY <1>6, <2>1, <2>4
       DEF StepEval, ScoreRun, RunRaises, WriteJson, WriteMarkdown, WriteFails
  <2> QED
    BY <1>6, <2>2, <2>3, <2>4 DEF StepEval
<1>7. CASE ExitEval
    BY <1>7 DEF ExitEval, Exit
<1>8. CASE Wait
    BY <1>8 DEF Wait, Tick, harness, vars, inputs, cli
<1>9. CASE Done \/ UNCHANGED cliVars
    BY <1>9 DEF Done, cliVars, harness, vars, inputs, cli
<1> QED
    BY <1>1, <1>2, <1>3, <1>4, <1>5, <1>6, <1>7, <1>8, <1>9 DEF CliNext, CommandStep

\* Evaluation runs never write to the shared audit file (the comment in
\* run_all), whatever their suite, their providers, the default settings, and
\* however their runs end.
THEOREM EvaluationsLeaveTheFileAlone == CliSpec => EvaluationLeavesAuditFileAlone
<1>1. AuditInv /\ [CliNext]_cliVars => [command = "eval" => UNCHANGED audit_log]_cliVars
  <2> SUFFICES ASSUME AuditInv, CliNext, command = "eval"
               PROVE  UNCHANGED audit_log
    BY DEF cliVars, vars
  <2>1. StepEval \/ ExitEval
    BY DEF CliNext, CommandStep, cmd_demo, DemoRefused, cmd_eval, Invokes, StepDemo,
           DemoPrints, DemoRaises, Wait, Done
  <2>2. CASE StepEval /\ StepRun
    BY <2>2, NoRecordUnasked, EvaluationAsksForNoRecord DEF StepRun, AuditInv
  <2>3. CASE StepEval /\ ~ StepRun
    BY <2>3 DEF StepEval, BeginRun, ScoreRun, RunRaises, WriteJson, WriteMarkdown,
                WriteFails, vars
  <2>4. CASE ExitEval
    BY <2>4 DEF ExitEval, Exit, vars
  <2> QED
    BY <2>1, <2>2, <2>3, <2>4
<1> QED
    BY <1>1, AuditInit, AuditStep, PTL DEF CliSpec, EvaluationLeavesAuditFileAlone

-----------------------------------------------------------------------------
(* The reports.                                                            *)

\* A sequence, whatever its elements are.
IsSequence(s) == s \in Seq({s[k] : k \in DOMAIN s})

\* While an evaluation is on, its cards are those of the runs it has done and
\* pending holds the rest, in order; the report it has just written holds them.
CardsInv ==
    /\ suite \in Seq(Alerts) /\ providers \in Seq(RunProviders)
    /\ stage \in {"next_run", "running", "markdown"} =>
         /\ IsSequence(scorecards) /\ IsSequence(pending)
         /\ Len(scorecards) + Len(pending) = Len(suite) * Len(providers)
         /\ \A k \in 1..Len(scorecards) : scorecards[k].run = RunsToDo[k]
         /\ \A k \in 1..Len(pending) : pending[k] = RunsToDo[Len(scorecards) + k]
    /\ stage = "running" => pending # <<>>
    /\ stage = "markdown" =>
         /\ pending = <<>>
         /\ now \in DOMAIN json_reports
         /\ json_reports[now] = scorecards

LEMMA SeqIsSequence ==
    ASSUME NEW S, NEW t \in Seq(S)
    PROVE  IsSequence(t)
<1>1. Len(t) \in Nat /\ t = [k \in 1..Len(t) |-> t[k]]
    OBVIOUS
<1> QED
    BY <1>1 DEF IsSequence

LEMMA AppendIsSequence ==
    ASSUME NEW s, IsSequence(s), NEW e
    PROVE  /\ IsSequence(Append(s, e))
           /\ Len(s) \in Nat /\ Len(Append(s, e)) = Len(s) + 1
           /\ \A k \in 1..Len(s) : Append(s, e)[k] = s[k]
           /\ Append(s, e)[Len(s) + 1] = e
<1> DEFINE S == {s[k] : k \in DOMAIN s} \cup {e}
           t == Append(s, e)
<1>1. s \in Seq(S)
    BY DEF IsSequence
<1>2. /\ t \in Seq(S)
      /\ Len(s) \in Nat /\ Len(t) = Len(s) + 1
      /\ \A k \in 1..Len(s) : t[k] = s[k]
      /\ t[Len(s) + 1] = e
    BY <1>1
<1> QED
    BY <1>2, SeqIsSequence

LEMMA TailIsSequence ==
    ASSUME NEW s, IsSequence(s), s # <<>>
    PROVE  /\ IsSequence(Tail(s))
           /\ Len(s) \in Nat \ {0} /\ Len(Tail(s)) = Len(s) - 1
           /\ Head(s) = s[1]
           /\ \A k \in 1..Len(Tail(s)) : Tail(s)[k] = s[k + 1]
<1> DEFINE S == {s[k] : k \in DOMAIN s}
           t == Tail(s)
<1>1. s \in Seq(S)
    BY DEF IsSequence
<1>2. /\ t \in Seq(S)
      /\ Len(s) \in Nat \ {0} /\ Len(t) = Len(s) - 1
      /\ Head(s) = s[1]
      /\ \A k \in 1..Len(t) : t[k] = s[k + 1]
    BY <1>1
<1> QED
    BY <1>2, SeqIsSequence

LEMMA RunsToDoIsSequence ==
    ASSUME suite \in Seq(Alerts), providers \in Seq(RunProviders)
    PROVE  /\ IsSequence(RunsToDo)
           /\ Len(RunsToDo) = Len(suite) * Len(providers)
<1> DEFINE n == Len(suite) * Len(providers)
<1>1. n \in Nat
  <2>1. Len(suite) \in Nat /\ Len(providers) \in Nat
    OBVIOUS
  <2>2. \A i, j \in Nat : i * j \in Nat
    OBVIOUS
  <2> QED
    BY <2>1, <2>2
<1>2. DOMAIN RunsToDo = 1..n /\ RunsToDo = [k \in 1..n |-> RunsToDo[k]]
    BY DEF RunsToDo
<1> HIDE DEF n
<1>3. RunsToDo \in Seq({RunsToDo[k] : k \in DOMAIN RunsToDo})
    BY <1>1, <1>2
<1>4. Len(RunsToDo) = n
    BY <1>1, <1>2, <1>3
<1> QED
    BY <1>3, <1>4 DEF IsSequence, n

LEMMA CardsInit == CliInit => CardsInv
BY HarnessAssumption DEF CliInit, HarnessInit, CardsInv

\* A run that is scored moves from pending to the cards; nothing else changes
\* either of them between the start of an evaluation and its end.
LEMMA CardsStep == CardsInv /\ [CliNext]_cliVars => CardsInv'
<1> SUFFICES ASSUME CardsInv, [CliNext]_cliVars
             PROVE  CardsInv'
    OBVIOUS
<1>1. suite' = suite /\ providers' = providers
    BY DEF CliNext, CommandStep, cmd_demo, DemoRefused, cmd_eval, StartEvaluation, StepDemo,
           DemoPrints, DemoRaises, StepEval, BeginRun, StepRun, ScoreRun, RunRaises,
           WriteJson, WriteMarkdown, WriteFails, ExitEval, Exit, Wait, Tick, Done,
           harness, cliVars
<1>2. RunsToDo' = RunsToDo
    BY <1>1 DEF RunsToDo
<1>3. suite \in Seq(Alerts) /\ providers \in Seq(RunProviders)
    BY DEF CardsInv
<1>4. CASE UNCHANGED <<harness, now, json_reports>>
    BY <1>4, <1>2 DEF CardsInv, harness, IsSequence
<1>5. CASE StartEvaluation
  <2>1. IsSequence(<<>>) /\ Len(<<>>) = 0
    BY DEF IsSequence
  <2>2. stage' = "next_run" /\ scorecards' = <<>> /\ pending' = RunsToDo
    BY <1>5 DEF StartEvaluation
  <2>3. IsSequence(pending') /\ Len(pending') = Len(suite) * Len(providers)
    BY <1>3, <2>2, RunsToDoIsSequence
  <2>4. Len(pending') \in Nat
    BY <2>3 DEF IsSequence
  <2> HIDE DEF IsSequence
  <2>5. Len(scorecards') + Len(pending') = Len(suite') * Len(providers')
    BY <1>1, <2>1, <2>2, <2>3, <2>4
  <2>6. \A k \in 1..Len(pending') : pending'[k] = RunsToDo'[Len(scorecards') + k]
    BY <1>2, <2>1, <2>2, <2>4
  <2>7. \A k \in 1..Len(scorecards') : scorecards'[k].run = RunsToDo'[k]
    BY <2>1, <2>2
  <2>8. IsSequence(scorecards)'
    BY <2>1, <2>2 DEF IsSequence
  <2>9. IsSequence(pending)'
    BY <2>3 DEF IsSequence
  <2> QED
    BY <1>1, <1>3, <2>2, <2>5, <2>6, <2>7, <2>8, <2>9 DEF CardsInv
<1>6. CASE BeginRun
    BY <1>1, <1>2, <1>6 DEF BeginRun, disk, CardsInv, IsSequence
<1>7. CASE ScoreRun
  <2>1. PICK card : scorecards' = Append(scorecards, [run |-> Head(pending), card |-> card])
    BY <1>7 DEF ScoreRun
  <2> DEFINE e == [run |-> Head(pending), card |-> card]
  <2>2. /\ stage = "running" /\ stage' = "next_run"
        /\ pending' = Tail(pending)
    BY <1>7 DEF ScoreRun
  <2>3. /\ IsSequence(scorecards) /\ IsSequence(pending) /\ pending # <<>>
        /\ Len(scorecards) + Len(pending) = Len(suite) * Len(providers)
        /\ \A k \in 1..Len(scorecards) : scorecards[k].run = RunsToDo[k]
        /\ \A k \in 1..Len(pending) : pending[k] = RunsToDo[Len(scorecards) + k]
    BY <2>2 DEF CardsInv
  <2>4. /\ IsSequence(scorecards')
        /\ Len(scorecards) \in Nat /\ Len(scorecards') = Len(scorecards) + 1
        /\ \A k \in 1..Len(scorecards) : scorecards'[k] = scorecards[k]
        /\ scorecards'[Len(scorecards) + 1].run = Head(pending)
    BY <2>1, <2>3, AppendIsSequence
  <2>5. /\ IsSequence(pending')
        /\ Len(pending) \in Nat \ {0} /\ Len(pending') = Len(pending) - 1
        /\ Head(pending) = pending[1]
        /\ \A k \in 1..Len(pending') : pending'[k] = pending[k + 1]
    BY <2>2, <2>3, TailIsSequence
  <2>6. Len(scorecards') + Len(pending') = Len(suite') * Len(providers')
    <3>1. Len(scorecards') + Len(pending') = Len(scorecards) + Len(pending)
      BY <2>4, <2>5
    <3>2. Len(suite') * Len(providers') = Len(suite) * Len(providers)
      BY <1>1
    <3> QED
      BY <2>3, <3>1, <3>2
  <2>7. ASSUME NEW k \in 1..Len(scorecards')
        PROVE  scorecards'[k].run = RunsToDo'[k]
    <3>1. CASE k \in 1..Len(scorecards)
      BY <1>2, <2>3, <2>4, <3>1
    <3>2. CASE k = Len(scorecards) + 1
      <4>1. 1 \in 1..Len(pending) /\ pending[1] = RunsToDo[Len(scorecards) + 1]
        BY <2>3, <2>5
      <4> QED
        BY <1>2, <2>4, <2>5, <3>2, <4>1
    <3> QED
      BY <2>4, <3>1, <3>2
  <2>8. ASSUME NEW k \in 1..Len(pending')
        PROVE  pending'[k] = RunsToDo'[Len(scorecards') + k]
    <3>1. k + 1 \in 1..Len(pending)
      BY <2>5
    <3>2. pending[k + 1] = RunsToDo[Len(scorecards) + (k + 1)]
      BY <2>3, <3>1
    <3>3. Len(scorecards) + (k + 1) = Len(scorecards') + k
      BY <2>4, <2>5
    <3> QED
      BY <1>2, <2>5, <3>2, <3>3
  <2>9. IsSequence(scorecards)' /\ IsSequence(pending)'
    BY <2>4, <2>5 DEF IsSequence
  <2> QED
    BY <1>1, <1>3, <2>2, <2>6, <2>7, <2>8, <2>9 DEF CardsInv
<1>8. CASE WriteJson
    BY <1>1, <1>2, <1>8 DEF WriteJson, CardsInv, IsSequence
<1>9. CASE RunRaises \/ WriteMarkdown \/ WriteFails \/ Exit
    BY <1>1, <1>9 DEF RunRaises, WriteMarkdown, WriteFails, Exit, CardsInv
<1>10. CASE Tick
    BY <1>1, <1>10 DEF Tick, harness, CardsInv
<1> QED
    BY <1>4, <1>5, <1>6, <1>7, <1>8, <1>9, <1>10
       DEF CliNext, CommandStep, cmd_demo, DemoRefused, cmd_eval, StepDemo, DemoPrints,
           DemoRaises, StepEval, StepRun, ExitEval, Wait, Done, disk, cliVars

\* A report that is written holds one card for each scenario and provider, in
\* order, each of its own run: a run that raises leaves no report with a gap.
THEOREM ReportsHoldEveryRun == CliSpec => []ReportsAreComplete
<1>1. CardsInv => ReportsAreComplete
  <2> SUFFICES ASSUME CardsInv, stage = "markdown"
               PROVE  /\ Len(json_reports[now]) = Len(suite) * Len(providers)
                      /\ \A k \in DOMAIN json_reports[now] :
                            json_reports[now][k].run = RunsToDo[k]
    BY DEF ReportsAreComplete, NewReports
  <2>1. /\ IsSequence(scorecards) /\ pending = <<>> /\ json_reports[now] = scorecards
        /\ Len(scorecards) + Len(pending) = Len(suite) * Len(providers)
        /\ \A k \in 1..Len(scorecards) : scorecards[k].run = RunsToDo[k]
    BY DEF CardsInv
  <2>2. Len(scorecards) \in Nat /\ DOMAIN scorecards = 1..Len(scorecards)
    BY <2>1 DEF IsSequence
  <2>3. Len(pending) = 0
    BY <2>1
  <2> QED
    BY <2>1, <2>2, <2>3
<1> QED
    BY <1>1, CardsInit, CardsStep, PTL DEF CliSpec

-----------------------------------------------------------------------------
(* What the harness keeps.                                                 *)

\* Only the cards of an evaluation that is on are to be completed, and no
\* report is from the future.
KeptInv ==
    /\ suite \in Suites /\ providers \in ProviderLists
    /\ stage \in Stages
    /\ stage \in {"idle", "done", "raised"} => pending = <<>>
    /\ now \in Nat \ {0}
    /\ DOMAIN json_reports \subseteq 1..now
    /\ DOMAIN markdown_reports \subseteq 1..now

LEMMA KeptInit == CliInit => KeptInv
BY DEF CliInit, HarnessInit, KeptInv, Stages

LEMMA KeptStep == KeptInv /\ CardsInv /\ [CliNext]_cliVars => KeptInv'
<1> SUFFICES ASSUME KeptInv, CardsInv, [CliNext]_cliVars
             PROVE  KeptInv'
    OBVIOUS
<1> USE DEF Stages
<1>1. CASE UNCHANGED <<harness, disk>>
    BY <1>1 DEF KeptInv, harness, disk
<1>2. CASE StartEvaluation
    BY <1>2 DEF StartEvaluation, KeptInv, disk
<1>3. CASE BeginRun
    BY <1>3 DEF BeginRun, KeptInv, disk
<1>4. CASE ScoreRun
    BY <1>4 DEF ScoreRun, KeptInv, disk
<1>5. CASE RunRaises
    BY <1>5 DEF RunRaises, KeptInv, disk
<1>6. CASE WriteJson
  <2>1. DOMAIN json_reports' = DOMAIN json_reports \cup {now}
    BY <1>6 DEF WriteJson
  <2>2. now \in 1..now
    BY DEF KeptInv
  <2> QED
    BY <1>6, <2>1, <2>2 DEF WriteJson, KeptInv
<1>7. CASE WriteMarkdown
  <2>1. DOMAIN markdown_reports' = DOMAIN markdown_reports \cup {now}
    BY <1>7 DEF WriteMarkdown
  <2>2. now \in 1..now
    BY DEF KeptInv
  <2>3. pending = <<>>
    BY <1>7 DEF WriteMarkdown, CardsInv
  <2> QED
    BY <1>7, <2>1, <2>2, <2>3 DEF WriteMarkdown, KeptInv
<1>8. CASE WriteFails
  <2>1. pending = <<>>
    BY <1>8 DEF WriteFails, CardsInv
  <2> QED
    BY <1>8, <2>1 DEF WriteFails, KeptInv, disk
<1>9. CASE Exit
    BY <1>9 DEF Exit, KeptInv, disk
<1>10. CASE Tick
    BY <1>10 DEF Tick, harness, KeptInv
<1> QED
    BY <1>1, <1>2, <1>3, <1>4, <1>5, <1>6, <1>7, <1>8, <1>9, <1>10
       DEF CliNext, CommandStep, cmd_demo, DemoRefused, cmd_eval, StepDemo, DemoPrints,
           DemoRaises, StepEval, StepRun, ExitEval, Wait, Done, cliVars

\* A sequence that agrees with the end of another is a suffix of it.
LEMMA SuffixByElements ==
    ASSUME NEW s, NEW t, IsSequence(s), IsSequence(t), Len(s) <= Len(t),
           \A k \in 1..Len(s) : s[k] = t[Len(t) - Len(s) + k]
    PROVE  IsSuffix(s, t)
<1> DEFINE m == Len(s)
           n == Len(t)
           u == Reverse(s)
           v == Reverse(t)
<1>1. m \in Nat /\ n \in Nat
    BY DEF IsSequence
<1>2. /\ u = [k \in 1..m |-> s[m - k + 1]]
      /\ v = [k \in 1..n |-> t[n - k + 1]]
    BY DEF Reverse
<1>3. Len(u) = m /\ Len(v) = n
    BY <1>1, <1>2
<1>4. ASSUME NEW k \in 1..m
      PROVE  u[k] = v[k]
  <2>1. m - k + 1 \in 1..m /\ k \in 1..n
    BY <1>1
  <2>2. s[m - k + 1] = t[n - m + (m - k + 1)]
    BY <2>1
  <2>3. n - m + (m - k + 1) = n - k + 1
    BY <1>1
  <2> QED
    BY <1>2, <2>1, <2>2, <2>3
<1>5. SubSeq(u, 1, m) = [k \in 1..m |-> u[k]] /\ SubSeq(v, 1, m) = [k \in 1..m |-> v[k]]
    BY <1>1
<1>6. SubSeq(u, 1, m) = SubSeq(v, 1, m)
    BY <1>4, <1>5
<1> QED
    BY <1>3, <1>6 DEF IsSuffix, IsPrefix

\* What the harness keeps has its type, for every suite and list of providers:
\* what is pending is always the end of the runs to do, and a report is never
\* dated later than the clock.
THEOREM HarnessTypesHold == CliSpec => []HarnessTypeOK
<1>1. ASSUME KeptInv, CardsInv
      PROVE  IsSuffix(pending, RunsToDo)
  <2>1. IsSequence(RunsToDo) /\ Len(RunsToDo) = Len(suite) * Len(providers)
    BY <1>1, RunsToDoIsSequence DEF CardsInv
  <2>2. Len(RunsToDo) \in Nat
    BY <2>1 DEF IsSequence
  <2>3. CASE pending = <<>>
    <3>1. IsSequence(pending) /\ Len(pending) = 0
      BY <2>3 DEF IsSequence
    <3> QED
      BY <2>1, <2>2, <3>1, SuffixByElements
  <2>4. CASE stage \in {"next_run", "running", "markdown"}
    <3>1. /\ IsSequence(scorecards) /\ IsSequence(pending)
          /\ Len(scorecards) + Len(pending) = Len(RunsToDo)
          /\ \A k \in 1..Len(pending) : pending[k] = RunsToDo[Len(scorecards) + k]
      BY <1>1, <2>1, <2>4 DEF CardsInv
    <3>2. Len(scorecards) \in Nat /\ Len(pending) \in Nat
      BY <3>1 DEF IsSequence
    <3>3. Len(pending) <= Len(RunsToDo) /\ Len(RunsToDo) - Len(pending) = Len(scorecards)
      BY <3>1, <3>2
    <3> QED
      BY <2>1, <3>1, <3>3, SuffixByElements
  <2> QED
    BY <1>1, <2>3, <2>4 DEF KeptInv, Stages
<1>2. KeptInv /\ CardsInv => HarnessTypeOK
    BY <1>1 DEF KeptInv, HarnessTypeOK
<1> QED
    BY <1>2, KeptInit, KeptStep, CardsInit, CardsStep, PTL DEF CliSpec

-----------------------------------------------------------------------------
(* The audit file and what the demos printed.                              *)

Successes(prints) == {k \in DOMAIN prints : prints[k].status = "SUCCESS"}

\* The record of a demo that has succeeded and not printed so yet.
Unprinted == IF command = "demo" /\ final_status = "SUCCESS" THEN 1 ELSE 0

\* A demo runs under the default settings, and its run is over once it is a
\* success; the file is one record ahead of the screen in between.
DemosInv ==
    /\ IsSequence(audit_log) /\ IsSequence(printed)
    /\ command = "demo" =>
         /\ settings = DEFAULT_SETTINGS
         /\ final_status = "SUCCESS" => node = "END"
    /\ Len(audit_log) = Cardinality(Successes(printed)) + Unprinted

LEMMA SuccessesAreCounted ==
    ASSUME NEW s, IsSequence(s)
    PROVE  /\ Cardinality(Successes(s)) \in Nat
           /\ \A e : Cardinality(Successes(Append(s, e)))
                     = Cardinality(Successes(s)) + (IF e.status = "SUCCESS" THEN 1 ELSE 0)
<1> DEFINE n == Len(s)
<1>1. n \in Nat /\ DOMAIN s = 1..n
    BY DEF IsSequence
<1>2. IsFiniteSet(1..n) /\ Successes(s) \subseteq 1..n
    BY <1>1, FS_Interval DEF Successes
<1>3. IsFiniteSet(Successes(s)) /\ Cardinality(Successes(s)) \in Nat
    BY <1>2, FS_Subset, FS_CardinalityType
<1>4. ASSUME NEW e
      PROVE  Cardinality(Successes(Append(s, e)))
             = Cardinality(Successes(s)) + (IF e.status = "SUCCESS" THEN 1 ELSE 0)
  <2> DEFINE t == Append(s, e)
  <2>1. /\ Len(t) = n + 1 /\ IsSequence(t)
        /\ \A k \in 1..n : t[k] = s[k]
        /\ t[n + 1] = e
    BY AppendIsSequence
  <2>2. DOMAIN t = (1..n) \cup {n + 1} /\ n + 1 \notin 1..n
    BY <1>1, <2>1 DEF IsSequence
  <2> HIDE DEF t
  <2>3. CASE e.status = "SUCCESS"
    <3>1. Successes(t) = Successes(s) \cup {n + 1} /\ n + 1 \notin Successes(s)
      BY <1>1, <2>1, <2>2, <2>3 DEF Successes
    <3>2. Cardinality(Successes(t)) = Cardinality(Successes(s)) + 1
      BY <1>3, <3>1, FS_AddElement
    <3> QED
      BY <2>3, <3>2 DEF t
  <2>4. CASE e.status # "SUCCESS"
    <3>1. Successes(t) = Successes(s)
      BY <1>1, <2>1, <2>2, <2>4 DEF Successes
    <3> QED
      BY <1>3, <2>4, <3>1 DEF t
  <2> QED
    BY <2>3, <2>4
<1> QED
    BY <1>3, <1>4

\* A step of the graph that is not its audit neither succeeds nor records.
LEMMA OnlyAuditSucceeds ==
    NodeStep => \/ Audit
                \/ /\ UNCHANGED audit_log
                   /\ final_status' # "SUCCESS" \/ UNCHANGED final_status
BY DEF NodeStep, Planner, Risk, CarrierLookup, RouteOptimizer, Validator,
       ValidateNothing, Execution, ResultIsNoModel, AuditWriteFails, EscalateHighRisk,
       EscalateNoViableRoute, FailExecution, Terminal, ProviderRaises, RecursionAbort,
       outcome

LEMMA NoStepFromTheEnd == NodeStep => node # "END"
BY DEF NodeStep, Planner, Risk, CarrierLookup, RouteOptimizer, Validator,
       ValidateNothing, Execution, ResultIsNoModel, Audit, AuditWriteFails, EscalateHighRisk,
       EscalateNoViableRoute, FailExecution, Terminal, ProviderRaises, RecursionAbort,
       Enters, PlainNodes, Nodes, StepNodes, ToolNodes, TerminalNodes

LEMMA DemosInit == CliInit => DemosInv
<1> SUFFICES ASSUME CliInit
             PROVE  DemosInv
    OBVIOUS
<1>1. audit_log = <<>> /\ printed = <<>> /\ command = "none"
    BY DEF CliInit, Init
<1>2. IsSequence(<<>>) /\ Len(<<>>) = 0
    BY DEF IsSequence
<1>3. Successes(<<>>) = {}
    BY DEF Successes
<1> QED
    BY <1>1, <1>2, <1>3, FS_EmptySet DEF DemosInv, Unprinted

LEMMA DemosStep ==
    ASSUME DEFAULT_SETTINGS.write_audit_log_file
    PROVE  AuditInv /\ DemosInv /\ [CliNext]_cliVars => DemosInv'
<1> SUFFICES ASSUME AuditInv, DemosInv, [CliNext]_cliVars
             PROVE  DemosInv'
    OBVIOUS
<1> DEFINE sc == Cardinality(Successes(printed))
<1>n. sc \in Nat /\ Len(audit_log) \in Nat
    BY SuccessesAreCounted DEF DemosInv, IsSequence
<1>s. ASSUME UNCHANGED <<audit_log, printed>>, Unprinted' = Unprinted
      PROVE  /\ IsSequence(audit_log)' /\ IsSequence(printed)'
             /\ Len(audit_log)' = Cardinality(Successes(printed))' + Unprinted'
    BY <1>s DEF DemosInv, IsSequence, Successes
<1>w. ASSUME IsSequence(audit_log'), IsSequence(printed'),
             command' = "demo" => /\ settings' = DEFAULT_SETTINGS
                                  /\ final_status' = "SUCCESS" => node' = "END",
             Len(audit_log') = Cardinality(Successes(printed')) + Unprinted'
      PROVE  DemosInv'
    BY <1>w DEF DemosInv, IsSequence, Successes
<1>1. CASE cmd_demo
  <2>1. /\ UNCHANGED <<audit_log, printed>> /\ command = "none" /\ command' = "demo"
        /\ settings' = DEFAULT_SETTINGS /\ final_status' = "IN_PROGRESS"
    BY <1>1 DEF cmd_demo, Invokes, new_initial_state
  <2>2. Unprinted' = Unprinted
    BY <2>1 DEF Unprinted
  <2> QED
    BY <1>s, <2>1, <2>2 DEF DemosInv
<1>2. CASE DemoRefused
  <2>1. /\ command = "none" /\ command' = "none" /\ UNCHANGED audit_log
        /\ \E p : printed' = Append(printed, [provider |-> p, status |-> "usage"])
    BY <1>2 DEF DemoRefused, Invokes, vars
  <2>2. PICK p : printed' = Append(printed, [provider |-> p, status |-> "usage"])
    BY <2>1
  <2> DEFINE e == [provider |-> p, status |-> "usage"]
  <2>3. IsSequence(printed')
    BY <2>2, AppendIsSequence DEF DemosInv
  <2>4. e.status # "SUCCESS"
    OBVIOUS
  <2> HIDE DEF e
  <2>5. Cardinality(Successes(printed')) = sc + 0
    BY <2>2, <2>4, SuccessesAreCounted DEF DemosInv, e
  <2>6. IsSequence(audit_log') /\ Unprinted = 0 /\ Unprinted' = 0
    BY <2>1 DEF DemosInv, Unprinted
  <2>7. Len(audit_log') = Cardinality(Successes(printed')) + Unprinted'
    BY <1>n, <2>1, <2>5, <2>6 DEF DemosInv
  <2> QED
    BY <1>w, <2>1, <2>3, <2>6, <2>7
<1>3. CASE cmd_eval
  <2>1. UNCHANGED <<audit_log, printed>> /\ command = "none" /\ command' = "eval"
    BY <1>3 DEF cmd_eval, Invokes, StartEvaluation, vars
  <2>2. Unprinted' = Unprinted
    BY <2>1 DEF Unprinted
  <2> QED
    BY <1>s, <2>1, <2>2 DEF DemosInv
<1>4. CASE StepDemo
  <2>1. /\ NodeStep /\ UNCHANGED <<command, printed>> /\ command = "demo"
        /\ settings' = DEFAULT_SETTINGS
        /\ node # "END" /\ final_status # "SUCCESS" /\ Unprinted = 0
    BY <1>4, SettingsAreFixed, NoStepFromTheEnd DEF StepDemo, cli, DemosInv, Unprinted
  <2>2. CASE Audit
    <3>1. /\ audit_log' = Append(audit_log, audit_record)
          /\ final_status' = "SUCCESS" /\ node' = "END"
      BY <2>1, <2>2, DEFAULT_SETTINGS.write_audit_log_file DEF Audit, DemosInv
    <3>2. IsSequence(audit_log') /\ Len(audit_log') = Len(audit_log) + 1
      BY <3>1, AppendIsSequence DEF DemosInv
    <3>3. Unprinted' = 1
      BY <2>1, <3>1 DEF Unprinted
    <3>4. Len(audit_log') = Cardinality(Successes(printed')) + Unprinted'
      BY <1>n, <2>1, <3>2, <3>3 DEF DemosInv
    <3>5. IsSequence(printed')
      BY <2>1 DEF DemosInv
    <3> QED
      BY <1>w, <2>1, <3>1, <3>2, <3>4, <3>5
  <2>3. CASE UNCHANGED audit_log /\ final_status' # "SUCCESS"
    <3>1. Unprinted' = Unprinted
      BY <2>1, <2>3 DEF Unprinted
    <3> QED
      BY <1>s, <2>1, <2>3, <3>1 DEF DemosInv
  <2> QED
    BY <2>1, <2>2, <2>3, OnlyAuditSucceeds
<1>5. CASE DemoPrints
  <2> DEFINE e == [provider |-> provider, status |-> final_status]
  <2>1. /\ command = "demo" /\ command' = "none" /\ UNCHANGED audit_log
        /\ printed' = Append(printed, e)
    BY <1>5 DEF DemoPrints, vars
  <2>2. e.status = final_status
    OBVIOUS
  <2> HIDE DEF e
  <2>3. IsSequence(printed')
    BY <2>1, AppendIsSequence DEF DemosInv
  <2>4. Cardinality(Successes(printed')) = sc + (IF final_status = "SUCCESS" THEN 1 ELSE 0)
    BY <2>1, <2>2, SuccessesAreCounted DEF DemosInv
  <2>5. Unprinted = (IF final_status = "SUCCESS" THEN 1 ELSE 0) /\ Unprinted' = 0
    BY <2>1 DEF Unprinted
  <2>6. Len(audit_log') = Cardinality(Successes(printed')) + Unprinted'
    BY <1>n, <2>1, <2>4, <2>5 DEF DemosInv
  <2>7. IsSequence(audit_log')
    BY <2>1 DEF DemosInv
  <2> QED
    BY <1>w, <2>1, <2>3, <2>6, <2>7
<1>6. CASE DemoRaises
  <2>1. /\ command = "demo" /\ command' = "none" /\ UNCHANGED <<audit_log, printed>>
        /\ node # "END"
    BY <1>6 DEF DemoRaises, vars, Exceptions
  <2>2. Unprinted' = Unprinted
    BY <2>1 DEF DemosInv, Unprinted
  <2> QED
    BY <1>s, <2>1, <2>2 DEF DemosInv
<1>7. CASE StepEval \/ ExitEval
  <2>1. command = "eval" /\ command' # "demo" /\ UNCHANGED printed
    BY <1>7 DEF StepEval, ExitEval, cli
  <2>2. UNCHANGED audit_log
    <3>1. CASE StepRun
      BY <1>7, <3>1, NoRecordUnasked, EvaluationAsksForNoRecord DEF StepRun, AuditInv
    <3>2. CASE StepEval /\ ~ StepRun
      BY <3>2 DEF StepEval, BeginRun, ScoreRun, RunRaises, WriteJson, WriteMarkdown,
                  WriteFails, vars
    <3>3. CASE ExitEval
      BY <3>3 DEF ExitEval, Exit, vars
    <3> QED
      BY <1>7, <3>1, <3>2, <3>3
  <2>3. Unprinted' = Unprinted
    BY <2>1 DEF Unprinted
  <2> QED
    BY <1>s, <2>1, <2>2, <2>3 DEF DemosInv
<1>8. CASE Wait \/ Done \/ UNCHANGED cliVars
  <2>1. UNCHANGED <<audit_log, printed, command, settings, final_status, node>>
    BY <1>8 DEF Wait, Tick, Done, cliVars, vars, inputs, outcome, cli
  <2>2. Unprinted' = Unprinted
    BY <2>1 DEF Unprinted
  <2> QED
    BY <1>s, <2>1, <2>2 DEF DemosInv
<1> QED
    BY <1>1, <1>2, <1>3, <1>4, <1>5, <1>6, <1>7, <1>8 DEF CliNext, CommandStep

\* When the default settings ask for records, as the shipped ones do, the audit
\* file holds as many as demos have printed SUCCESS, whatever evaluations,
\* refused commands and exceptions came in between.
THEOREM EveryDemoIsAudited ==
    ASSUME DEFAULT_SETTINGS.write_audit_log_file
    PROVE  CliSpec => []AuditFileTracksDemos
<1>1. DemosInv => AuditFileTracksDemos
  <2> SUFFICES ASSUME DemosInv, command = "none"
               PROVE  Len(audit_log) = Cardinality(Successes(printed))
    BY DEF AuditFileTracksDemos, Successes
  <2>1. Cardinality(Successes(printed)) \in Nat /\ Unprinted = 0
    BY SuccessesAreCounted DEF DemosInv, Unprinted
  <2> QED
    BY <2>1 DEF DemosInv
<1> QED
    BY <1>1, AuditInit, AuditStep, DemosInit, DemosStep, PTL DEF CliSpec

-----------------------------------------------------------------------------
(* The runs behind the commands.                                           *)

\* A run starts as Init has it, save that the audit file is kept.
FreshRun ==
    \E a \in Alerts, p \in RunProviders, s \in SettingsSpace :
        new_initial_state(a, p, s) /\ UNCHANGED audit_log

LEMMA DivisionInRange ==
    ASSUME NEW x \in Nat, NEW n \in Nat, NEW m \in Nat, x < n * m
    PROVE  m # 0 /\ x \div m \in 0..(n - 1) /\ x % m \in 0..(m - 1)
<1>1. m # 0
    OBVIOUS
<1> DEFINE q == x \div m
<1>2. q \in Nat /\ x % m \in 0..(m - 1) /\ x >= m * q
    BY <1>1
<1>3. \A i, j, k \in Nat : j <= i => j * k <= k * i
    OBVIOUS
<1> HIDE DEF q
<1>4. q < n
    BY <1>2, <1>3
<1> QED
    BY <1>1, <1>2, <1>4 DEF q

\* The runs of an evaluation are of alerts of its suite and providers of its
\* list.
LEMMA RunsToDoAreRuns ==
    ASSUME suite \in Seq(Alerts), providers \in Seq(RunProviders),
           NEW k, k \in 1..(Len(suite) * Len(providers))
    PROVE  /\ RunsToDo[k].alert \in Alerts
           /\ RunsToDo[k].provider \in RunProviders
<1> DEFINE n == Len(suite)
           m == Len(providers)
           a == ((k - 1) \div m) + 1
           p == ((k - 1) % m) + 1
<1>1. n \in Nat /\ m \in Nat /\ k \in Int /\ k - 1 \in Nat /\ k - 1 < n * m
  <2>1. n \in Nat /\ m \in Nat
    OBVIOUS
  <2>2. \A i, j \in Nat : i * j \in Nat
    OBVIOUS
  <2> HIDE DEF n, m
  <2>3. n * m \in Nat /\ k \in 1..(n * m)
    BY <2>1, <2>2 DEF n, m
  <2> QED
    BY <2>1, <2>3
<1>2. (k - 1) \div m \in 0..(n - 1) /\ (k - 1) % m \in 0..(m - 1)
  <2> HIDE DEF n, m
  <2> QED
    BY <1>1, DivisionInRange
<1>3. a \in 1..n /\ p \in 1..m
    BY <1>1, <1>2
<1>4. RunsToDo[k] = [alert |-> suite[a], provider |-> providers[p]]
    BY DEF RunsToDo
<1>5. suite[a] \in Alerts /\ providers[p] \in RunProviders
  <2> HIDE DEF a, p
  <2> QED
    BY <1>3
<1> QED
    BY <1>4, <1>5

\* Whatever the commands do, the graph takes a step of its own, a run starts,
\* or nothing happens to it.
LEMMA RunMoves ==
    ASSUME CardsInv, [CliNext]_cliVars
    PROVE  NodeStep \/ FreshRun \/ UNCHANGED vars
<1>1. CASE cmd_demo
  <2>1. PICK k \in DOMAIN suite, p \in RequestedProviders \cap choices :
          new_initial_state(suite[k], p, DEFAULT_SETTINGS)
    BY <1>1 DEF cmd_demo
  <2>2. suite[k] \in Alerts
    BY DEF CardsInv
  <2>3. p \in RunProviders /\ DEFAULT_SETTINGS \in SettingsSpace
    BY CommandLineAssumption, HarnessAssumption DEF CommandLineAssumption, HarnessAssumption
  <2>4. UNCHANGED audit_log
    BY <1>1 DEF cmd_demo
  <2> QED
    BY <2>1, <2>2, <2>3, <2>4 DEF FreshRun
<1>2. CASE BeginRun
  <2>1. /\ stage = "next_run" /\ pending # <<>> /\ UNCHANGED audit_log
        /\ new_initial_state(Head(pending).alert, Head(pending).provider, eval_settings)
    BY <1>2 DEF BeginRun
  <2>2. /\ IsSequence(pending) /\ IsSequence(scorecards)
        /\ Len(scorecards) + Len(pending) = Len(suite) * Len(providers)
        /\ \A k \in 1..Len(pending) : pending[k] = RunsToDo[Len(scorecards) + k]
    BY <2>1 DEF CardsInv
  <2>3. Len(pending) \in Nat \ {0} /\ Head(pending) = pending[1]
    BY <2>1, <2>2, TailIsSequence
  <2>4. Len(scorecards) \in Nat
    BY <2>2 DEF IsSequence
  <2>5. Head(pending) = RunsToDo[Len(scorecards) + 1]
    BY <2>2, <2>3
  <2>6. Len(scorecards) + 1 \in 1..(Len(suite) * Len(providers))
    BY <2>2, <2>3, <2>4
  <2>7. Head(pending).alert \in Alerts /\ Head(pending).provider \in RunProviders
    BY <2>5, <2>6, RunsToDoAreRuns DEF CardsInv
  <2> QED
    BY <2>1, <2>7, EvaluationAssumption DEF FreshRun, EvaluationAssumption
<1>3. CASE StepDemo \/ StepRun
    BY <1>3 DEF StepDemo, StepRun
<1> QED
    BY <1>1, <1>2, <1>3
       DEF CliNext, CommandStep, DemoRefused, cmd_eval, StartEvaluation,
           DemoPrints, DemoRaises, StepEval, ScoreRun, RunRaises, WriteJson, WriteMarkdown,
           WriteFails, ExitEval, Exit, Wait, Tick, Done, cliVars

\* What holds of every run of the graph holds of the runs of the commands.
LEMMA CliTypes == CliSpec => []TypeOK
<1>1. FreshRun /\ TypeOK => TypeOK'
  <2> SUFFICES ASSUME TypeOK, NEW a \in Alerts, NEW p \in RunProviders, NEW s \in SettingsSpace,
                      new_initial_state(a, p, s), UNCHANGED audit_log
               PROVE  TypeOK'
    BY DEF FreshRun
  <2> QED
    BY DEF new_initial_state, TypeOK, Nodes, StepNodes, NoRetries, NoError, NotExecuted
<1>2. TypeOK /\ CardsInv /\ [CliNext]_cliVars => TypeOK'
    BY <1>1, RunMoves, StepType DEF Next
<1>3. CliInit => TypeOK
    BY InitType DEF CliInit
<1> QED
    BY <1>2, <1>3, CardsInit, CardsStep, PTL DEF CliSpec

-----------------------------------------------------------------------------
(* The percentiles.                                                        *)

LatencyInv ==
    stage \in {"next_run", "running", "markdown"} =>
        \A k \in 1..Len(scorecards) : scorecards[k].card.total_latency_ms \in Nat

LEMMA LatencyInit == CliInit => LatencyInv
BY DEF CliInit, HarnessInit, LatencyInv

LEMMA LatencyStep == TypeOK /\ CardsInv /\ LatencyInv /\ [CliNext]_cliVars => LatencyInv'
<1> SUFFICES ASSUME TypeOK, CardsInv, LatencyInv, [CliNext]_cliVars
             PROVE  LatencyInv'
    OBVIOUS
<1>1. CASE UNCHANGED <<stage, scorecards>>
    BY <1>1 DEF LatencyInv
<1>2. CASE StartEvaluation
    BY <1>2 DEF StartEvaluation, LatencyInv
<1>3. CASE BeginRun \/ WriteJson
    BY <1>3 DEF BeginRun, WriteJson, LatencyInv
<1>4. CASE ScoreRun
  <2>1. PICK card \in compute_scorecard(trajectory, final_status, GroundTruth[Head(pending).alert]) :
          scorecards' = Append(scorecards, [run |-> Head(pending), card |-> card])
    BY <1>4 DEF ScoreRun
  <2>2. card.total_latency_ms \in Nat
    BY <2>1, LatencyIsNumber DEF compute_scorecard
  <2>3. IsSequence(scorecards) /\ \A k \in 1..Len(scorecards) : scorecards[k].card.total_latency_ms \in Nat
    BY <1>4 DEF ScoreRun, CardsInv, LatencyInv
  <2>4. /\ Len(scorecards) \in Nat /\ Len(scorecards') = Len(scorecards) + 1
        /\ \A k \in 1..Len(scorecards) : scorecards'[k] = scorecards[k]
        /\ scorecards'[Len(scorecards) + 1].card = card
    BY <2>1, <2>3, AppendIsSequence
  <2> QED
    BY <2>2, <2>3, <2>4 DEF LatencyInv
<1>5. CASE RunRaises \/ WriteMarkdown \/ WriteFails \/ Exit
    BY <1>5 DEF RunRaises, WriteMarkdown, WriteFails, Exit, LatencyInv
<1> QED
    BY <1>1, <1>2, <1>3, <1>4, <1>5
       DEF CliNext, CommandStep, cmd_demo, DemoRefused, cmd_eval, StepDemo, DemoPrints,
           DemoRaises, StepEval, StepRun, ExitEval, Wait, Tick, Done, harness, cliVars

\* The cards of a provider of a report are a list of cards of the report.
LEMMA CardsOfProvider ==
    ASSUME NEW cards, NEW N \in Nat, DOMAIN cards = 1..N,
           NEW p, p \in {cards[k].run.provider : k \in DOMAIN cards},
           \A k \in 1..N : cards[k].card.total_latency_ms \in Nat
    PROVE  \E n \in Nat \ {0} :
              /\ DOMAIN CardsOf(cards, p) = 1..n /\ Len(CardsOf(cards, p)) = n
              /\ \A k \in 1..n : CardsOf(cards, p)[k].total_latency_ms \in Nat
<1> DEFINE S == {k \in DOMAIN cards : cards[k].run.provider = p}
           R == {r \in S \X S : r[1] <= r[2]}
           place(i) == Cardinality({j \in S : j <= i})
           n == Cardinality(S)
           own == CardsOf(cards, p)
<1>1. IsFiniteSet(S) /\ S # {} /\ S \subseteq 1..N
  <2>1. S \subseteq 1..N /\ S # {}
    OBVIOUS
  <2>2. IsFiniteSet(1..N)
    BY FS_Interval
  <2> QED
    BY <2>1, <2>2, FS_Subset
<1>2. n \in Nat \ {0}
    BY <1>1, FS_CardinalityType, FS_EmptySet
<1>3. own = [k \in 1..n |-> cards[CHOOSE i \in S : place(i) = k].card]
    BY DEF CardsOf
<1> HIDE DEF S
<1>4. TotalOrder(S, R)
    BY <1>1 DEF TotalOrder
<1>5. \A i \in S : place(i) = Rank(S, R, i)
  <2> TAKE i \in S
  <2>1. {j \in S : j <= i} = UpTo(S, R, i)
    BY DEF UpTo
  <2> QED
    BY <2>1 DEF Rank
<1>6. \A k \in 1..n : \E i \in S : place(i) = k
  <2> TAKE k \in 1..n
  <2> HIDE DEF R, place
  <2>1. \E i \in S : Rank(S, R, i) = k
    BY <1>1, <1>4, RanksAreTaken DEF n
  <2> QED
    BY <1>5, <2>1
<1> HIDE DEF place, R, n, own
<1>7. ASSUME NEW k \in 1..n
      PROVE  own[k].total_latency_ms \in Nat
  <2>1. (CHOOSE i \in S : place(i) = k) \in S
    BY <1>6
  <2> QED
    BY <1>1, <1>3, <2>1
<1>8. DOMAIN own = 1..n
    BY <1>3
<1>9. Len(own) = n
  <2>1. own = [k \in 1..n |-> own[k]]
    BY <1>3
  <2>2. own \in Seq({own[k] : k \in 1..n})
    BY <1>2, <2>1
  <2> QED
    BY <1>2, <1>8, <2>2
<1> QED
    BY <1>2, <1>7, <1>8, <1>9 DEF own

\* The latencies are sorted, and no more lie above one of them than come after.
LatenciesInOrder(cards, n) ==
    LET sorted == sorted_latencies(cards)
    IN  \A i \in 1..n :
          /\ sorted[i] \in Nat
          /\ \A j \in 1..n : i <= j => sorted[i] <= sorted[j]
          /\ Cardinality({k \in DOMAIN cards : cards[k].total_latency_ms > sorted[i]}) \in 0..(n - i)

LEMMA SortedLatencies ==
    ASSUME NEW cards, NEW n \in Nat, DOMAIN cards = 1..n,
           \A k \in 1..n : cards[k].total_latency_ms \in Nat
    PROVE  LatenciesInOrder(cards, n)
<1> DEFINE S == 1..n
           latency(k) == cards[k].total_latency_ms
           before(j, k) == latency(j) < latency(k) \/ (latency(j) = latency(k) /\ j <= k)
           place(k) == Cardinality({j \in DOMAIN cards : before(j, k)})
           R == {r \in S \X S : before(r[1], r[2])}
           at(i) == CHOOSE k \in DOMAIN cards : place(k) = i
           sorted == sorted_latencies(cards)
<1>1. IsFiniteSet(S) /\ Cardinality(S) = n
    BY FS_Interval
<1>2. sorted = [i \in S |-> latency(at(i))]
    BY DEF sorted_latencies
<1>3. \A k \in S : latency(k) \in Nat
    OBVIOUS
<1>4. TotalOrder(S, R)
  <2> HIDE DEF latency
  <2> QED
    BY <1>3 DEF TotalOrder
<1>5. \A k \in S : place(k) = Rank(S, R, k)
  <2> TAKE k \in S
  <2>1. {j \in DOMAIN cards : before(j, k)} = UpTo(S, R, k)
    BY DEF UpTo
  <2> QED
    BY <2>1 DEF Rank
<1>6. ASSUME NEW i \in S
      PROVE  at(i) \in S /\ Rank(S, R, at(i)) = i
  <2> HIDE DEF R, place
  <2>1. \E k \in S : Rank(S, R, k) = i
    <3> HIDE DEF S
    <3>1. i \in 1..Cardinality(S)
      BY <1>1 DEF S
    <3> QED
      BY <1>1, <1>4, <3>1, RanksAreTaken
  <2>2. \E k \in DOMAIN cards : place(k) = i
    BY <1>5, <2>1
  <2>3. at(i) \in DOMAIN cards /\ place(at(i)) = i
    BY <2>2
  <2> QED
    BY <1>5, <2>3
<1>7. \A j, k \in S : <<j, k>> \in R <=> before(j, k)
    OBVIOUS
<1> HIDE DEF R, place, at, sorted
<1>8. ASSUME NEW i \in S
      PROVE  /\ sorted[i] = latency(at(i)) /\ sorted[i] \in Nat
             /\ \A j \in S : i <= j => sorted[i] <= sorted[j]
  <2>1. sorted[i] = latency(at(i)) /\ sorted[i] \in Nat
    BY <1>2, <1>3, <1>6
  <2>2. ASSUME NEW j \in S, i <= j
        PROVE  sorted[i] <= sorted[j]
    <3>1. sorted[j] = latency(at(j)) /\ sorted[j] \in Nat
      BY <1>2, <1>3, <1>6
    <3>2. <<at(i), at(j)>> \in R
      <4>1. Rank(S, R, at(i)) <= Rank(S, R, at(j))
        BY <1>6, <2>2
      <4> QED
        BY <1>1, <1>4, <1>6, <4>1, RanksFollow
    <3>3. before(at(i), at(j))
      BY <1>6, <1>7, <3>2
    <3> QED
      BY <2>1, <3>1, <3>3
  <2> QED
    BY <2>1, <2>2
<1>9. ASSUME NEW i \in S
      PROVE  Cardinality({k \in DOMAIN cards : latency(k) > sorted[i]}) \in 0..(n - i)
  <2> DEFINE T == {k \in DOMAIN cards : latency(k) > sorted[i]}
  <2>1. T \subseteq S /\ \A k \in T : <<k, at(i)>> \notin R
    <3>1. ASSUME NEW k \in T
          PROVE  k \in S /\ ~ before(k, at(i))
      BY <1>3, <1>6, <1>8
    <3> QED
      BY <1>6, <1>7, <3>1
  <2> HIDE DEF T, S
  <2>2. Cardinality(T) \in Nat /\ Cardinality(T) <= Cardinality(S) - Rank(S, R, at(i))
    BY <1>1, <1>4, <1>6, <2>1, FewComeAfter
  <2> QED
    BY <1>1, <1>6, <2>2 DEF T, S
<1> QED
    BY <1>8, <1>9 DEF LatenciesInOrder, sorted

\* The 95th percentile of a report has the rank its name promises, to within a
\* twentieth and one of the latencies of its provider, and is not below their
\* median unless there are two: in every report, whichever providers it is of.
THEOREM PercentilesAreRanks == CliSpec => []PercentilesHaveTheirRank
<1>1. ASSUME CardsInv, LatencyInv
      PROVE  PercentilesHaveTheirRank
  <2> SUFFICES ASSUME NEW cards \in NewReports, NEW p \in DOMAIN aggregate_by_provider(cards)
               PROVE  LET summary == aggregate_by_provider(cards)[p]
                          own == CardsOf(cards, p)
                          above == {k \in DOMAIN own :
                                       own[k].total_latency_ms > summary.p95_latency_ms}
                      IN  /\ 20 * Cardinality(above) < Len(own) + 20
                          /\ IF Len(own) = 2
                             THEN summary.p95_latency_ms <= summary.p50_latency_ms
                             ELSE summary.p95_latency_ms >= summary.p50_latency_ms
    BY DEF PercentilesHaveTheirRank
  <2> DEFINE summary == aggregate_by_provider(cards)[p]
             own == CardsOf(cards, p)
             sorted == sorted_latencies(own)
  <2>1. /\ Len(cards) \in Nat /\ DOMAIN cards = 1..Len(cards)
        /\ \A k \in 1..Len(cards) : cards[k].card.total_latency_ms \in Nat
    <3>1. stage = "markdown" /\ cards = scorecards /\ IsSequence(scorecards)
      BY <1>1 DEF NewReports, CardsInv
    <3> QED
      BY <1>1, <3>1 DEF IsSequence, LatencyInv
  <2>2. p \in {cards[k].run.provider : k \in DOMAIN cards}
    BY DEF aggregate_by_provider
  <2>3. /\ summary.p50_latency_ms = p50_latency_ms(own)
        /\ summary.p95_latency_ms = p95_latency_ms(own)
    BY <2>2 DEF aggregate_by_provider
  <2>4. PICK n \in Nat \ {0} :
          /\ DOMAIN own = 1..n /\ Len(own) = n
          /\ \A k \in 1..n : own[k].total_latency_ms \in Nat
    BY <2>1, <2>2, CardsOfProvider
  <2> HIDE DEF own, summary
  <2> DEFINE position == (95 * n) \div 100
             rank == IF position = 0 THEN n ELSE position
             half == (n \div 2) + 1
  <2>5. summary.p50_latency_ms = sorted[half] /\ summary.p95_latency_ms = sorted[rank]
    BY <2>3, <2>4 DEF p50_latency_ms, p95_latency_ms
  <2>6. LatenciesInOrder(own, n)
    BY <2>4, SortedLatencies
  <2>7. /\ rank \in 1..n /\ half \in 1..n
        /\ 20 * (n - rank) < n + 20
        /\ IF n = 2 THEN rank <= half ELSE half <= rank
    OBVIOUS
  <2>8. /\ \A i, j \in 1..n : i <= j => sorted[i] <= sorted[j]
        /\ \A i \in 1..n : sorted[i] \in Nat
        /\ Cardinality({k \in DOMAIN own : own[k].total_latency_ms > sorted[rank]}) \in 0..(n - rank)
    BY <2>6, <2>7 DEF LatenciesInOrder
  <2> HIDE DEF rank, half, sorted
  <2> QED
    BY <2>4, <2>5, <2>7, <2>8 DEF own, summary
<1> QED
    BY <1>1, CliTypes, CardsInit, CardsStep, LatencyInit, LatencyStep, PTL DEF CliSpec

-----------------------------------------------------------------------------
(* What the reports say.                                                   *)

LEMMA CliStubs == CliSpec => []StubInv
<1>1. CliInit => StubInv
    BY DEF CliInit, Init, StubInv
<1>2. FreshRun => StubInv'
    BY DEF FreshRun, new_initial_state, StubInv
<1>3. StubInv /\ CardsInv /\ [CliNext]_cliVars => StubInv'
    BY <1>2, StubStep, RunMoves DEF Next
<1> QED
    BY <1>1, <1>3, CardsInit, CardsStep, PTL DEF CliSpec

LEMMA CliPredicted ==
    ASSUME LastErrorCarried
    PROVE  CliSpec => []PredictedInv
<1>1. FreshRun => PredictedInv'
  <2> SUFFICES ASSUME FreshRun
               PROVE  FollowsPlan' /\ PlaceInv'
    BY DEF PredictedInv
  <2>1. trajectory' = <<>> /\ node' = "planner" /\ retry_counts' = NoRetries
    BY DEF FreshRun, new_initial_state
  <2>2. FollowsPlan'
    BY <2>1 DEF FollowsPlan
  <2>3. PlaceInv'
    BY <2>1 DEF PlaceInv, NoRetries
  <2> QED
    BY <2>2, <2>3
<1>2. PredictedInv /\ TypeOK /\ CardsInv /\ [CliNext]_cliVars => PredictedInv'
    BY <1>1, RunMoves, PredictedStep, LastErrorCarried DEF Next
<1>3. CliInit => PredictedInv
    BY PredictedInit DEF CliInit
<1> QED
    BY <1>2, <1>3, CliTypes, CardsInit, CardsStep, PTL DEF CliSpec

\* The run that is on is the first of those to do.
RunningInv ==
    stage = "running" =>
        /\ alert = Head(pending).alert /\ provider = Head(pending).provider
        /\ settings = eval_settings

LEMMA RunningInit == CliInit => RunningInv
BY DEF CliInit, HarnessInit, RunningInv

LEMMA RunningStep == AuditInv /\ RunningInv /\ [CliNext]_cliVars => RunningInv'
<1> SUFFICES ASSUME AuditInv, RunningInv, [CliNext]_cliVars
             PROVE  RunningInv'
    OBVIOUS
<1> USE DEF RunningInv, eval_settings
<1>1. CASE cmd_demo
    BY <1>1 DEF cmd_demo, Invokes, harness, AuditInv
<1>2. CASE StepDemo
    BY <1>2 DEF StepDemo, harness, AuditInv
<1>3. CASE BeginRun
    BY <1>3 DEF BeginRun, new_initial_state
<1>4. CASE StepRun
  <2>1. inputs' = inputs
    BY <1>4 DEF StepRun, NodeStep, Planner, Risk, CarrierLookup, RouteOptimizer, Validator,
       ValidateNothing, Execution, ResultIsNoModel, Audit, AuditWriteFails, EscalateHighRisk,
       EscalateNoViableRoute, FailExecution, Terminal, ProviderRaises, RecursionAbort
  <2> QED
    BY <1>4, <2>1 DEF StepRun, harness, inputs
<1>5. CASE UNCHANGED <<harness, vars>>
    BY <1>5 DEF harness, vars, inputs
<1>6. CASE StartEvaluation \/ ScoreRun \/ RunRaises \/ WriteJson \/ WriteMarkdown
           \/ WriteFails \/ Exit
    BY <1>6 DEF StartEvaluation, ScoreRun, RunRaises, WriteJson, WriteMarkdown, WriteFails, Exit
<1> QED
    BY <1>1, <1>2, <1>3, <1>4, <1>5, <1>6
       DEF CliNext, CommandStep, DemoRefused, cmd_eval, DemoPrints,
           DemoRaises, StepEval, ExitEval, Wait, Tick, Done, cliVars

\* A card of a report, and a report, as the plans of its runs foretell them.
IsForetold(entry) ==
    /\ entry = [run |-> entry.run, card |-> entry.card]
    /\ entry.run.provider \notin StubProviders
    /\ entry.run.provider \in MockProviders =>
         entry.card \in PlannedCards(entry.run.alert, entry.run.provider, eval_settings)

Foretold(cards, runs) ==
    /\ IsSequence(cards)
    /\ Len(cards) = Len(runs)
    /\ \A k \in 1..Len(cards) : cards[k].run = runs[k] /\ IsForetold(cards[k])

ForetoldInv ==
    /\ stage \in {"next_run", "running", "markdown"} =>
         \A k \in 1..Len(scorecards) : IsForetold(scorecards[k])
    /\ \A s \in DOMAIN json_reports : Foretold(json_reports[s], RunsToDo)
    /\ \A s \in DOMAIN markdown_reports : Foretold(markdown_reports[s], RunsToDo)

\* The cards of an evaluation that has done all its runs are a report.
LEMMA CardsAreReport ==
    ASSUME CardsInv, ForetoldInv, stage \in {"next_run", "markdown"}, pending = <<>>
    PROVE  Foretold(scorecards, RunsToDo)
<1>1. /\ IsSequence(scorecards) /\ IsSequence(pending)
      /\ Len(scorecards) + Len(pending) = Len(suite) * Len(providers)
      /\ \A k \in 1..Len(scorecards) : scorecards[k].run = RunsToDo[k]
    BY DEF CardsInv
<1>2. Len(pending) = 0
    OBVIOUS
<1>3. Len(scorecards) \in Nat
    BY <1>1 DEF IsSequence
<1>4. Len(scorecards) = Len(suite) * Len(providers)
    BY <1>1, <1>2, <1>3
<1>5. Len(scorecards) = Len(RunsToDo)
    BY <1>4, RunsToDoIsSequence DEF CardsInv
<1> QED
    BY <1>1, <1>5 DEF Foretold, ForetoldInv

\* The run that is scored gets a card it was foretold.
LEMMA ScoredAsForetold ==
    ASSUME TypeOK, StubInv, PredictedInv, CardsInv, RunningInv, ScoreRun
    PROVE  \E entry : IsForetold(entry) /\ scorecards' = Append(scorecards, entry)
<1>1. PICK card \in compute_scorecard(trajectory, final_status, GroundTruth[Head(pending).alert]) :
        scorecards' = Append(scorecards, [run |-> Head(pending), card |-> card])
    BY DEF ScoreRun
<1> DEFINE entry == [run |-> Head(pending), card |-> card]
<1>2. /\ entry.run.alert = alert /\ entry.run.provider = provider /\ entry.card = card
      /\ settings = eval_settings /\ node = "END"
      /\ entry = [run |-> entry.run, card |-> entry.card]
    BY DEF ScoreRun, RunningInv
<1>3. provider \notin StubProviders
    BY <1>2 DEF StubInv, Exceptions
<1>4. ASSUME provider \in MockProviders
      PROVE  card \in PlannedCards(alert, provider, settings)
  <2>1. PICK high \in Highs(alert, settings) :
          /\ trajectory = Planned(alert, provider, settings, high)
          /\ final_status = PlannedStatus(alert, provider, settings, high)
    BY <1>2, <1>4, EndIsPredicted DEF RunsArePredicted
  <2>2. card \in compute_scorecard(Planned(alert, provider, settings, high),
                                   PlannedStatus(alert, provider, settings, high),
                                   GroundTruth[alert])
    BY <1>1, <1>2, <2>1
  <2> QED
    BY <2>2 DEF PlannedCards
<1> HIDE DEF entry
<1> QED
    BY <1>1, <1>2, <1>3, <1>4 DEF IsForetold, entry

LEMMA ForetoldInit == CliInit => ForetoldInv
BY DEF CliInit, HarnessInit, ForetoldInv

LEMMA ForetoldStep ==
    TypeOK /\ StubInv /\ PredictedInv /\ CardsInv /\ RunningInv /\ ForetoldInv
        /\ [CliNext]_cliVars => ForetoldInv'
<1> SUFFICES ASSUME TypeOK, StubInv, PredictedInv, CardsInv, RunningInv, ForetoldInv,
                    [CliNext]_cliVars
             PROVE  ForetoldInv'
    OBVIOUS
<1>1. suite' = suite /\ providers' = providers
    BY DEF CliNext, CommandStep, cmd_demo, DemoRefused, cmd_eval, StartEvaluation, StepDemo,
           DemoPrints, DemoRaises, StepEval, BeginRun, StepRun, ScoreRun, RunRaises,
           WriteJson, WriteMarkdown, WriteFails, ExitEval, Exit, Wait, Tick, Done,
           harness, cliVars
<1>2. RunsToDo' = RunsToDo
    BY <1>1 DEF RunsToDo
<1>3. ASSUME UNCHANGED <<json_reports, markdown_reports>>,
             stage' \in {"next_run", "running", "markdown"} =>
                 \A k \in 1..Len(scorecards') : IsForetold(scorecards'[k])
      PROVE  ForetoldInv'
    BY <1>2, <1>3 DEF ForetoldInv
<1>4. CASE UNCHANGED <<stage, scorecards, json_reports, markdown_reports>>
    BY <1>3, <1>4 DEF ForetoldInv
<1>5. CASE StartEvaluation
    BY <1>3, <1>5 DEF StartEvaluation, disk
<1>6. CASE BeginRun
    BY <1>3, <1>6 DEF BeginRun, disk, ForetoldInv
<1>7. CASE ScoreRun
  <2>1. PICK entry : IsForetold(entry) /\ scorecards' = Append(scorecards, entry)
    BY <1>7, ScoredAsForetold
  <2>2. IsSequence(scorecards) /\ \A k \in 1..Len(scorecards) : IsForetold(scorecards[k])
    BY <1>7 DEF ScoreRun, CardsInv, ForetoldInv
  <2>3. /\ Len(scorecards) \in Nat /\ Len(scorecards') = Len(scorecards) + 1
        /\ \A k \in 1..Len(scorecards) : scorecards'[k] = scorecards[k]
        /\ scorecards'[Len(scorecards) + 1] = entry
    BY <2>1, <2>2, AppendIsSequence
  <2>4. \A k \in 1..Len(scorecards') : IsForetold(scorecards'[k])
    BY <2>1, <2>2, <2>3
  <2> QED
    BY <1>3, <1>7, <2>4 DEF ScoreRun, disk
<1>8. CASE WriteJson
  <2>1. /\ stage = "next_run" /\ pending = <<>> /\ stage' = "markdown"
        /\ UNCHANGED <<scorecards, markdown_reports>>
        /\ DOMAIN json_reports' = DOMAIN json_reports \cup {now}
        /\ \A s \in DOMAIN json_reports' :
              json_reports'[s] = IF s = now THEN scorecards ELSE json_reports[s]
    BY <1>8 DEF WriteJson
  <2>2. Foretold(scorecards, RunsToDo)
    BY <2>1, CardsAreReport
  <2>3. \A s \in DOMAIN json_reports' : Foretold(json_reports'[s], RunsToDo)
    BY <2>1, <2>2 DEF ForetoldInv
  <2> QED
    BY <1>2, <2>1, <2>3 DEF ForetoldInv
<1>9. CASE WriteMarkdown
  <2>1. /\ stage = "markdown" /\ stage' = "done"
        /\ UNCHANGED <<scorecards, json_reports>>
        /\ DOMAIN markdown_reports' = DOMAIN markdown_reports \cup {now}
        /\ \A s \in DOMAIN markdown_reports' :
              markdown_reports'[s] = IF s = now THEN scorecards ELSE markdown_reports[s]
    BY <1>9 DEF WriteMarkdown
  <2>2. Foretold(scorecards, RunsToDo)
    BY <2>1, CardsAreReport DEF CardsInv
  <2>3. \A s \in DOMAIN markdown_reports' : Foretold(markdown_reports'[s], RunsToDo)
    BY <2>1, <2>2 DEF ForetoldInv
  <2> QED
    BY <1>2, <2>1, <2>3 DEF ForetoldInv
<1>10. CASE RunRaises \/ WriteFails \/ Exit
    BY <1>3, <1>10 DEF RunRaises, WriteFails, Exit, disk
<1> QED
    BY <1>4, <1>5, <1>6, <1>7, <1>8, <1>9, <1>10
       DEF CliNext, CommandStep, cmd_demo, DemoRefused, cmd_eval, StepDemo, DemoPrints,
           DemoRaises, StepEval, StepRun, ExitEval, Wait, Tick, Done, harness, disk, cliVars

LEMMA ReportsAreForetold ==
    ASSUME LastErrorCarried
    PROVE  CliSpec => [](CardsInv /\ ForetoldInv)
<1> QED
    BY CliTypes, CliStubs, CliPredicted, LastErrorCarried, AuditInit, AuditStep, CardsInit,
       CardsStep, RunningInit, RunningStep, ForetoldInit, ForetoldStep, PTL DEF CliSpec

\* Where nothing is left to the rounding, there is one report to be written.
LEMMA OneReport ==
    ASSUME CardsInv, "adapter" \notin RunProviders, RoundingIsDecided(eval_settings),
           NEW c, Foretold(c, RunsToDo), NEW d, Foretold(d, RunsToDo)
    PROVE  c = d
<1>1. suite \in Seq(Alerts) /\ providers \in Seq(RunProviders)
    BY DEF CardsInv
<1> DEFINE n == Len(suite) * Len(providers)
<1>2. /\ c = [k \in 1..n |-> c[k]] /\ d = [k \in 1..n |-> d[k]]
  <2>1. \A e : IsSequence(e) => e = [k \in 1..Len(e) |-> e[k]]
    BY DEF IsSequence
  <2>2. Len(c) = n /\ Len(d) = n
    BY <1>1, RunsToDoIsSequence DEF Foretold
  <2> QED
    BY <2>1, <2>2 DEF Foretold
<1>3. ASSUME NEW k, k \in 1..n
      PROVE  c[k] = d[k]
  <2>1. RunsToDo[k].alert \in Alerts /\ RunsToDo[k].provider \in RunProviders
    BY <1>1, <1>3, RunsToDoAreRuns
  <2>2. /\ c[k].run = RunsToDo[k] /\ d[k].run = RunsToDo[k]
        /\ IsForetold(c[k]) /\ IsForetold(d[k])
    BY <1>1, <1>3, RunsToDoIsSequence DEF Foretold
  <2>3. RunsToDo[k].provider \in MockProviders
    BY <2>1, <2>2, InputAssumption DEF InputAssumption, IsForetold, Providers
  <2>4. c[k].card = d[k].card
    BY <2>1, <2>2, <2>3 DEF IsForetold, RoundingIsDecided
  <2> QED
    BY <2>2, <2>4 DEF IsForetold
<1> HIDE DEF n
<1> QED
    BY <1>2, <1>3

\* With providers that are the mocks or raise, _last_error carried, and no
\* score or composite on a tie, every report of a suite says the same, JSON or
\* Markdown, whatever ran before and however the last evaluation ended.
THEOREM ReportsRepeat ==
    ASSUME LastErrorCarried, "adapter" \notin RunProviders, RoundingIsDecided(eval_settings)
    PROVE  CliSpec => []EvaluationIsReproducible
<1>1. ASSUME CardsInv, ForetoldInv
      PROVE  EvaluationIsReproducible
  <2>1. \A c, d : Foretold(c, RunsToDo) /\ Foretold(d, RunsToDo) => c = d
    BY <1>1, OneReport, "adapter" \notin RunProviders, RoundingIsDecided(eval_settings)
  <2> QED
    BY <1>1, <2>1 DEF ForetoldInv, EvaluationIsReproducible
<1> QED
    BY <1>1, ReportsAreForetold, LastErrorCarried, PTL

\* With _last_error carried, no score or composite on a tie, and faults that the
\* retry ceilings absorb, the flaky mock reaches the outcome of the other one on
\* every alert of every report; it gets no better a composite, retries as often
\* at least, and takes as long at least.
THEOREM FaultsAreAbsorbed ==
    ASSUME LastErrorCarried, RoundingIsDecided(eval_settings),
           FaultsCanBeAbsorbed(eval_settings)
    PROVE  CliSpec => []InjectedFaultsAreAbsorbed
<1>1. ASSUME CardsInv, ForetoldInv
      PROVE  InjectedFaultsAreAbsorbed
  <2> SUFFICES ASSUME stage = "markdown",
                      NEW flaky \in DOMAIN json_reports[now],
                      NEW plain \in DOMAIN json_reports[now],
                      json_reports[now][flaky].run.alert = json_reports[now][plain].run.alert,
                      json_reports[now][flaky].run.provider = "mock_flaky",
                      json_reports[now][plain].run.provider = "mock"
               PROVE  Costs(json_reports[now][flaky].card, json_reports[now][plain].card)
    BY DEF InjectedFaultsAreAbsorbed, NewReports, Costs
  <2> DEFINE cards == json_reports[now]
             n == Len(suite) * Len(providers)
  <2>1. suite \in Seq(Alerts) /\ providers \in Seq(RunProviders)
    BY <1>1 DEF CardsInv
  <2>2. Foretold(cards, RunsToDo)
    BY <1>1 DEF CardsInv, ForetoldInv
  <2>3. DOMAIN cards = 1..n /\ Len(cards) = n
    BY <2>1, <2>2, RunsToDoIsSequence DEF Foretold, IsSequence
  <2> DEFINE a == cards[flaky].run.alert
  <2> HIDE DEF cards, n
  <2>4. flaky \in 1..n /\ plain \in 1..n
    BY <2>3 DEF cards
  <2>5. /\ cards[flaky].run = RunsToDo[flaky] /\ IsForetold(cards[flaky])
        /\ cards[plain].run = RunsToDo[plain] /\ IsForetold(cards[plain])
    BY <2>2, <2>3, <2>4 DEF Foretold
  <2>6. a \in Alerts
    BY <2>1, <2>4, <2>5, RunsToDoAreRuns DEF n
  <2>7. /\ cards[flaky].card \in PlannedCards(a, "mock_flaky", eval_settings)
        /\ cards[plain].card \in PlannedCards(a, "mock", eval_settings)
    BY <2>5 DEF IsForetold, MockProviders, cards
  <2>8. eval_settings \in Settings
    BY EvaluationAssumption, InputAssumption DEF EvaluationAssumption, InputAssumption
  <2>9. AbsorbsFaults(a, eval_settings)
    BY <2>6, FaultsCanBeAbsorbed(eval_settings) DEF FaultsCanBeAbsorbed
  <2> HIDE DEF a
  <2>10. Costs(cards[flaky].card, cards[plain].card)
    BY <2>6, <2>7, <2>8, <2>9, RoundingIsDecided(eval_settings), FaultsCostMarks
  <2> QED
    BY <2>10 DEF cards
<1> QED
    BY <1>1, ReportsAreForetold, LastErrorCarried, PTL

=============================================================================
