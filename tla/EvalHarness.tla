----------------------------- MODULE EvalHarness -----------------------------
(***************************************************************************)
(* The evaluation harness (evaluation/run_eval.py): it takes every         *)
(* scenario of its suite through the rerouting graph once per provider,    *)
(* scores each trajectory, and writes a JSON and a Markdown report named   *)
(* after the second they are written in.                                   *)
(*                                                                         *)
(* The harness runs the graph itself: while a run is on, its steps are the *)
(* steps of ReroutePipeline.  The audit file outlives the runs, so         *)
(* audit_log is not reset between them; no action here resets it.          *)
(*                                                                         *)
(* Both reports hold the same cards and the same summary, so a report is   *)
(* the sequence of cards, and its summary a function of it.                *)
(***************************************************************************)
EXTENDS ScoredPipeline
LOCAL INSTANCE FiniteSetsExt
LOCAL INSTANCE SequencesExt

CONSTANTS
    Suites,             \* the contents the scenario directory may have
    ProviderLists,      \* the values the constant DEFAULT_PROVIDERS may have
    DEFAULT_SETTINGS,
    Seconds             \* the timestamps of the reports: a bound

ASSUME HarnessAssumption ==
    /\ Suites \subseteq Seq(Alerts)
    /\ ProviderLists \subseteq Seq(RunProviders)
    /\ DEFAULT_SETTINGS \in SettingsSpace
    /\ Seconds \in Nat \ {0}

VARIABLES
    suite, providers,   \* the scenarios and the providers, fixed
    stage,              \* what the harness does next
    pending,            \* the runs of run_all that are still to do, in order
    scorecards,
    now,                \* the second of the clock
    json_reports, markdown_reports  \* from the second in the file name to cards

harness == <<suite, providers, stage, pending, scorecards>>
disk == <<now, json_reports, markdown_reports>>

\* "running" while a run of the graph is on; "raised" when an exception has
\* left main(), whose cards are lost with it.
Stages == {"idle", "next_run", "running", "markdown", "done", "raised"}

\* Faulty variant: the evaluation runs under the default settings.
eval_settings_Default == DEFAULT_SETTINGS

eval_settings == [DEFAULT_SETTINGS EXCEPT !.write_audit_log_file = FALSE]

ASSUME EvaluationAssumption == eval_settings \in SettingsSpace

\* Every scenario with every provider, the providers of one scenario in a row.
RunsToDo ==
    [k \in 1..(Len(suite) * Len(providers)) |->
        [alert |-> suite[((k - 1) \div Len(providers)) + 1],
         provider |-> providers[((k - 1) % Len(providers)) + 1]]]

\* Faulty variant: the retry counters of the run before are kept.
new_initial_state_KeepsCounters(a, p, s) ==
    /\ alert' = a /\ provider' = p /\ settings' = s
    /\ node' = "planner"
    /\ risk_assessment' = NoScore
    /\ candidate_carriers' = {}
    /\ candidate_route' = NoCarrier
    /\ rejected_alternatives' = {}
    /\ validation_result' = "none"
    /\ execution_result' = NotExecuted
    /\ last_error' = NoError
    /\ final_status' = "IN_PROGRESS"
    /\ escalation_reason' = "none"
    /\ trajectory' = <<>>
    /\ UNCHANGED retry_counts

new_initial_state(a, p, s) ==
    /\ alert' = a /\ provider' = p /\ settings' = s
    /\ node' = "planner"
    /\ risk_assessment' = NoScore
    /\ candidate_carriers' = {}
    /\ candidate_route' = NoCarrier
    /\ rejected_alternatives' = {}
    /\ validation_result' = "none"
    /\ execution_result' = NotExecuted
    /\ retry_counts' = NoRetries
    /\ last_error' = NoError
    /\ final_status' = "IN_PROGRESS"
    /\ escalation_reason' = "none"
    /\ trajectory' = <<>>

HarnessInit ==
    /\ suite \in Suites
    /\ providers \in ProviderLists
    /\ stage = "idle"
    /\ pending = <<>>
    /\ scorecards = <<>>
    /\ now = 1
    /\ json_reports = <<>>
    /\ markdown_reports = <<>>

-----------------------------------------------------------------------------
(* run_all.                                                                *)

StartEvaluation ==
    /\ stage = "idle"
    /\ stage' = "next_run"
    /\ pending' = RunsToDo
    /\ scorecards' = <<>>
    /\ UNCHANGED <<suite, providers, disk, vars>>

BeginRun ==
    /\ stage = "next_run"
    /\ pending # <<>>
    /\ new_initial_state(Head(pending).alert, Head(pending).provider, eval_settings)
    /\ stage' = "running"
    /\ UNCHANGED <<suite, providers, pending, scorecards, disk, audit_log>>

StepRun ==
    /\ stage = "running"
    /\ NodeStep
    /\ UNCHANGED <<harness, disk>>

\* Faulty variant: the runs are taken off the wrong end.
ScoreRun_FromEnd ==
    /\ stage = "running"
    /\ node = "END"
    /\ \E card \in compute_scorecard(trajectory, final_status, GroundTruth[Head(pending).alert]) :
         scorecards' = Append(scorecards, [run |-> Head(pending), card |-> card])
    /\ pending' = Front(pending)
    /\ stage' = "next_run"
    /\ UNCHANGED <<suite, providers, disk, vars>>

ScoreRun ==
    /\ stage = "running"
    /\ node = "END"
    /\ \E card \in compute_scorecard(trajectory, final_status, GroundTruth[Head(pending).alert]) :
         scorecards' = Append(scorecards, [run |-> Head(pending), card |-> card])
    /\ pending' = Tail(pending)
    /\ stage' = "next_run"
    /\ UNCHANGED <<suite, providers, disk, vars>>

\* Faulty variants: the harness goes on with the next run; and it repeats the
\* one that raised.
RunRaises_Continues ==
    /\ stage = "running"
    /\ node \in Exceptions
    /\ pending' = Tail(pending)
    /\ stage' = "next_run"
    /\ UNCHANGED <<suite, providers, scorecards, disk, vars>>

RunRaises_Repeats ==
    /\ stage = "running"
    /\ node \in Exceptions
    /\ stage' = "next_run"
    /\ UNCHANGED <<suite, providers, pending, scorecards, disk, vars>>

\* Nothing catches what a run raises.
RunRaises ==
    /\ stage = "running"
    /\ node \in Exceptions
    /\ stage' = "raised"
    /\ pending' = <<>>
    /\ scorecards' = <<>>
    /\ UNCHANGED <<suite, providers, disk, vars>>

-----------------------------------------------------------------------------
(* write_reports and main.                                                 *)

WriteJson ==
    /\ stage = "next_run"
    /\ pending = <<>>
    /\ json_reports' = [s \in DOMAIN json_reports \cup {now} |->
                        IF s = now THEN scorecards ELSE json_reports[s]]
    /\ stage' = "markdown"
    /\ UNCHANGED <<suite, providers, pending, scorecards, now, markdown_reports, vars>>

WriteMarkdown ==
    /\ stage = "markdown"
    /\ markdown_reports' = [s \in DOMAIN markdown_reports \cup {now} |->
                            IF s = now THEN scorecards ELSE markdown_reports[s]]
    /\ stage' = "done"
    /\ UNCHANGED <<suite, providers, pending, scorecards, now, json_reports, vars>>

\* The directory cannot be made or one of the files not be opened.
WriteFails ==
    /\ \/ stage = "next_run" /\ pending = <<>>
       \/ stage = "markdown"
    /\ stage' = "raised"
    /\ scorecards' = <<>>
    /\ UNCHANGED <<suite, providers, pending, disk, vars>>

\* The process ends; what it held in memory is gone.
Exit ==
    /\ stage \in {"done", "raised"}
    /\ stage' = "idle"
    /\ scorecards' = <<>>
    /\ UNCHANGED <<suite, providers, pending, disk, vars>>

\* Both names carry one timestamp, so the clock only has to move between two
\* evaluations; when it does not, the second overwrites the first's files.
Tick ==
    /\ stage = "idle"
    /\ now < Seconds
    /\ now' = now + 1
    /\ UNCHANGED <<harness, json_reports, markdown_reports, vars>>

-----------------------------------------------------------------------------
(* The summary of a report.  A mean or a rate is rounded to thousandths;   *)
(* Python rounds the binary value, so on a tie it may choose the other     *)
(* neighbour.                                                              *)

\* The cards of one provider, in their order.
CardsOf(cards, p) ==
    LET own == {k \in DOMAIN cards : cards[k].run.provider = p}
        place(i) == Cardinality({j \in own : j <= i})
    IN  [k \in 1..Cardinality(own) |-> cards[CHOOSE i \in own : place(i) = k].card]

sum_of(values) == FoldLeft(LAMBDA sum, v : sum + v, 0, values)

rate(cards, status) ==
    Ratio(Cardinality({k \in DOMAIN cards : cards[k].final_status = status}), Len(cards))

\* Faulty variant: the order of the runs is kept.
sorted_latencies_Unsorted(cards) == [k \in DOMAIN cards |-> cards[k].total_latency_ms]

\* Of two equal latencies the one that came first keeps its place.
sorted_latencies(cards) ==
    LET latency(k) == cards[k].total_latency_ms
        before(j, k) == latency(j) < latency(k) \/ (latency(j) = latency(k) /\ j <= k)
        place(k) == Cardinality({j \in DOMAIN cards : before(j, k)})
    IN  [n \in DOMAIN cards |-> latency(CHOOSE k \in DOMAIN cards : place(k) = n)]

\* The middle of the list; of an even number, the upper one.
p50_latency_ms(cards) == sorted_latencies(cards)[(Len(cards) \div 2) + 1]

\* In Python, list[int(n * 0.95) - 1]: for one card the index is -1, the last.
p95_latency_ms(cards) ==
    LET position == (95 * Len(cards)) \div 100
    IN  sorted_latencies(cards)[IF position = 0 THEN Len(cards) ELSE position]

aggregate_by_provider(cards) ==
    [p \in {cards[k].run.provider : k \in DOMAIN cards} |->
        LET own == CardsOf(cards, p)
            composites == {own[k].composite_score : k \in DOMAIN own}
        IN  [num_scenarios |-> Len(own),
             mean_composite_score |->
                 Nearest(sum_of([k \in DOMAIN own |-> own[k].composite_score]), Len(own)),
             min_composite_score |-> Min(composites),
             max_composite_score |-> Max(composites),
             success_rate |-> rate(own, "SUCCESS"),
             escalation_rate |-> rate(own, "ESCALATED"),
             failure_rate |-> rate(own, "FAILED"),
             p50_latency_ms |-> p50_latency_ms(own),
             p95_latency_ms |-> p95_latency_ms(own),
             mean_retries |->
                 Nearest(1000 * sum_of([k \in DOMAIN own |-> own[k].average_retries]), Len(own)),
             mean_hallucination_rate |->
                 Nearest(sum_of([k \in DOMAIN own |-> own[k].hallucination_rate]), Len(own))]]

\* The report that has just been written.
NewReports == IF stage = "markdown" THEN {json_reports[now]} ELSE {}

-----------------------------------------------------------------------------
(* Properties.                                                             *)

\* What the harness keeps has its type, and a JSON report is never of an
\* evaluation that is still on.
HarnessTypeOK ==
    /\ suite \in Suites /\ providers \in ProviderLists
    /\ stage \in Stages
    /\ IsSuffix(pending, RunsToDo)
    /\ DOMAIN json_reports \subseteq 1..now
    /\ DOMAIN markdown_reports \subseteq 1..now

\* A report that was written holds one card for each scenario and provider, in
\* order, each with the status and the marks of its own run: a run that raises
\* leaves no report with a gap.
ReportsAreComplete ==
    \A cards \in NewReports :
        /\ Len(cards) = Len(suite) * Len(providers)
        /\ \A k \in DOMAIN cards : cards[k].run = RunsToDo[k]

\* Evaluations are reproducible (the comment in run_all): whatever ran before,
\* whenever it ran and however the last one ended, every report of a suite,
\* and the Markdown file beside it, says the same.
EvaluationIsReproducible ==
    \A s, t \in DOMAIN json_reports :
        /\ json_reports[s] = json_reports[t]
        /\ s \in DOMAIN markdown_reports => markdown_reports[s] = json_reports[t]

\* The two mocks reach the same outcome on every scenario of a report
\* (docs/research_report.md): the faults one of them injects cost it retries
\* and marks, and gain it none.
InjectedFaultsAreAbsorbed ==
    \A cards \in NewReports : \A flaky, plain \in DOMAIN cards :
        /\ cards[flaky].run.alert = cards[plain].run.alert
        /\ cards[flaky].run.provider = "mock_flaky"
        /\ cards[plain].run.provider = "mock"
        => /\ cards[flaky].card.final_status = cards[plain].card.final_status
           /\ cards[flaky].card.composite_score <= cards[plain].card.composite_score
           /\ cards[flaky].card.average_retries >= cards[plain].card.average_retries
           /\ cards[flaky].card.total_latency_ms >= cards[plain].card.total_latency_ms

\* Of the latencies of a provider, no more than a twentieth and one lie above
\* the 95th percentile; and it is not below the median, unless there are two
\* latencies: then it is the lower one.
PercentilesHaveTheirRank ==
    \A cards \in NewReports : \A p \in DOMAIN aggregate_by_provider(cards) :
        LET summary == aggregate_by_provider(cards)[p]
            own == CardsOf(cards, p)
            above == {k \in DOMAIN own : own[k].total_latency_ms > summary.p95_latency_ms}
        IN  /\ 20 * Cardinality(above) < Len(own) + 20
            /\ IF Len(own) = 2
               THEN summary.p95_latency_ms <= summary.p50_latency_ms
               ELSE summary.p95_latency_ms >= summary.p50_latency_ms

=============================================================================
