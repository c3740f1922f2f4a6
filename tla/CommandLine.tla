----------------------------- MODULE CommandLine -----------------------------
(***************************************************************************)
(* The command line (cli.py): a user invokes one command after the other,  *)
(* each a process of its own.  demo takes one scenario through the graph   *)
(* under the default settings and prints its trajectory; eval is the       *)
(* evaluation harness; graph prints the graph and changes nothing.  The    *)
(* commands share the audit file and the directory of reports.             *)
(***************************************************************************)
EXTENDS EvalHarness

CONSTANTS
    RequestedProviders, \* what the user may pass to --provider
    MaxInvocations      \* the commands a user invokes: a bound

\* The choices of --provider.
choices == {"mock", "mock_flaky"}

ASSUME CommandLineAssumption ==
    /\ RequestedProviders \subseteq Providers
    /\ RequestedProviders \cap choices \subseteq RunProviders
    /\ MaxInvocations \in Nat

VARIABLES
    command,        \* the command that is being executed, or "none"
    invocations,    \* how many commands have been started
    printed         \* what the demos have printed, in order

cli == <<command, invocations, printed>>
cliVars == <<vars, harness, disk, cli>>

\* No run is on: the run the graph's variables describe is a placeholder.
CliInit ==
    /\ HarnessInit
    /\ Init
    /\ alert = suite[1] /\ provider = providers[1] /\ settings = DEFAULT_SETTINGS
    /\ command = "none"
    /\ invocations = 0
    /\ printed = <<>>

Invokes(c) ==
    /\ command = "none"
    /\ invocations < MaxInvocations
    /\ command' = c
    /\ invocations' = invocations + 1

-----------------------------------------------------------------------------
\* Faulty variant: the demo runs under the settings of the evaluation.
cmd_demo_Unaudited ==
    /\ Invokes("demo")
    /\ \E k \in DOMAIN suite, p \in RequestedProviders \cap choices :
         new_initial_state(suite[k], p, eval_settings)
    /\ UNCHANGED <<harness, disk, printed, audit_log>>

cmd_demo ==
    /\ Invokes("demo")
    /\ \E k \in DOMAIN suite, p \in RequestedProviders \cap choices :
         new_initial_state(suite[k], p, DEFAULT_SETTINGS)
    /\ UNCHANGED <<harness, disk, printed, audit_log>>

\* argparse prints the usage and exits.
DemoRefused ==
    /\ Invokes("none")
    /\ \E p \in RequestedProviders \ choices :
         printed' = Append(printed, [provider |-> p, status |-> "usage"])
    /\ UNCHANGED <<harness, disk, vars>>

StepDemo ==
    /\ command = "demo"
    /\ NodeStep
    /\ UNCHANGED <<harness, disk, cli>>

DemoPrints ==
    /\ command = "demo"
    /\ node = "END"
    /\ printed' = Append(printed, [provider |-> provider, status |-> final_status])
    /\ command' = "none"
    /\ UNCHANGED <<harness, disk, vars, invocations>>

\* The traceback ends the process.
DemoRaises ==
    /\ command = "demo"
    /\ node \in Exceptions
    /\ command' = "none"
    /\ UNCHANGED <<harness, disk, vars, invocations, printed>>

cmd_eval ==
    /\ Invokes("eval")
    /\ StartEvaluation
    /\ UNCHANGED printed

StepEval ==
    /\ command = "eval"
    /\ \/ BeginRun \/ StepRun \/ ScoreRun \/ RunRaises
       \/ WriteJson \/ WriteMarkdown \/ WriteFails
    /\ UNCHANGED cli

ExitEval ==
    /\ command = "eval"
    /\ Exit
    /\ command' = "none"
    /\ UNCHANGED <<invocations, printed>>

Wait == command = "none" /\ Tick /\ UNCHANGED cli

\* The steps of a command that is being executed.
CommandStep ==
    \/ StepDemo \/ DemoPrints \/ DemoRaises
    \/ StepEval \/ ExitEval

\* The user has invoked all commands there is room for.
Done ==
    /\ command = "none"
    /\ invocations = MaxInvocations
    /\ now = Seconds
    /\ UNCHANGED cliVars

CliNext == cmd_demo \/ DemoRefused \/ cmd_eval \/ CommandStep \/ Wait \/ Done

CliSpec == CliInit /\ [][CliNext]_cliVars

\* A process that can take a step takes one; nobody has to invoke a command.
FairCliSpec == CliSpec /\ WF_cliVars(CommandStep)

-----------------------------------------------------------------------------
\* Evaluation runs never write to the shared audit file (the comment in
\* run_all), whatever their settings and however their runs end.
EvaluationLeavesAuditFileAlone ==
    [][command = "eval" => UNCHANGED audit_log]_cliVars

\* The audit file holds as many records as demos have printed SUCCESS,
\* whatever other commands came in between and however they ended.
AuditFileTracksDemos ==
    command = "none" =>
        Len(audit_log) = Cardinality({k \in DOMAIN printed : printed[k].status = "SUCCESS"})

\* Every command ends, an evaluation with its two reports or an exception.
CommandsEnd ==
    /\ command = "demo" ~> command = "none"
    /\ command = "eval" ~> command = "none" /\ stage = "idle"

=============================================================================
