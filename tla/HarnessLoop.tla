---------------------------- MODULE HarnessLoop ----------------------------
(***************************************************************************)
(* The Orchestrator: Planner, then the contract handshake of Generator and *)
(* Evaluator, then build and evaluate until the Evaluator passes the       *)
(* contract or a bound stops the loop.                                     *)
(*                                                                         *)
(* One run at a time works in a workspace, one after another (`resume` is  *)
(* a new run on the saved goals).  A run keeps its LoopState in memory and *)
(* writes it to state/loop_state.json at certain points; it may die        *)
(* between any two steps.  Agents are what their answers are: a plan is    *)
(* accepted or not, a build is judged PASS or FAIL, a call costs something.*)
(* A second process may run the `abort` command meanwhile.                 *)
(***************************************************************************)
EXTENDS Naturals

CONSTANTS
    MaxTotal,       \* max_total_iterations
    MaxSprint,      \* max_iterations_per_sprint
    MinSprint,      \* min_iterations_per_sprint
    MaxRounds,      \* max_contract_handshake_rounds
    MaxCost,        \* max_cost_usd
    MaxFailures,    \* max_repeated_failure_count
    MaxDivergence,  \* divergence_score_threshold, in percent
    RequireDesign,  \* require_design_review_pass
    CallCost,       \* the most one agent call costs
    MaxRuns         \* bound: runs in the workspace

ASSUME KnobsAssumption ==
    /\ MaxTotal \in Nat
    /\ MaxSprint \in Nat
    /\ MinSprint \in Nat
    /\ MaxRounds \in Nat
    /\ MaxCost \in Nat
    /\ MaxFailures \in Nat
    /\ MaxDivergence \in Nat
    /\ RequireDesign \in BOOLEAN
    /\ CallCost \in Nat
    /\ MaxRuns \in Nat

VARIABLES
    run,        \* number of the latest run
    pc,         \* its next step; "idle" when it has ended
    mem,        \* its LoopState
    late,       \* its wall-clock limit has passed
    \* the workspace
    costLog,    \* last cumulative_cost_usd of state/cost_log.json
    saved,      \* state/loop_state.json
    contract,   \* run that wrote contracts/current_sprint.md (0: no file)
    completion, \* run that wrote reports/completion_report.md
    abortion,   \* run that wrote, or was the latest when, abort_report.md was
    \* the abort command
    cli,        \* its next step, and the iterations it loaded
    \* history
    overrun,    \* run that was the latest when the abort command last saved (0: none)
    builds,     \* builds of the latest run
    judged,     \* verdict on its latest build
    ended       \* how it ended

workspace == <<costLog, saved, contract, completion, abortion>>
history == <<builds, judged, ended>>
command == <<cli, overrun>>
vars == <<run, pc, mem, late, workspace, command, history>>

-----------------------------------------------------------------------------
Phases == {"INIT", "CONTRACT_HANDSHAKE", "CONTRACT_READY", "BUILD", "EVALUATE",
           "COMPLETE", "ABORT"}

\* score_report gives 0.2 for vague praise; the Evaluator's own template rules
\* out the other warnings.
Scores == {0, 20}

LoopStates == [phase : Phases, total : Nat, sprint : Nat, rounds : Nat,
               failures : Nat, cost : Nat, divergence : Scores,
               design : BOOLEAN]

Fresh == [phase |-> "INIT", total |-> 0, sprint |-> 0, rounds |-> 0,
          failures |-> 0, cost |-> 0, divergence |-> 0, design |-> FALSE]

NoCommand == [at |-> "idle", total |-> 0]

\* The builds a run may make.
Limit == IF MaxTotal <= MaxSprint THEN MaxTotal ELSE MaxSprint

Steps == {"idle", "plan", "propose", "critique", "top", "build", "evaluate",
          "decide", "complete", "abort"}

TypeOK ==
    /\ run \in 0 .. MaxRuns
    /\ pc \in Steps
    /\ mem \in LoopStates
    /\ late \in BOOLEAN
    /\ costLog \in Nat
    /\ saved \in [phase : Phases, total : Nat]
    /\ contract \in 0 .. run
    /\ completion \in 0 .. run
    /\ abortion \in 0 .. run
    /\ cli \in [at : {"idle", "save", "report"}, total : Nat]
    /\ overrun \in 0 .. run
    /\ builds \in 0 .. Limit
    /\ judged \in {"NONE", "PASS", "FAIL"}
    /\ ended \in {"idle", "running", "COMPLETE", "ABORT", "crashed"}

Init ==
    /\ run = 0
    /\ pc = "idle"
    /\ mem = Fresh
    /\ late = FALSE
    /\ costLog = 0
    /\ saved = [phase |-> "INIT", total |-> 0]
    /\ contract = 0
    /\ completion = 0
    /\ abortion = 0
    /\ cli = NoCommand
    /\ overrun = 0
    /\ builds = 0
    /\ judged = "NONE"
    /\ ended = "idle"

Save(state) == saved' = [phase |-> state.phase, total |-> state.total]

\* _log_agent_cost
LogCost == \E c \in 0 .. CallCost : costLog' = costLog + c

-----------------------------------------------------------------------------
(* The run *)

\* run and resume: the state and the cost log start afresh, the reports, the
\* contract and the feedback of earlier runs stay where they are.
Run ==
    /\ pc = "idle"
    /\ run < MaxRuns
    /\ run' = run + 1
    /\ pc' = "plan"
    /\ mem' = Fresh
    /\ late' = FALSE
    /\ costLog' = 0
    /\ Save(Fresh)
    /\ builds' = 0
    /\ judged' = "NONE"
    /\ ended' = "running"
    /\ UNCHANGED <<contract, completion, abortion, command>>

Plan ==
    /\ pc = "plan"
    /\ LogCost
    /\ pc' = IF mem.rounds < MaxRounds THEN "propose" ELSE "abort"
    /\ UNCHANGED <<run, mem, late, saved, contract, completion, abortion,
                   command, history>>

\* Mutant: rounds are not counted.
ProposeUncounted ==
    /\ pc = "propose"
    /\ mem' = [mem EXCEPT !.phase = "CONTRACT_HANDSHAKE"]
    /\ LogCost
    /\ pc' = "critique"
    /\ UNCHANGED <<run, late, saved, contract, completion, abortion, command, history>>

\* A handshake round: the Generator proposes ...
Propose ==
    /\ pc = "propose"
    /\ mem' = [mem EXCEPT !.phase = "CONTRACT_HANDSHAKE", !.rounds = @ + 1]
    /\ LogCost
    /\ pc' = "critique"
    /\ UNCHANGED <<run, late, saved, contract, completion, abortion, command, history>>

\* ... and the Evaluator accepts the plan, which becomes the contract,
Accept ==
    /\ pc = "critique"
    /\ LogCost
    /\ contract' = run
    /\ mem' = [mem EXCEPT !.phase = "CONTRACT_READY"]
    /\ Save(mem')
    /\ pc' = "top"
    /\ UNCHANGED <<run, late, completion, abortion, command, history>>

\* or rejects it; without a round left the run aborts.
Reject ==
    /\ pc = "critique"
    /\ LogCost
    /\ Save(mem)
    /\ pc' = IF mem.rounds < MaxRounds THEN "propose" ELSE "abort"
    /\ UNCHANGED <<run, mem, late, contract, completion, abortion, command, history>>

\* Mutant: the limits are passed before they stop the loop.
ShouldStopLate ==
    \/ mem.total > MaxTotal
    \/ mem.sprint > MaxSprint
    \/ mem.rounds >= MaxRounds
    \/ mem.cost >= MaxCost
    \/ mem.failures >= MaxFailures
    \/ mem.divergence >= MaxDivergence
    \/ late

\* LoopController.stop_reason
ShouldStop ==
    \/ mem.total >= MaxTotal
    \/ mem.sprint >= MaxSprint
    \/ mem.rounds >= MaxRounds
    \/ mem.cost >= MaxCost
    \/ mem.failures >= MaxFailures
    \/ mem.divergence >= MaxDivergence
    \/ late

StopAtBound ==
    /\ pc = "top"
    /\ ShouldStop
    /\ pc' = "abort"
    /\ UNCHANGED <<run, mem, late, workspace, command, history>>

StartBuild ==
    /\ pc = "top"
    /\ ~ ShouldStop
    /\ mem' = [mem EXCEPT !.phase = "BUILD", !.total = @ + 1, !.sprint = @ + 1]
    /\ Save(mem')
    /\ pc' = "build"
    /\ builds' = builds + 1
    /\ judged' = "NONE"
    /\ UNCHANGED <<run, late, costLog, contract, completion, abortion, command, ended>>

Build ==
    /\ pc = "build"
    /\ LogCost
    /\ mem' = [mem EXCEPT !.phase = "EVALUATE"]
    /\ pc' = "evaluate"
    /\ UNCHANGED <<run, late, saved, contract, completion, abortion, command, history>>

\* Mutant: the cost is refreshed only when the build passes.
EvaluateCostOfPasses ==
    /\ pc = "evaluate"
    /\ judged' \in {"PASS", "FAIL"}
    /\ \E design \in BOOLEAN, score \in Scores :
          /\ judged' = "PASS" => design
          /\ mem' = [mem EXCEPT !.design = design, !.divergence = score,
                                !.cost = IF judged' = "PASS" THEN costLog ELSE @]
    /\ pc' = "decide"
    /\ UNCHANGED <<run, late, workspace, command, builds, ended>>

\* The Evaluator, which calls no model, judges the page.  It passes only what
\* its design review passes; the report of a FAIL may still hold the words that
\* are searched for, since it quotes the page and the goals.
Evaluate ==
    /\ pc = "evaluate"
    /\ judged' \in {"PASS", "FAIL"}
    /\ \E design \in BOOLEAN, score \in Scores :
          /\ judged' = "PASS" => design
          /\ mem' = [mem EXCEPT !.design = design, !.divergence = score,
                                !.cost = costLog]
    /\ pc' = "decide"
    /\ UNCHANGED <<run, late, workspace, command, builds, ended>>

\* Mutant: the least number of iterations counts one too many.
BlockedShort ==
    \/ mem.sprint + 1 < MinSprint
    \/ RequireDesign /\ ~ mem.design

\* _completion_blocker
Blocked ==
    \/ mem.sprint < MinSprint
    \/ RequireDesign /\ ~ mem.design

\* Mutant: an iteration that only has to wait for the minimum is taken back.
DecidePassUncounted ==
    /\ pc = "decide"
    /\ judged = "PASS"
    /\ mem' = [mem EXCEPT !.failures = 0, !.total = @ - 1, !.sprint = @ - 1]
    /\ Save(mem')
    /\ pc' = IF Blocked THEN "top" ELSE "complete"
    /\ UNCHANGED <<run, late, costLog, contract, completion, abortion, command, history>>

DecidePass ==
    /\ pc = "decide"
    /\ judged = "PASS"
    /\ mem' = [mem EXCEPT !.failures = 0]
    /\ Save(mem')
    /\ pc' = IF Blocked THEN "top" ELSE "complete"
    /\ UNCHANGED <<run, late, costLog, contract, completion, abortion, command, history>>

DecideFail ==
    /\ pc = "decide"
    /\ judged = "FAIL"
    /\ mem' = [mem EXCEPT !.failures = @ + 1]
    /\ Save(mem')
    /\ pc' = "top"
    /\ UNCHANGED <<run, late, costLog, contract, completion, abortion, command, history>>

\* Mutant: the report is written first.
CompleteReportFirst ==
    /\ pc = "complete"
    /\ \/ /\ completion # run
          /\ completion' = run
          /\ UNCHANGED <<pc, mem, saved, ended>>
       \/ /\ completion = run
          /\ mem' = [mem EXCEPT !.phase = "COMPLETE"]
          /\ Save(mem')
          /\ ended' = "COMPLETE"
          /\ pc' = "idle"
          /\ UNCHANGED completion
    /\ UNCHANGED <<run, late, costLog, contract, abortion, command, builds, judged>>

\* _complete saves the phase, then writes the report.
Complete ==
    /\ pc = "complete"
    /\ \/ /\ mem.phase # "COMPLETE"
          /\ mem' = [mem EXCEPT !.phase = "COMPLETE"]
          /\ Save(mem')
          /\ UNCHANGED <<pc, completion, ended>>
       \/ /\ mem.phase = "COMPLETE"
          /\ completion' = run
          /\ ended' = "COMPLETE"
          /\ pc' = "idle"
          /\ UNCHANGED <<mem, saved>>
    /\ UNCHANGED <<run, late, costLog, contract, abortion, command, builds, judged>>

\* So does _abort.
Abort ==
    /\ pc = "abort"
    /\ \/ /\ mem.phase # "ABORT"
          /\ mem' = [mem EXCEPT !.phase = "ABORT"]
          /\ Save(mem')
          /\ UNCHANGED <<pc, abortion, ended>>
       \/ /\ mem.phase = "ABORT"
          /\ abortion' = run
          /\ ended' = "ABORT"
          /\ pc' = "idle"
          /\ UNCHANGED <<mem, saved>>
    /\ UNCHANGED <<run, late, costLog, contract, completion, command, builds, judged>>

\* An agent call raises, or the process is killed: nothing is written.
Crash ==
    /\ pc # "idle"
    /\ pc' = "idle"
    /\ ended' = "crashed"
    /\ UNCHANGED <<run, mem, late, workspace, command, builds, judged>>

TimePasses ==
    /\ pc # "idle"
    /\ ~ late
    /\ late' = TRUE
    /\ UNCHANGED <<run, pc, mem, workspace, command, history>>

-----------------------------------------------------------------------------
(* The abort command of another process, `_abort` on what it loads: a run in *)
(* progress does not look at what it saves.                                *)

LoadForAbort ==
    /\ cli.at = "idle"
    /\ cli' = [at |-> "save", total |-> saved.total]
    /\ UNCHANGED <<run, pc, mem, late, workspace, overrun, history>>

SaveAborted ==
    /\ cli.at = "save"
    /\ saved' = [phase |-> "ABORT", total |-> cli.total]
    /\ overrun' = run
    /\ cli' = [cli EXCEPT !.at = "report"]
    /\ UNCHANGED <<run, pc, mem, late, costLog, contract, completion, abortion,
                   history>>

ReportAborted ==
    /\ cli.at = "report"
    /\ abortion' = run
    /\ cli' = NoCommand
    /\ UNCHANGED <<run, pc, mem, late, costLog, saved, contract, completion,
                   overrun, history>>

\* It may die before either write.
AbortDies ==
    /\ cli.at # "idle"
    /\ cli' = NoCommand
    /\ UNCHANGED <<run, pc, mem, late, workspace, overrun, history>>

-----------------------------------------------------------------------------
RunStep ==
    \/ Plan
    \/ Propose
    \/ Accept
    \/ Reject
    \/ StopAtBound
    \/ StartBuild
    \/ Build
    \/ Evaluate
    \/ DecidePass
    \/ DecideFail
    \/ Complete
    \/ Abort

Next ==
    \/ Run
    \/ RunStep
    \/ Crash
    \/ TimePasses
    \/ LoadForAbort
    \/ SaveAborted
    \/ ReportAborted
    \/ AbortDies

\* The loop is one thread that nothing blocks: every call it waits for returns
\* or raises.
Spec == Init /\ [][Next]_vars /\ WF_vars(RunStep)

-----------------------------------------------------------------------------
(* Properties *)

\* The completion report of a run is there only if the run agreed a contract,
\* made its least number of builds and had the latest of them judged PASS.
CompletionIsEarned ==
    run > 0 /\ completion = run =>
        /\ judged = "PASS"
        /\ builds >= MinSprint
        /\ contract = run

\* The cost is compared with its limit before a build and refreshed after one:
\* planning, the handshake and the first build go unchecked, and from the second
\* build on no more than one call is paid beyond the limit.
BudgetHolds ==
    /\ builds > 1 => costLog < MaxCost + CallCost
    /\ costLog <= CallCost * (1 + 2 * MaxRounds + builds)

\* Whoever finds the completion report of the latest run finds it complete in
\* loop_state.json too, unless the abort command saved over it, with its own
\* report still to come or never written; and a run that ended by its own abort
\* stays aborted, with an abort report.
ReportMatchesStatus ==
    run > 0 =>
        /\ completion = run =>
              \/ saved.phase = "COMPLETE"
              \/ saved.phase = "ABORT" /\ overrun = run
        /\ ended = "ABORT" => saved.phase = "ABORT" /\ abortion = run

\* The steps a run can have before it: a round is two, a build with its
\* evaluation, decision and return four, an ending two.
RoundsLeft == 2 * (MaxRounds - mem.rounds)
BuildsLeft == 4 * (Limit - builds)
MostSteps == 2 * MaxRounds + 4 * Limit + 4
StepsLeft ==
    CASE pc = "idle" -> 0
      [] pc = "complete" -> IF mem.phase = "COMPLETE" THEN 1 ELSE 2
      [] pc = "abort" -> IF mem.phase = "ABORT" THEN 1 ELSE 2
      [] pc \in {"plan", "critique"} -> RoundsLeft + BuildsLeft + 4
      [] pc = "propose" -> RoundsLeft + BuildsLeft + 3
      [] pc = "top" -> BuildsLeft + 3
      [] pc = "decide" -> BuildsLeft + 4
      [] pc = "evaluate" -> BuildsLeft + 5
      [] pc = "build" -> BuildsLeft + 6

\* A run takes MostSteps steps at most, whatever its agents answer, and neither
\* the clock nor the abort command gives it more: a round or an iteration that
\* went uncounted would.
RunsDown ==
    [][/\ Run => StepsLeft' = MostSteps
       /\ ~ Run => StepsLeft' <= StepsLeft
       /\ RunStep => StepsLeft' < StepsLeft /\ StepsLeft' >= 0]_vars

\* The loop is a bounded goal run ...
Goal == INSTANCE GoalRun WITH
            attempts <- builds,
            verdict <- judged,
            outcome <- ended,
            Least <- MinSprint
RunIsBounded == Goal!Spec

\* ... and every run ends: whatever the Evaluator says, a counter reaches its
\* bound, the run completes, or it crashes.
RunEnds == Goal!Ends
=============================================================================
