------------------------- MODULE HarnessLoopProofs -------------------------
(***************************************************************************)
(* Proofs about HarnessLoop, for every setting of its knobs and any number *)
(* of runs.  That a run ends is a liveness property and is left to TLC;    *)
(* that it has only so many steps to make is proved here.                  *)
(***************************************************************************)
EXTENDS HarnessLoop, Integers, TLAPS

Negotiating == {"plan", "propose", "critique"}
Looping == {"top", "build", "evaluate", "decide", "complete"}

\* Where a run stands, and what its steps have left behind.
ControlInv ==
    /\ pc # "idle" <=> ended = "running"
    /\ pc # "idle" => run > 0 /\ mem.total = builds /\ mem.sprint = builds
    /\ pc \in Negotiating => builds = 0 /\ judged = "NONE"
    /\ pc \in Looping => contract = run
    /\ pc \in {"build", "evaluate"} => builds > 0 /\ judged = "NONE"
    /\ pc = "complete" => judged = "PASS" /\ builds >= MinSprint

\* A run has its completion report when it has completed, and not before.
ReportInv ==
    run > 0 /\ completion = run =>
        /\ ended = "COMPLETE"
        /\ judged = "PASS"
        /\ builds >= MinSprint
        /\ contract = run

\* Between an evaluation and the next build the state knows the whole cost.
CostInv ==
    /\ pc \in {"decide", "complete"} => mem.cost = costLog
    /\ pc = "top" /\ builds > 0 => mem.cost = costLog
    /\ pc = "build" /\ builds > 1 => costLog < MaxCost
    /\ builds > 1 => costLog < MaxCost + CallCost

\* The calls made so far, before the first build and after it.
CallsInv ==
    /\ pc # "idle" => mem.rounds <= MaxRounds
    /\ pc = "plan" => costLog = 0
    /\ pc = "propose" => costLog <= CallCost * (1 + 2 * mem.rounds)
    /\ pc = "propose" => mem.rounds < MaxRounds
    /\ pc = "critique" => mem.rounds > 0 /\ costLog <= CallCost * (2 * mem.rounds)
    /\ pc = "build" => costLog <= CallCost * (2 * MaxRounds + builds)
    /\ costLog <= CallCost * (1 + 2 * MaxRounds + builds)

\* The saved phase follows the final phase in memory, but for what the abort
\* command saves over it.
PhaseInv ==
    /\ mem.phase = "COMPLETE" => pc \in {"idle", "complete"}
    /\ mem.phase = "ABORT" => pc \in {"idle", "abort"}
    /\ pc = "complete" /\ mem.phase = "COMPLETE" =>
          \/ saved.phase = "COMPLETE"
          \/ saved.phase = "ABORT" /\ overrun = run
    /\ pc = "abort" /\ mem.phase = "ABORT" => saved.phase = "ABORT"

\* What happens beside the run: the clock, and the abort command.
Aside == TimePasses \/ LoadForAbort \/ SaveAborted \/ ReportAborted \/ AbortDies

IInv ==
    /\ TypeOK
    /\ ControlInv
    /\ ReportInv
    /\ CostInv
    /\ CallsInv
    /\ PhaseInv
    /\ ReportMatchesStatus

-----------------------------------------------------------------------------
(* Types *)

LEMMA LimitType == Limit \in Nat /\ Limit <= MaxTotal /\ Limit <= MaxSprint
  BY KnobsAssumption DEF Limit

LEMMA RoomForABuild ==
    ASSUME TypeOK, ControlInv, StartBuild
    PROVE  builds + 1 \in 0 .. Limit
<1>1. builds < MaxTotal /\ builds < MaxSprint
  BY KnobsAssumption, LimitType DEF TypeOK, ControlInv, StartBuild, ShouldStop
<1> QED
  BY <1>1, KnobsAssumption, LimitType DEF TypeOK, Limit

LEMMA LogCostType ==
    ASSUME costLog \in Nat, LogCost
    PROVE  /\ costLog' \in Nat
           /\ costLog' >= costLog
           /\ costLog' <= costLog + CallCost
  BY KnobsAssumption DEF LogCost

LEMMA SaveType ==
    ASSUME NEW state \in LoopStates, Save(state)
    PROVE  /\ saved' \in [phase : Phases, total : Nat]
           /\ saved'.phase = state.phase
  BY DEF Save, LoopStates

LEMMA ProposedState ==
    ASSUME NEW m \in LoopStates
    PROVE  [m EXCEPT !.phase = "CONTRACT_HANDSHAKE", !.rounds = @ + 1] \in LoopStates
<1> DEFINE n == [m EXCEPT !.phase = "CONTRACT_HANDSHAKE"]
<1>1. n \in LoopStates /\ n.rounds = m.rounds
  BY DEF LoopStates, Phases
<1>2. m.rounds \in Nat
  BY DEF LoopStates
<1> HIDE DEF n
<1>3. [n EXCEPT !.rounds = m.rounds + 1] \in LoopStates
  BY <1>1, <1>2 DEF LoopStates
<1> QED
  BY <1>3 DEF n

LEMMA BuildState ==
    ASSUME NEW m \in LoopStates
    PROVE  [m EXCEPT !.phase = "BUILD", !.total = @ + 1, !.sprint = @ + 1]
              \in LoopStates
<1> DEFINE n == [m EXCEPT !.phase = "BUILD"]
           o == [n EXCEPT !.total = m.total + 1]
<1>1. n \in LoopStates
  BY DEF LoopStates, Phases
<1>2. m.total \in Nat /\ m.sprint \in Nat
  BY DEF LoopStates
<1> HIDE DEF n
<1>3. o \in LoopStates
  BY <1>1, <1>2 DEF LoopStates
<1> HIDE DEF o
<1>4. [o EXCEPT !.sprint = m.sprint + 1] \in LoopStates
  BY <1>2, <1>3 DEF LoopStates
<1> QED
  BY <1>4 DEF o, n

LEMMA FreshType == Fresh \in LoopStates
  BY DEF Fresh, LoopStates, Phases, Scores

LEMMA InitInv == Init => IInv
<1> SUFFICES ASSUME Init PROVE IInv
  OBVIOUS
<1>2. TypeOK
  <2>1. saved \in [phase : Phases, total : Nat]
    BY DEF Init, Phases
  <2>2. builds \in 0 .. Limit /\ run \in 0 .. MaxRuns
    BY KnobsAssumption, LimitType DEF Init
  <2>3. contract \in 0 .. run /\ completion \in 0 .. run /\ abortion \in 0 .. run
    BY DEF Init
  <2> QED
    BY <2>1, <2>2, <2>3, FreshType DEF Init, TypeOK, Steps, NoCommand
<1>3. ControlInv /\ ReportInv /\ PhaseInv /\ ReportMatchesStatus
  BY DEF Init, ControlInv, ReportInv, PhaseInv, ReportMatchesStatus, Negotiating,
         Looping, Fresh
<1>4. CostInv /\ CallsInv
  <2>1. 0 <= CallCost * (1 + 2 * MaxRounds + 0)
    BY KnobsAssumption
  <2> QED
    BY <2>1, KnobsAssumption DEF Init, CostInv, CallsInv
<1> QED
  BY <1>2, <1>3, <1>4 DEF IInv

LEMMA TypeStep == IInv /\ [Next]_vars => TypeOK'
<1> SUFFICES ASSUME IInv, [Next]_vars PROVE TypeOK'
  OBVIOUS
<1> USE DEF IInv
<1>1. CASE Run
  <2>1. saved' \in [phase : Phases, total : Nat]
    BY <1>1, FreshType, SaveType DEF Run
  <2>2. builds' \in 0 .. Limit /\ run' \in 0 .. MaxRuns
    BY <1>1, KnobsAssumption, LimitType DEF Run, TypeOK
  <2>3. /\ contract' \in 0 .. run'
        /\ completion' \in 0 .. run'
        /\ abortion' \in 0 .. run'
        /\ overrun' \in 0 .. run'
    BY <1>1 DEF Run, TypeOK, command
  <2> QED
    BY <1>1, <2>1, <2>2, <2>3, FreshType DEF Run, TypeOK, Steps, command
<1>2. CASE Plan
  BY <1>2, LogCostType DEF TypeOK, Plan, history, command, Steps
<1>3. CASE Propose
  <2>1. mem' \in LoopStates
    BY <1>3, ProposedState DEF TypeOK, Propose
  <2> QED
    BY <1>3, <2>1, LogCostType DEF TypeOK, Propose, history, command, Steps
<1>4. CASE Accept
  <2>1. mem' \in LoopStates
    BY <1>4 DEF TypeOK, Accept, LoopStates, Phases
  <2> QED
    BY <1>4, <2>1, SaveType, LogCostType DEF TypeOK, Accept, history, command, Steps
<1>5. CASE Reject
  BY <1>5, SaveType, LogCostType DEF TypeOK, Reject, history, command, Steps
<1>6. CASE StopAtBound
  BY <1>6 DEF TypeOK, StopAtBound, workspace, history, command, Steps
<1>7. CASE StartBuild
  <2>1. mem' \in LoopStates
    BY <1>7, BuildState DEF TypeOK, StartBuild
  <2> QED
    BY <1>7, <2>1, SaveType, RoomForABuild DEF TypeOK, StartBuild, Steps, command
<1>8. CASE Build
  BY <1>8, LogCostType DEF TypeOK, Build, history, command, LoopStates, Phases, Steps
<1>9. CASE Evaluate
  BY <1>9 DEF TypeOK, Evaluate, workspace, LoopStates, Steps, command
<1>10. CASE DecidePass
  <2>1. mem' \in LoopStates
    BY <1>10 DEF TypeOK, DecidePass, LoopStates
  <2> QED
    BY <1>10, <2>1, SaveType DEF TypeOK, DecidePass, history, command, Steps
<1>11. CASE DecideFail
  <2>1. mem' \in LoopStates
    BY <1>11 DEF TypeOK, DecideFail, LoopStates
  <2> QED
    BY <1>11, <2>1, SaveType DEF TypeOK, DecideFail, history, command, Steps
<1>12. CASE Complete
  <2>1. mem' \in LoopStates
    BY <1>12 DEF TypeOK, Complete, LoopStates, Phases
  <2> QED
    BY <1>12, <2>1, SaveType DEF TypeOK, Complete, Steps, command
<1>13. CASE Abort
  <2>1. mem' \in LoopStates
    BY <1>13 DEF TypeOK, Abort, LoopStates, Phases
  <2> QED
    BY <1>13, <2>1, SaveType DEF TypeOK, Abort, Steps, command
<1>14. CASE Crash
  BY <1>14 DEF TypeOK, Crash, workspace, Steps, command
<1>15. CASE TimePasses
  BY <1>15 DEF TypeOK, TimePasses, workspace, history, command
<1>16. CASE LoadForAbort
  BY <1>16 DEF TypeOK, LoadForAbort, workspace, history
<1>17. CASE SaveAborted
  BY <1>17 DEF TypeOK, SaveAborted, history, Phases
<1>18. CASE ReportAborted
  BY <1>18 DEF TypeOK, ReportAborted, NoCommand, history
<1>19. CASE AbortDies
  BY <1>19 DEF TypeOK, AbortDies, NoCommand, workspace, history
<1>20. CASE UNCHANGED vars
  BY <1>20 DEF TypeOK, vars, command, workspace, history
<1> QED
  BY <1>1, <1>2, <1>3, <1>4, <1>5, <1>6, <1>7, <1>8, <1>9, <1>10, <1>11, <1>12,
     <1>13, <1>14, <1>15, <1>16, <1>17, <1>18, <1>19, <1>20 DEF Next, RunStep

-----------------------------------------------------------------------------
(* What the steps do to the fields of the state *)

LEMMA ProposeFields ==
    ASSUME TypeOK, Propose
    PROVE  /\ mem'.rounds = mem.rounds + 1
           /\ mem'.phase = "CONTRACT_HANDSHAKE"
           /\ mem'.total = mem.total
           /\ mem'.sprint = mem.sprint
  BY DEF TypeOK, LoopStates, Propose

LEMMA AcceptFields ==
    ASSUME TypeOK, Accept
    PROVE  /\ mem'.phase = "CONTRACT_READY"
           /\ mem'.rounds = mem.rounds
           /\ mem'.total = mem.total
           /\ mem'.sprint = mem.sprint
  BY DEF TypeOK, LoopStates, Accept

LEMMA StartBuildFields ==
    ASSUME TypeOK, StartBuild
    PROVE  /\ mem'.phase = "BUILD"
           /\ mem'.rounds = mem.rounds
           /\ mem'.cost = mem.cost
           /\ mem'.total = mem.total + 1
           /\ mem'.sprint = mem.sprint + 1
  BY DEF TypeOK, LoopStates, StartBuild

LEMMA BuildFields ==
    ASSUME TypeOK, Build
    PROVE  /\ mem'.phase = "EVALUATE"
           /\ mem'.rounds = mem.rounds
           /\ mem'.total = mem.total
           /\ mem'.sprint = mem.sprint
  BY DEF TypeOK, LoopStates, Build

LEMMA EvaluateFields ==
    ASSUME TypeOK, Evaluate
    PROVE  /\ mem'.cost = costLog
           /\ mem'.phase = mem.phase
           /\ mem'.rounds = mem.rounds
           /\ mem'.total = mem.total
           /\ mem'.sprint = mem.sprint
  BY DEF TypeOK, LoopStates, Evaluate

LEMMA DecideFields ==
    ASSUME TypeOK, DecidePass \/ DecideFail
    PROVE  /\ mem'.cost = mem.cost
           /\ mem'.phase = mem.phase
           /\ mem'.rounds = mem.rounds
           /\ mem'.total = mem.total
           /\ mem'.sprint = mem.sprint
  BY DEF TypeOK, LoopStates, DecidePass, DecideFail

LEMMA EndFields ==
    ASSUME TypeOK, Complete \/ Abort
    PROVE  /\ mem'.cost = mem.cost
           /\ mem'.rounds = mem.rounds
           /\ mem'.total = mem.total
           /\ mem'.sprint = mem.sprint
  BY DEF TypeOK, LoopStates, Complete, Abort

-----------------------------------------------------------------------------
(* The parts of the invariant *)

LEMMA ControlStep == IInv /\ [Next]_vars => ControlInv'
<1> SUFFICES ASSUME IInv, [Next]_vars PROVE ControlInv'
  OBVIOUS
<1> USE DEF IInv, ControlInv, Negotiating, Looping
<1>1. CASE Run
  BY <1>1 DEF Run, Fresh, TypeOK
<1>2. CASE Plan
  BY <1>2 DEF Plan, history
<1>3. CASE Propose
  BY <1>3, ProposeFields DEF Propose, history
<1>4. CASE Accept
  BY <1>4, AcceptFields DEF Accept, history
<1>5. CASE Reject
  BY <1>5 DEF Reject, history
<1>6. CASE StopAtBound
  BY <1>6 DEF StopAtBound, workspace, history
<1>7. CASE StartBuild
  BY <1>7, StartBuildFields, LimitType DEF StartBuild, TypeOK
<1>8. CASE Build
  BY <1>8, BuildFields DEF Build, history
<1>9. CASE Evaluate
  BY <1>9, EvaluateFields DEF Evaluate, workspace
<1>10. CASE DecidePass
  BY <1>10, DecideFields, KnobsAssumption, LimitType
  DEF DecidePass, Blocked, history, TypeOK
<1>11. CASE DecideFail
  BY <1>11, DecideFields DEF DecideFail, history
<1>12. CASE Complete
  BY <1>12, EndFields DEF Complete
<1>13. CASE Abort
  BY <1>13, EndFields DEF Abort
<1>14. CASE Crash
  BY <1>14 DEF Crash, workspace
<1>15. CASE TimePasses
  BY <1>15 DEF TimePasses, workspace, history
<1>16. CASE LoadForAbort
  BY <1>16 DEF LoadForAbort, workspace, history
<1>17. CASE SaveAborted \/ ReportAborted \/ AbortDies
  BY <1>17 DEF SaveAborted, ReportAborted, AbortDies, workspace, history
<1>18. CASE UNCHANGED vars
  BY <1>18 DEF vars, workspace, history
<1> QED
  BY <1>1, <1>2, <1>3, <1>4, <1>5, <1>6, <1>7, <1>8, <1>9, <1>10, <1>11, <1>12,
     <1>13, <1>14, <1>15, <1>16, <1>17, <1>18 DEF Next, RunStep

\* Only Complete writes a completion report, and a run has ended then; the next
\* run takes a number no report carries.
LEMMA ReportStep == IInv /\ [Next]_vars => ReportInv'
<1> SUFFICES ASSUME IInv, [Next]_vars PROVE ReportInv'
  OBVIOUS
<1> USE DEF IInv, ReportInv
<1>1. CASE Run
  BY <1>1 DEF Run, TypeOK
<1>2. CASE Complete
  BY <1>2 DEF Complete, ControlInv, Looping
<1>3. CASE RunStep /\ ~ Complete
  <2>1. pc # "idle"
    BY <1>3 DEF RunStep, Plan, Propose, Accept, Reject, StopAtBound, StartBuild,
                Build, Evaluate, DecidePass, DecideFail, Abort
  <2>2. run' = run /\ completion' = completion
    BY <1>3 DEF RunStep, Plan, Propose, Accept, Reject, StopAtBound, StartBuild,
                Build, Evaluate, DecidePass, DecideFail, Abort, workspace
  <2> QED
    BY <2>1, <2>2 DEF ControlInv
<1>4. CASE Crash
  BY <1>4 DEF Crash, workspace, ControlInv
<1>5. CASE Aside \/ UNCHANGED vars
  BY <1>5 DEF Aside, TimePasses, LoadForAbort, SaveAborted, ReportAborted, AbortDies, vars, workspace, history
<1> QED
  BY <1>1, <1>2, <1>3, <1>4, <1>5 DEF Next, Aside

LEMMA CostStep == IInv /\ [Next]_vars => CostInv'
<1> SUFFICES ASSUME IInv, [Next]_vars PROVE CostInv'
  OBVIOUS
<1> USE KnobsAssumption DEF IInv, CostInv
<1>0. builds \in Nat /\ costLog \in Nat
  BY LimitType DEF TypeOK
<1>1. CASE Run
  BY <1>1 DEF Run
<1>2. CASE Plan \/ Propose \/ Accept \/ Reject
  <2>1. builds' = 0 /\ pc' \in {"propose", "critique", "abort", "top"}
    BY <1>2 DEF Plan, Propose, Accept, Reject, history, ControlInv, Negotiating
  <2> QED
    BY <2>1
<1>3. CASE StopAtBound
  BY <1>3 DEF StopAtBound, workspace, history
<1>4. CASE StartBuild
  BY <1>0, <1>4 DEF StartBuild, ShouldStop, TypeOK, LoopStates
<1>5. CASE Build
  BY <1>0, <1>5, LogCostType DEF Build, history
<1>6. CASE Evaluate
  BY <1>6, EvaluateFields DEF Evaluate, workspace
<1>7. CASE DecidePass \/ DecideFail
  BY <1>7, DecideFields DEF DecidePass, DecideFail, history
<1>8. CASE Complete \/ Abort
  BY <1>8, EndFields DEF Complete, Abort
<1>9. CASE Crash
  BY <1>9 DEF Crash, workspace
<1>10. CASE Aside \/ UNCHANGED vars
  BY <1>10 DEF Aside, TimePasses, LoadForAbort, SaveAborted, ReportAborted, AbortDies, vars, workspace, history
<1> QED
  BY <1>1, <1>2, <1>3, <1>4, <1>5, <1>6, <1>7, <1>8, <1>9, <1>10 DEF Next, Aside, RunStep

LEMMA PhaseStep == IInv /\ [Next]_vars => PhaseInv' /\ ReportMatchesStatus'
<1> SUFFICES ASSUME IInv, [Next]_vars PROVE PhaseInv' /\ ReportMatchesStatus'
  OBVIOUS
<1> USE DEF IInv, PhaseInv, ReportMatchesStatus
<1>1. CASE Run
  BY <1>1 DEF Run, Fresh, TypeOK
<1>2. CASE Complete
  <2>1. CASE mem.phase # "COMPLETE"
    <3>1. mem' \in LoopStates /\ mem'.phase = "COMPLETE" /\ Save(mem')
      BY <1>2, <2>1 DEF Complete, TypeOK, LoopStates, Phases
    <3>2. saved'.phase = "COMPLETE"
      BY <3>1, SaveType
    <3> QED
      BY <1>2, <2>1, <3>1, <3>2 DEF Complete, ControlInv
  <2>2. CASE mem.phase = "COMPLETE"
    BY <1>2, <2>2 DEF Complete, command
  <2> QED
    BY <2>1, <2>2
<1>3. CASE Abort
  <2>0. pc = "abort" /\ ~ (run > 0 /\ completion = run)
    BY <1>3 DEF Abort, ReportInv, ControlInv
  <2>1. CASE mem.phase # "ABORT"
    <3>1. mem' \in LoopStates /\ mem'.phase = "ABORT" /\ Save(mem')
      BY <1>3, <2>1 DEF Abort, TypeOK, LoopStates, Phases
    <3>2. saved'.phase = "ABORT"
      BY <3>1, SaveType
    <3> QED
      BY <1>3, <2>0, <2>1, <3>1, <3>2 DEF Abort, ControlInv
  <2>2. CASE mem.phase = "ABORT"
    BY <1>3, <2>0, <2>2 DEF Abort
  <2> QED
    BY <2>1, <2>2
<1>4. CASE RunStep /\ ~ Complete /\ ~ Abort
  <2>1. pc # "idle" /\ run' = run /\ completion' = completion /\ ended' = ended
    BY <1>4 DEF RunStep, Plan, Propose, Accept, Reject, StopAtBound, StartBuild,
                Build, Evaluate, DecidePass, DecideFail, workspace, history
  <2>2. ~ (run > 0 /\ completion = run) /\ ended = "running"
    BY <2>1 DEF ReportInv, ControlInv
  <2>3. mem'.phase \notin {"COMPLETE", "ABORT"}
    <3>1. CASE Plan \/ Reject \/ StopAtBound
      BY <3>1 DEF Plan, Reject, StopAtBound
    <3>2. CASE Propose \/ Accept \/ StartBuild \/ Build
      BY <3>2, ProposeFields, AcceptFields, StartBuildFields, BuildFields
    <3>3. CASE Evaluate \/ DecidePass \/ DecideFail
      BY <3>3, EvaluateFields, DecideFields DEF Evaluate, DecidePass, DecideFail
    <3> QED
      BY <1>4, <3>1, <3>2, <3>3 DEF RunStep
  <2> QED
    BY <2>1, <2>2, <2>3
<1>5. CASE Crash
  BY <1>5 DEF Crash, workspace, command
<1>6. CASE SaveAborted
  BY <1>6 DEF SaveAborted, history
<1>7. CASE ReportAborted
  BY <1>7 DEF ReportAborted, history
<1>8. CASE TimePasses \/ LoadForAbort \/ AbortDies \/ UNCHANGED vars
  BY <1>8 DEF TimePasses, LoadForAbort, AbortDies, vars, workspace, command, history
<1> QED
  BY <1>1, <1>2, <1>3, <1>4, <1>5, <1>6, <1>7, <1>8 DEF Next

\* Each round of the handshake costs two calls, each build one.
LEMMA MonotonicCalls ==
    ASSUME NEW m \in Nat, NEW n \in Nat, m <= n
    PROVE  CallCost * m <= CallCost * n
  BY KnobsAssumption

LEMMA OneMoreCall ==
    ASSUME NEW n \in Nat
    PROVE  CallCost * (n + 1) = CallCost * n + CallCost
  BY KnobsAssumption

LEMMA CallsStep == IInv /\ [Next]_vars => CallsInv'
<1> SUFFICES ASSUME IInv, [Next]_vars PROVE CallsInv'
  OBVIOUS
<1> USE DEF IInv
<1>0. /\ builds \in Nat
      /\ costLog \in Nat
      /\ mem.rounds \in Nat
      /\ MaxRounds \in Nat
      /\ CallCost \in Nat
  BY LimitType, KnobsAssumption DEF TypeOK, LoopStates
<1> DEFINE Calls(n) == CallCost * n
<1>a. \A m, n \in Nat : m <= n => Calls(m) <= Calls(n)
  BY MonotonicCalls
<1>b. \A n \in Nat : Calls(n + 1) = Calls(n) + CallCost
  BY OneMoreCall
<1>c. \A n \in Nat : Calls(n) \in Nat
  BY <1>0
<1>d. CallsInv <=>
        /\ pc # "idle" => mem.rounds <= MaxRounds
        /\ pc = "plan" => costLog = 0
        /\ pc = "propose" => costLog <= Calls(1 + 2 * mem.rounds)
        /\ pc = "propose" => mem.rounds < MaxRounds
        /\ pc = "critique" => mem.rounds > 0 /\ costLog <= Calls(2 * mem.rounds)
        /\ pc = "build" => costLog <= Calls(2 * MaxRounds + builds)
        /\ costLog <= Calls(1 + 2 * MaxRounds + builds)
  BY DEF CallsInv
<1>e. CallsInv' <=>
        /\ pc' # "idle" => mem'.rounds <= MaxRounds
        /\ pc' = "plan" => costLog' = 0
        /\ pc' = "propose" => costLog' <= Calls(1 + 2 * mem'.rounds)
        /\ pc' = "propose" => mem'.rounds < MaxRounds
        /\ pc' = "critique" => mem'.rounds > 0 /\ costLog' <= Calls(2 * mem'.rounds)
        /\ pc' = "build" => costLog' <= Calls(2 * MaxRounds + builds')
        /\ costLog' <= Calls(1 + 2 * MaxRounds + builds')
  BY DEF CallsInv
<1> HIDE DEF Calls
<1>1. CASE Run
  BY <1>0, <1>c, <1>e, <1>1 DEF Run, Fresh
<1>2. CASE Plan
  <2>1. costLog' <= CallCost
    BY <1>0, <1>2, LogCostType DEF Plan, CallsInv
  <2>2. CallCost <= Calls(0 + 1)
    BY <1>0, <1>b, <1>c
  <2>3. /\ Calls(1) <= Calls(1 + 2 * mem.rounds)
        /\ Calls(1) <= Calls(1 + 2 * MaxRounds + builds)
    BY <1>0, <1>a
  <2> QED
    BY <1>0, <1>2, <1>c, <1>d, <1>e, <2>1, <2>2, <2>3, LogCostType DEF Plan, history
<1>3. CASE Propose
  <2>1. /\ costLog <= Calls(1 + 2 * mem.rounds)
        /\ mem.rounds < MaxRounds
    BY <1>3, <1>d DEF Propose
  <2>2. costLog' <= Calls(1 + 2 * mem.rounds) + CallCost
    BY <1>0, <1>3, <1>c, <2>1, LogCostType DEF Propose
  <2>3. Calls((1 + 2 * mem.rounds) + 1) = Calls(1 + 2 * mem.rounds) + CallCost
    BY <1>0, <1>b
  <2>4. (1 + 2 * mem.rounds) + 1 = 2 * mem'.rounds /\ mem'.rounds \in Nat \ {0}
    BY <1>0, <1>3, ProposeFields
  <2>5. Calls(2 * mem'.rounds) <= Calls(1 + 2 * MaxRounds + builds)
    BY <1>0, <1>3, <1>a, <2>1, <2>4, ProposeFields
  <2>6. costLog' <= Calls(2 * mem'.rounds)
    BY <2>2, <2>3, <2>4
  <2>7. costLog' <= Calls(1 + 2 * MaxRounds + builds)
    BY <1>0, <1>3, <1>c, <2>4, <2>5, <2>6, LogCostType DEF Propose
  <2> QED
    BY <1>0, <1>3, <1>e, <2>1, <2>4, <2>6, <2>7, ProposeFields DEF Propose, history
<1>4. CASE Accept \/ Reject
  <2>1. costLog <= Calls(2 * mem.rounds) /\ mem.rounds <= MaxRounds
    BY <1>4, <1>d DEF Accept, Reject
  <2>2. costLog' \in Nat /\ costLog' <= costLog + CallCost
    BY <1>0, <1>4, LogCostType DEF Accept, Reject
  <2>3. Calls(2 * mem.rounds + 1) = Calls(2 * mem.rounds) + CallCost
    BY <1>0, <1>b
  <2>4. 2 * mem.rounds + 1 = 1 + 2 * mem.rounds
    BY <1>0
  <2>5. costLog' <= Calls(1 + 2 * mem.rounds)
    BY <1>0, <1>c, <2>1, <2>2, <2>3, <2>4
  <2>6. Calls(1 + 2 * mem.rounds) <= Calls(1 + 2 * MaxRounds + builds)
    BY <1>0, <1>a, <2>1
  <2>7. costLog' <= Calls(1 + 2 * MaxRounds + builds)
    BY <1>0, <1>c, <2>2, <2>5, <2>6
  <2>8. mem'.rounds = mem.rounds
    BY <1>4, AcceptFields DEF Reject
  <2> QED
    BY <1>4, <1>e, <2>1, <2>5, <2>7, <2>8 DEF Accept, Reject, history
<1>5. CASE StopAtBound
  BY <1>5, <1>d, <1>e DEF StopAtBound, workspace, history
<1>6. CASE StartBuild
  <2>1. builds' = builds + 1 /\ costLog' = costLog /\ pc' = "build"
    BY <1>6 DEF StartBuild
  <2>2. 1 + 2 * MaxRounds + builds = 2 * MaxRounds + builds'
    BY <1>0, <2>1
  <2>3. costLog' <= Calls(2 * MaxRounds + builds')
    BY <1>d, <2>1, <2>2
  <2>4. Calls(2 * MaxRounds + builds') <= Calls(1 + 2 * MaxRounds + builds')
    BY <1>0, <1>a, <2>1
  <2>5. costLog' <= Calls(1 + 2 * MaxRounds + builds')
    BY <1>0, <1>c, <2>1, <2>3, <2>4
  <2> QED
    BY <1>6, <1>d, <1>e, <2>1, <2>3, <2>5, StartBuildFields DEF StartBuild
<1>7. CASE Build
  <2>1. costLog <= Calls(2 * MaxRounds + builds)
    BY <1>7, <1>d DEF Build
  <2>2. costLog' \in Nat /\ costLog' <= costLog + CallCost
    BY <1>0, <1>7, LogCostType DEF Build
  <2>3. Calls((2 * MaxRounds + builds) + 1) = Calls(2 * MaxRounds + builds) + CallCost
    BY <1>0, <1>b
  <2>4. (2 * MaxRounds + builds) + 1 = 1 + 2 * MaxRounds + builds
    BY <1>0
  <2>5. costLog' <= Calls(1 + 2 * MaxRounds + builds)
    BY <1>0, <1>c, <2>1, <2>2, <2>3, <2>4
  <2> QED
    BY <1>7, <1>d, <1>e, <2>5, BuildFields DEF Build, history
<1>8. CASE Evaluate
  BY <1>8, <1>d, <1>e, EvaluateFields DEF Evaluate, workspace
<1>9. CASE DecidePass \/ DecideFail
  BY <1>9, <1>d, <1>e, DecideFields DEF DecidePass, DecideFail, history
<1>10. CASE Complete \/ Abort
  BY <1>10, <1>d, <1>e, EndFields DEF Complete, Abort
<1>11. CASE Crash
  BY <1>11, <1>d, <1>e DEF Crash, workspace
<1>12. CASE Aside \/ UNCHANGED vars
  BY <1>12, <1>d, <1>e
  DEF Aside, TimePasses, LoadForAbort, SaveAborted, ReportAborted, AbortDies, vars, workspace, history
<1> QED
  BY <1>1, <1>2, <1>3, <1>4, <1>5, <1>6, <1>7, <1>8, <1>9, <1>10, <1>11, <1>12
  DEF Next, Aside, RunStep

-----------------------------------------------------------------------------
(* The theorems *)

LEMMA InvStep == IInv /\ [Next]_vars => IInv'
  BY TypeStep, ControlStep, ReportStep, CostStep, CallsStep, PhaseStep DEF IInv

THEOREM LoopInvariance == Spec => []IInv
  BY InitInv, InvStep, PTL DEF Spec

\* Every reachable state has its type; with it, no run builds more often than
\* the smaller of its two iteration limits.
THEOREM LoopTypeCorrect == Spec => []TypeOK
  BY LoopInvariance, PTL DEF IInv

\* No report of completion without an agreed contract, the least number of
\* builds and a PASS on the latest of them.
THEOREM CompletionEarned == Spec => []CompletionIsEarned
<1>1. IInv => CompletionIsEarned
  BY DEF IInv, ReportInv, CompletionIsEarned
<1> QED
  BY <1>1, LoopInvariance, PTL

\* What a run may spend beyond its limit, whatever its calls cost.
THEOREM BudgetKept == Spec => []BudgetHolds
<1>1. IInv => BudgetHolds
  BY DEF IInv, CostInv, CallsInv, BudgetHolds
<1> QED
  BY <1>1, LoopInvariance, PTL

\* A death between the two writes of an ending, the run's own or the abort
\* command's, leaves no completion report whose status nobody saved.
THEOREM ReportHasStatus == Spec => []ReportMatchesStatus
  BY LoopInvariance, PTL DEF IInv

-----------------------------------------------------------------------------
(* The length of a run *)

\* What the invariant says of the counters a run's length depends on.
WithinBounds ==
    /\ MaxRounds \in Nat /\ Limit \in Nat
    /\ builds \in Nat /\ builds <= Limit
    /\ mem.rounds \in Nat
    /\ pc \in Steps
    /\ pc # "idle" => mem.rounds <= MaxRounds
    /\ pc = "propose" => mem.rounds < MaxRounds
    /\ StepsLeft \in Nat

LEMMA LeftBounds == IInv => WithinBounds
<1> SUFFICES ASSUME IInv PROVE WithinBounds
  OBVIOUS
<1>1. /\ MaxRounds \in Nat /\ Limit \in Nat /\ builds \in Nat /\ builds <= Limit
      /\ mem.rounds \in Nat /\ pc \in Steps
  BY KnobsAssumption, LimitType DEF IInv, TypeOK, LoopStates
<1>2. /\ pc # "idle" => mem.rounds <= MaxRounds
      /\ pc = "propose" => mem.rounds < MaxRounds
  BY DEF IInv, CallsInv
<1>3. StepsLeft \in Nat
  BY <1>1, <1>2 DEF StepsLeft, RoundsLeft, BuildsLeft, Steps
<1> QED
  BY <1>1, <1>2, <1>3 DEF WithinBounds

LEMMA RunDown ==
    ASSUME IInv, WithinBounds, WithinBounds', RunStep
    PROVE  StepsLeft' < StepsLeft /\ StepsLeft' >= 0
<1>0. /\ MaxRounds \in Nat /\ Limit \in Nat /\ builds \in Nat /\ builds <= Limit
      /\ mem.rounds \in Nat /\ (pc # "idle" => mem.rounds <= MaxRounds)
      /\ (pc = "propose" => mem.rounds < MaxRounds)
      /\ builds' \in Nat /\ builds' <= Limit
  BY DEF WithinBounds
<1>a. StepsLeft' >= 0
  BY DEF WithinBounds
<1>b. TypeOK /\ (pc = "critique" => builds = 0)
  BY DEF IInv, ControlInv, Negotiating
<1> USE DEF StepsLeft, RoundsLeft, BuildsLeft
<1>1. CASE Plan
  BY <1>0, <1>a, <1>1 DEF Plan, history
<1>2. CASE Propose
  BY <1>0, <1>a, <1>b, <1>2, ProposeFields DEF Propose, history
<1>3. CASE Accept
  BY <1>0, <1>a, <1>3 DEF Accept, history
<1>4. CASE Reject
  BY <1>0, <1>a, <1>4 DEF Reject, history
<1>5. CASE StopAtBound
  BY <1>0, <1>a, <1>5 DEF StopAtBound, history
<1>6. CASE StartBuild
  BY <1>0, <1>a, <1>6 DEF StartBuild
<1>7. CASE Build
  BY <1>0, <1>a, <1>7 DEF Build, history
<1>8. CASE Evaluate
  BY <1>0, <1>a, <1>8 DEF Evaluate
<1>9. CASE DecidePass \/ DecideFail
  BY <1>0, <1>a, <1>9 DEF DecidePass, DecideFail, history
<1>10. CASE Complete
  <2>1. mem' = [mem EXCEPT !.phase = "COMPLETE"] => mem'.phase = "COMPLETE"
    BY <1>b DEF TypeOK, LoopStates
  <2> QED
    BY <1>0, <1>a, <1>10, <2>1 DEF Complete
<1>11. CASE Abort
  <2>1. mem' = [mem EXCEPT !.phase = "ABORT"] => mem'.phase = "ABORT"
    BY <1>b DEF TypeOK, LoopStates
  <2> QED
    BY <1>0, <1>a, <1>11, <2>1 DEF Abort
<1> QED
  BY <1>1, <1>2, <1>3, <1>4, <1>5, <1>6, <1>7, <1>8, <1>9, <1>10, <1>11 DEF RunStep

LEMMA RunsDownStep ==
    ASSUME IInv, WithinBounds, WithinBounds', Next
    PROVE  /\ Run => StepsLeft' = MostSteps
           /\ ~ Run => StepsLeft' <= StepsLeft
           /\ RunStep => StepsLeft' < StepsLeft /\ StepsLeft' >= 0
<1>0. /\ StepsLeft >= 0 /\ MaxRounds \in Nat /\ Limit \in Nat
      /\ builds \in Nat /\ mem.rounds \in Nat /\ pc \in Steps
  BY DEF WithinBounds
<1>1. CASE Run
  <2>1. StepsLeft' = MostSteps
    BY <1>0, <1>1 DEF Run, Fresh, StepsLeft, RoundsLeft, BuildsLeft, MostSteps
  <2>2. ~ RunStep
    BY <1>1 DEF Run, RunStep, Plan, Propose, Accept, Reject, StopAtBound, StartBuild, Build,
       Evaluate, DecidePass, DecideFail, Complete, Abort
  <2> QED
    BY <1>1, <2>1, <2>2
<1>2. CASE RunStep
  <2>1. ~ Run
    BY <1>2 DEF Run, RunStep, Plan, Propose, Accept, Reject, StopAtBound, StartBuild, Build,
       Evaluate, DecidePass, DecideFail, Complete, Abort
  <2>2. StepsLeft' \in Int /\ StepsLeft \in Int
    BY DEF WithinBounds
  <2> QED
    BY <1>2, <2>1, <2>2, RunDown
<1>3. ASSUME ~ Run, ~ RunStep
      PROVE  StepsLeft' <= StepsLeft
  <2>0. StepsLeft \in Int
    BY DEF WithinBounds
  <2>1. CASE Crash
    BY <1>0, <2>0, <2>1 DEF Crash, StepsLeft
  <2>2. CASE Aside
    <3>1. pc' = pc /\ mem' = mem /\ builds' = builds
      BY <2>2 DEF Aside, TimePasses, LoadForAbort, SaveAborted, ReportAborted, AbortDies, history
    <3>2. StepsLeft' = StepsLeft
      BY <3>1 DEF StepsLeft, RoundsLeft, BuildsLeft
    <3> QED
      BY <2>0, <3>2
  <2> QED
    BY <1>3, <2>1, <2>2 DEF Next, Aside
<1> QED
  BY <1>1, <1>2, <1>3

\* No run takes more than MostSteps steps, whatever its agents answer.
THEOREM RunsGoDown == Spec => RunsDown
<1>1. IInv /\ WithinBounds /\ WithinBounds' /\ [Next]_vars
        => [/\ Run => StepsLeft' = MostSteps
            /\ ~ Run => StepsLeft' <= StepsLeft
            /\ RunStep => StepsLeft' < StepsLeft /\ StepsLeft' >= 0]_vars
  BY RunsDownStep
<1> QED
  BY <1>1, LeftBounds, LoopInvariance, PTL DEF Spec, RunsDown

-----------------------------------------------------------------------------
(* The abstract run *)

LEMMA GoalInit == Init => Goal!Init
  BY DEF Init, Goal!Init

LEMMA GoalNext == IInv /\ [Next]_vars => [Goal!Next]_Goal!goalVars
<1> SUFFICES ASSUME IInv, [Next]_vars PROVE [Goal!Next]_Goal!goalVars
  OBVIOUS
<1> USE DEF IInv, Goal!goalVars
<1>1. CASE Run
  BY <1>1 DEF Run, ControlInv, Goal!Next, Goal!Start
<1>2. CASE StartBuild
  <2>1. builds < Limit
    BY <1>2, RoomForABuild, LimitType DEF TypeOK
  <2> QED
    BY <1>2, <2>1 DEF StartBuild, ControlInv, Goal!Next, Goal!Attempt
<1>3. CASE Evaluate
  BY <1>3 DEF Evaluate, ControlInv, Goal!Next, Goal!Judge
<1>4. CASE Complete
  BY <1>4 DEF Complete, ControlInv, Goal!Next, Goal!Complete
<1>5. CASE Abort
  BY <1>5 DEF Abort, ControlInv, Goal!Next, Goal!GiveUp
<1>6. CASE Crash
  BY <1>6 DEF Crash, ControlInv, Goal!Next, Goal!GiveUp
<1>7. CASE Plan \/ Propose \/ Accept \/ Reject \/ StopAtBound \/ Build \/ DecidePass
           \/ DecideFail \/ Aside \/ UNCHANGED vars
  BY <1>7 DEF Plan, Propose, Accept, Reject, StopAtBound, Build, DecidePass,
     DecideFail, Aside, TimePasses, LoadForAbort, SaveAborted, ReportAborted, AbortDies, vars, history
<1> QED
  BY <1>1, <1>2, <1>3, <1>4, <1>5, <1>6, <1>7 DEF Next, Aside, RunStep

\* The loop is a bounded goal run: attempts up to the smaller limit, one verdict
\* each, and completion on a PASS only.
THEOREM LoopIsGoalRun == Spec => RunIsBounded
  BY GoalInit, GoalNext, LoopInvariance, PTL DEF Spec, RunIsBounded, Goal!Spec
=============================================================================
