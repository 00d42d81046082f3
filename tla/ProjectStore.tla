---------------------------- MODULE ProjectStore ----------------------------
(***************************************************************************)
(* The files of one project, and the requests that read and write them.    *)
(*                                                                         *)
(* A project is a directory of files.  Every file but analyses.jsonl is    *)
(* replaced whole by a rename; analyses.jsonl is appended to.  Nothing     *)
(* locks them: the handlers run on a pool of threads, and each reads files *)
(* into memory and writes files from what it read.  A step below is one    *)
(* file access with the local work around it, so a request is a sequence   *)
(* of steps, `todo', that other requests run between.  A request may also  *)
(* stop between two steps: an OSError, or the process ending.              *)
(*                                                                         *)
(* The project exists from the start, as create_project leaves it before   *)
(* its id is known to anybody.  Projects share nothing but the audit log,  *)
(* so one is enough.  Requests here are those of a caller whom             *)
(* require_project_access lets in as far as ownership goes.                *)
(***************************************************************************)
EXTENDS Integers, Sequences, FiniteSets

CONSTANTS
    Requests,       \* the requests made of the project
    Fields,         \* fields of the intake state
    Nobody,         \* no request: an unanswered field, no analysis
    SnapshotCap,    \* readiness snapshots the intake state keeps (24)
    MaxActive,      \* bound: requests being served at the same time
    MaxPatch,       \* bound: fields one request patches
    MaxFailures     \* bound: requests that stop half way

ASSUME StoreAssumption ==
    /\ Nobody \notin Requests
    /\ IsFiniteSet(Requests)
    /\ SnapshotCap \in Nat \ {0}
    /\ MaxActive \in Nat \ {0}
    /\ MaxPatch \in Nat
    /\ MaxFailures \in Nat

VARIABLES
    dir,            \* the project's directory exists
    files,          \* the files in it
    project,        \* project.json: the analysis count and the latest analysis
    intake,         \* intake_state.json: the answers and the snapshots
    analyses,       \* analyses.jsonl: the requests whose analysis it holds
    latest,         \* latest_analysis.json: the request it came from
    status,         \* status[r]: how request r ended, if it did
    input,          \* input[r]: what it asked for
    todo,           \* todo[r]: the steps it still has to take
    seen,           \* seen[r]: what it read
    met,            \* history: requests served while another one was
    failures        \* requests that stopped half way

diskVars == <<dir, files, project, intake, analyses, latest>>
requestVars == <<status, input, todo, seen, met, failures>>
vars == <<diskVars, requestVars>>

-----------------------------------------------------------------------------
FileNames == {"project", "profile", "intake", "analyses", "latest", "successors"}

\* A field holds the last answer given to it, named by the request that gave
\* it; the snapshots are named by the analyses that took them.
Projects == [count : Nat, latest : Requests \cup {Nobody}]
States == [answers : [Fields -> Requests \cup {Nobody}],
           snapshots : Seq(Requests)]
NoProject == [count |-> 0, latest |-> Nobody]
BlankState == [answers |-> [f \in Fields |-> Nobody], snapshots |-> <<>>]

Steps == {"check", "readProject", "readIntake", "readState", "checkSave",
          "rewriteProject", "writeProfile", "writeSuccessors", "mergePatch",
          "saveState", "appendAnalysis", "writeLatest", "addSnapshot",
          "countAnalysis", "list", "unlink", "removeDir"}
Kinds == {"update", "complete", "append", "analyze", "run", "successors", "delete"}
Statuses == {"idle", "running", "ok", "error"}

\* What a request has read: project.json, intake_state.json if it was there,
\* and the directory.
Views == [project : Projects, hasIntake : BOOLEAN, intake : States,
          listing : SUBSET FileNames]
NothingSeen == [project |-> NoProject, hasIntake |-> FALSE,
                intake |-> BlankState, listing |-> {}]

\* What a request carries: the intake fields it patches, and whether its
\* analysis has a readiness score, which only the body of POST /analyses may
\* lack.  One action step completes one field.  POST /analyze without an intake
\* state takes the steps of a scored "append".
Inputs == {i \in [kind : Kinds, fields : SUBSET Fields, scored : BOOLEAN] :
              /\ Cardinality(i.fields) <= MaxPatch
              /\ i.kind = "complete" => \E f \in Fields : i.fields = {f}
              /\ i.kind = "run" => i.fields # {}
              /\ i.kind \notin {"update", "complete", "run"} => i.fields = {}
              /\ i.kind \in {"analyze", "run"} => i.scored
              /\ i.kind \notin {"append", "analyze", "run"} => ~i.scored}
NoInput == [kind |-> "update", fields |-> {}, scored |-> FALSE]

\* Mutant of Merge: the patch is taken for the whole document.
MergeOntoBlank(state, r) ==
    [state EXCEPT !.answers =
        [f \in Fields |-> IF f \in input[r].fields THEN r ELSE Nobody]]

\* Mutant of Merge: the rebuilt document has no snapshots.
MergeWithoutSnapshots(state, r) ==
    [answers |-> [f \in Fields |-> IF f \in input[r].fields THEN r
                                   ELSE state.answers[f]],
     snapshots |-> <<>>]

\* merge_intake_patch: the patched fields are replaced, the others preserved.
Merge(state, r) ==
    [state EXCEPT !.answers =
        [f \in Fields |-> IF f \in input[r].fields THEN r ELSE state.answers[f]]]

\* Mutant of WithSnapshot: the list is not cut.
WithSnapshotUncut(state, r) ==
    [state EXCEPT !.snapshots = Append(@, r)]

\* append_snapshot: the newest SnapshotCap snapshots are kept.
WithSnapshot(state, r) ==
    LET all == Append(state.snapshots, r)
        n == Len(all)
        first == IF n > SnapshotCap THEN n - SnapshotCap + 1 ELSE 1
    IN  [state EXCEPT !.snapshots = SubSeq(all, first, n)]

-----------------------------------------------------------------------------
(* The steps of each request, in the order of its file accesses.           *)

UpdateSteps(fields) ==
    <<"readProject", "readIntake", "rewriteProject", "writeProfile">>
        \o (IF fields = {} THEN <<>> ELSE <<"mergePatch">>)

AnalysisSteps ==
    <<"readProject", "readIntake", "appendAnalysis", "writeLatest",
      "addSnapshot", "countAnalysis", "writeProfile">>

\* Every route looks for project.json first (require_project_access).
Program(i) ==
    <<"check">> \o
    CASE i.kind = "update"     -> UpdateSteps(i.fields)
      [] i.kind = "complete"   -> <<"readState", "checkSave", "saveState">>
      [] i.kind = "append"     -> AnalysisSteps
      [] i.kind = "analyze"    -> <<"readState", "check">> \o AnalysisSteps
      [] i.kind = "run"        -> UpdateSteps(i.fields) \o AnalysisSteps
      [] i.kind = "successors" -> <<"check", "writeSuccessors">>
      [] i.kind = "delete"     -> <<"list", "unlink", "removeDir">>

Init ==
    /\ dir = TRUE
    /\ files = {"project", "profile", "intake"}
    /\ project = NoProject
    /\ intake = BlankState
    /\ analyses = {}
    /\ latest = Nobody
    /\ status = [r \in Requests |-> "idle"]
    /\ input = [r \in Requests |-> NoInput]
    /\ todo = [r \in Requests |-> <<>>]
    /\ seen = [r \in Requests |-> NothingSeen]
    /\ met = {}
    /\ failures = 0

-----------------------------------------------------------------------------
Running(r) == status[r] = "running"
At(r, step) == Running(r) /\ Head(todo[r]) = step

\* The request goes on with these steps and with what it has read so far, and
\* has answered 200 after the last step.
Continue(r, steps, view) ==
    /\ todo' = [todo EXCEPT ![r] = steps]
    /\ status' = [status EXCEPT ![r] = IF steps = <<>> THEN "ok" ELSE "running"]
    /\ seen' = [seen EXCEPT ![r] = IF steps = <<>> THEN NothingSeen ELSE view]
    /\ UNCHANGED <<input, met>>

Proceed(r) == Continue(r, Tail(todo[r]), seen[r])

\* It ends with 404 or 500.
EndInError(r) ==
    /\ todo' = [todo EXCEPT ![r] = <<>>]
    /\ status' = [status EXCEPT ![r] = "error"]
    /\ seen' = [seen EXCEPT ![r] = NothingSeen]
    /\ UNCHANGED <<input, met>>

Begin(r) ==
    LET active == {q \in Requests : Running(q)}
    IN  /\ status[r] = "idle"
        /\ Cardinality(active) < MaxActive
        /\ status' = [status EXCEPT ![r] = "running"]
        /\ \E i \in Inputs :
              /\ input' = [input EXCEPT ![r] = i]
              /\ todo' = [todo EXCEPT ![r] = Program(i)]
        /\ met' = IF active = {} THEN met ELSE met \cup active \cup {r}
        /\ UNCHANGED <<diskVars, seen, failures>>

\* Mutant of Check: the routes do not look for the project.
CheckNothing(r) ==
    /\ At(r, "check")
    /\ Proceed(r)
    /\ UNCHANGED diskVars

\* get_project is None without project.json: 404.
Check(r) ==
    /\ At(r, "check")
    /\ IF "project" \in files THEN Proceed(r) ELSE EndInError(r)
    /\ UNCHANGED diskVars

\* POST /analyze goes on to its analysis when the update found no project, and
\* answers 404 when append_analysis finds none.  POST .../intake/analyze answers
\* 201 then, with nothing saved.
ReadProject(r) ==
    LET updating == input[r].kind = "run" /\ Len(todo[r]) > Len(AnalysisSteps)
    IN  /\ At(r, "readProject")
        /\ IF "project" \in files
           THEN Continue(r, Tail(todo[r]), [seen[r] EXCEPT !.project = project])
           ELSE IF updating THEN Continue(r, AnalysisSteps, seen[r])
           ELSE IF input[r].kind = "analyze" THEN Continue(r, <<>>, seen[r])
           ELSE EndInError(r)
        /\ UNCHANGED diskVars

WithIntake(view) ==
    [view EXCEPT !.hasIntake = "intake" \in files, !.intake = intake]

ReadIntake(r) ==
    /\ At(r, "readIntake")
    /\ Continue(r, Tail(todo[r]), WithIntake(seen[r]))
    /\ UNCHANGED diskVars

\* read_intake_state in a handler: without the file, the project must still
\* exist, and the state is a blank one.
ReadState(r) ==
    /\ At(r, "readState")
    /\ Continue(r, (IF "intake" \in files THEN <<>> ELSE <<"check">>) \o Tail(todo[r]),
                WithIntake(seen[r]))
    /\ UNCHANGED diskVars

\* save_intake_state returns None without a project, and its caller answers
\* 200 all the same.
CheckSave(r) ==
    /\ At(r, "checkSave")
    /\ IF "project" \in files THEN Proceed(r) ELSE Continue(r, <<>>, seen[r])
    /\ UNCHANGED diskVars

-----------------------------------------------------------------------------
(* Writes.  _atomic_write_text makes the directory when it is missing.     *)

Write(file) ==
    /\ dir' = TRUE
    /\ files' = files \cup {file}

RewriteProject(r) ==
    /\ At(r, "rewriteProject")
    /\ Write("project")
    /\ project' = seen[r].project
    /\ Proceed(r)
    /\ UNCHANGED <<intake, analyses, latest>>

\* profile.json is written back with what the request carries or read; the
\* model keeps only whether the file is there, and successors.json likewise.
WriteProfile(r) ==
    /\ At(r, "writeProfile")
    /\ Write("profile")
    /\ Proceed(r)
    /\ UNCHANGED <<project, intake, analyses, latest>>

WriteSuccessors(r) ==
    /\ At(r, "writeSuccessors")
    /\ Write("successors")
    /\ Proceed(r)
    /\ UNCHANGED <<project, intake, analyses, latest>>

WriteMerged(r) ==
    /\ Write("intake")
    /\ intake' = Merge(seen[r].intake, r)
    /\ Proceed(r)
    /\ UNCHANGED <<project, analyses, latest>>

MergePatch(r) == At(r, "mergePatch") /\ WriteMerged(r)
SaveState(r) == At(r, "saveState") /\ WriteMerged(r)

\* Mutant of AppendAnalysis: the file is rewritten from what project.json
\* counted when it was read.
AppendAnalysisToCopy(r) ==
    /\ At(r, "appendAnalysis")
    /\ files' = files \cup {"analyses"}
    /\ analyses' = (IF seen[r].project.count = 0 THEN {} ELSE analyses) \cup {r}
    /\ Proceed(r)
    /\ UNCHANGED <<dir, project, intake, latest>>

\* Mutant of AppendAnalysis: an analysis without a score is not kept.
AppendScoredAnalysis(r) ==
    /\ At(r, "appendAnalysis")
    /\ files' = files \cup {"analyses"}
    /\ analyses' = IF input[r].scored THEN analyses \cup {r} ELSE analyses
    /\ Proceed(r)
    /\ UNCHANGED <<dir, project, intake, latest>>

\* open(..., "a") makes the file, not the directory.
AppendAnalysis(r) ==
    /\ At(r, "appendAnalysis")
    /\ IF dir
       THEN /\ files' = files \cup {"analyses"}
            /\ analyses' = analyses \cup {r}
            /\ Proceed(r)
       ELSE EndInError(r) /\ UNCHANGED <<files, analyses>>
    /\ UNCHANGED <<dir, project, intake, latest>>

WriteLatest(r) ==
    /\ At(r, "writeLatest")
    /\ Write("latest")
    /\ latest' = r
    /\ Proceed(r)
    /\ UNCHANGED <<project, intake, analyses>>

AddSnapshot(r) ==
    /\ At(r, "addSnapshot")
    /\ IF seen[r].hasIntake /\ input[r].scored
       THEN Write("intake") /\ intake' = WithSnapshot(seen[r].intake, r)
       ELSE UNCHANGED <<dir, files, intake>>
    /\ Proceed(r)
    /\ UNCHANGED <<project, analyses, latest>>

\* Mutant of CountAnalysis: the id of the new analysis is forgotten.
CountAnalysisOnly(r) ==
    /\ At(r, "countAnalysis")
    /\ Write("project")
    /\ project' = [seen[r].project EXCEPT !.count = @ + 1]
    /\ Proceed(r)
    /\ UNCHANGED <<intake, analyses, latest>>

CountAnalysis(r) ==
    /\ At(r, "countAnalysis")
    /\ Write("project")
    /\ project' = [count |-> seen[r].project.count + 1, latest |-> r]
    /\ Proceed(r)
    /\ UNCHANGED <<intake, analyses, latest>>

-----------------------------------------------------------------------------
(* shutil.rmtree: list the directory, unlink what was listed in any order, *)
(* remove the directory.  A listed file that is gone, or a directory that  *)
(* is not empty, raises.                                                   *)

List(r) ==
    /\ At(r, "list")
    /\ IF dir
       THEN Continue(r, IF files = {} THEN <<"removeDir">> ELSE Tail(todo[r]),
                     [seen[r] EXCEPT !.listing = files])
       ELSE EndInError(r)
    /\ UNCHANGED diskVars

\* A file that is not there has no content.
Remove(file) ==
    /\ files' = files \ {file}
    /\ project' = IF file = "project" THEN NoProject ELSE project
    /\ intake' = IF file = "intake" THEN BlankState ELSE intake
    /\ analyses' = IF file = "analyses" THEN {} ELSE analyses
    /\ latest' = IF file = "latest" THEN Nobody ELSE latest

Unlink(r) ==
    /\ At(r, "unlink")
    /\ \E file \in seen[r].listing :
          /\ IF file \in files
             THEN /\ Remove(file)
                  /\ Continue(r, IF seen[r].listing = {file} THEN Tail(todo[r]) ELSE todo[r],
                              [seen[r] EXCEPT !.listing = @ \ {file}])
             ELSE EndInError(r) /\ UNCHANGED <<files, project, intake, analyses, latest>>
    /\ UNCHANGED dir

RemoveDir(r) ==
    /\ At(r, "removeDir")
    /\ IF dir /\ files = {} THEN dir' = FALSE /\ Proceed(r)
       ELSE UNCHANGED dir /\ EndInError(r)
    /\ UNCHANGED <<files, project, intake, analyses, latest>>

-----------------------------------------------------------------------------
\* An exception or the end of the process: what was written stays.
Fail(r) ==
    /\ Running(r)
    /\ failures < MaxFailures
    /\ failures' = failures + 1
    /\ EndInError(r)
    /\ UNCHANGED diskVars

Step(r) ==
    \/ Check(r) \/ ReadProject(r) \/ ReadIntake(r) \/ ReadState(r) \/ CheckSave(r)
    \/ RewriteProject(r) \/ WriteProfile(r) \/ WriteSuccessors(r)
    \/ MergePatch(r) \/ SaveState(r)
    \/ AppendAnalysis(r) \/ WriteLatest(r) \/ AddSnapshot(r) \/ CountAnalysis(r)
    \/ List(r) \/ Unlink(r) \/ RemoveDir(r)

\* Every request was made and answered.
Done == (\A r \in Requests : status[r] \in {"ok", "error"}) /\ UNCHANGED vars

Next ==
    \/ \E r \in Requests : \/ Begin(r)
                           \/ Step(r) /\ UNCHANGED failures
                           \/ Fail(r)
    \/ Done

Spec == Init /\ [][Next]_vars
-----------------------------------------------------------------------------
(* Properties.                                                             *)

\* Every variable has its type; a project never holds more than SnapshotCap
\* snapshots, and files are in a directory that exists.
TypeOK ==
    /\ dir \in BOOLEAN
    /\ files \subseteq FileNames
    /\ files # {} => dir
    /\ project \in Projects
    /\ intake \in States
    /\ Len(intake.snapshots) <= SnapshotCap
    /\ analyses \subseteq Requests
    /\ latest \in Requests \cup {Nobody}
    /\ status \in [Requests -> Statuses]
    /\ input \in [Requests -> Inputs \cup {NoInput}]
    /\ todo \in [Requests -> Seq(Steps)]
    /\ seen \in [Requests -> Views]
    /\ met \subseteq Requests
    /\ failures \in 0..MaxFailures

Begun(r) == status[r] # "idle"
Is(r, kind) == Begun(r) /\ input[r].kind = kind
Analyses == {r \in Requests : Is(r, "append") \/ Is(r, "analyze") \/ Is(r, "run")}
Patchers(f) == {r \in Requests : Begun(r) /\ f \in input[r].fields}
Deletes == {r \in Requests : Is(r, "delete")}

\* An analysis that was acknowledged stays in analyses.jsonl, whatever other
\* requests do meanwhile: append_analysis appends where every other write
\* replaces what it read.
AnalysesKept ==
    Deletes = {} => {r \in Analyses : status[r] = "ok"} \subseteq analyses

\* project.json never counts an analysis that analyses.jsonl does not hold, and
\* the analysis that project.json and latest_analysis.json name is one it
\* holds: however stale the project a request writes back, and wherever
\* append_analysis stops.
CountNeverAhead ==
    Deletes = {} =>
        /\ project.count <= Cardinality(analyses)
        /\ {project.latest, latest} \subseteq analyses \cup {Nobody}
        /\ project.latest = Nobody <=> project.count = 0

\* When every analysis so far was acknowledged and met no other request, the
\* three files append_analysis writes tell the same: updates that met each
\* other have written back a count that was still right.
BooksAgree ==
    /\ Deletes = {}
    /\ \A r \in Analyses : status[r] = "ok" /\ r \notin met
    => /\ project.count = Cardinality(analyses)
       /\ project.latest = latest

\* An answer that was acknowledged stays until it is answered again, if the
\* request that gave it met no other one.  The requests after it may meet each
\* other, patch other fields, analyze, or stop half way.
AnswersKept ==
    Deletes = {} =>
        \A r \in Requests \ met : status[r] = "ok" =>
            \A f \in input[r].fields :
                intake.answers[f] = r \/ Patchers(f) # {r}

\* So does the readiness snapshot of an analysis, until SnapshotCap others have
\* pushed it out.
SnapshotsKept ==
    LET scored == {r \in Analyses : input[r].scored}
    IN  Deletes = {} =>
            \A r \in scored \ met : status[r] = "ok" =>
                \/ \E i \in 1..Len(intake.snapshots) : intake.snapshots[i] = r
                \/ Cardinality(scored \ {r}) >= SnapshotCap

\* A project whose deletion was acknowledged and met no other request is gone,
\* and no later request brings any of its files back.
DeletedAloneIsGone ==
    \A r \in Deletes \ met : status[r] = "ok" => ~dir /\ files = {}

\* "Hard delete: remove all stored data for a project.  Irreversible."
\* (projects.py 280): once delete_project has answered, and no request is being
\* served, there is nothing left.
DeletedIsGone ==
    /\ \E r \in Deletes : status[r] = "ok"
    /\ \A r \in Requests : ~Running(r)
    => ~dir /\ files = {}

=============================================================================
