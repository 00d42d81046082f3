---------------------------- MODULE JobRegistry ----------------------------
(***************************************************************************)
(* The harness' job store, state/jobs.json, and what is done through it:   *)
(* create, approve and run a job, by requests of the control API, tools of *)
(* the MCP server and commands of the command line.  Each of these is a    *)
(* process or a thread of its own ("caller"), and none takes a lock.  The  *)
(* file is read whole and rewritten whole: an update is a read (get_job),  *)
(* a second read (update_job), a truncation and a write, and others may    *)
(* act between any two of them.  A file that is not JSON reads as [].      *)
(***************************************************************************)
EXTENDS Naturals, FiniteSets

CONSTANTS Jobs,           \* the identifiers create_job may draw
          Callers,        \* the processes and threads that use the registry
          KindOf,         \* the kind a job is created with
          NeedsApproval,  \* the jobs created with approval_required
          Retries,        \* how often the scheduler repeats a failed run
          MaxCalls,       \* bound: requests to approve or to run a job
          MaxRuns,        \* bound: runs
          MaxDeaths,      \* bound: processes that die
          NoOne           \* no job

RunIds == 1..MaxRuns
Terminal == {"SUCCEEDED", "FAILED", "ABORTED"}
Kinds == {"harness_goal", "meta_publish", "other"}

ASSUME RegistryAssumption ==
    /\ KindOf \in [Jobs -> Kinds]
    /\ NeedsApproval \subseteq Jobs
    /\ Retries \in Nat /\ MaxCalls \in Nat /\ MaxRuns \in Nat /\ MaxDeaths \in Nat
    /\ NoOne \notin Jobs

VARIABLES
    disk,        \* jobs.json: whether it is JSON now, and what it holds
    pc,          \* where each caller is
    after,       \* where it goes once its write is done
    job, run,    \* the job it works on; the last run it started
    mine,        \* its copy of the job (get_job)
    list,        \* the list it is about to write
    result,      \* the status it is recording for its run
    left,        \* repetitions the scheduler still has
    via,         \* how the run was requested
    calls, deaths, runs, \* such requests, deaths, and run identifiers used
    begun,       \* history: the job each run was started for
    outcome,     \* history: how the work of each run ended
    granted,     \* history: the jobs approve_job was called for
    orphans,     \* history: the runs whose process died
    doubled,     \* history: jobs started while a run of theirs was unfinished
    misled,      \* history: an error left a request whose last run had not failed
    disturbed    \* history: two updates overlapped, or a process died in one

local == <<pc, after, job, run, mine, list, result, left, via>>
ghosts == <<begun, outcome, granted, orphans, doubled>>
vars == <<disk, local, calls, deaths, runs, ghosts, misled, disturbed>>

-----------------------------------------------------------------------------
(* What the file holds.  A job that is not in the list has status "none".  *)

RunStatus == {"none", "RUNNING"} \cup Terminal
JobRecord == [status: {"none", "PENDING", "PAUSED", "RUNNING"} \cup Terminal,
              approved: BOOLEAN, last: RunIds \cup {0}, runs: [RunIds -> RunStatus]]
NoJob == [status |-> "none", approved |-> FALSE, last |-> 0,
          runs |-> [r \in RunIds |-> "none"]]
NewJob(j) == [NoJob EXCEPT !.status = IF j \in NeedsApproval THEN "PAUSED" ELSE "PENDING"]
Nothing == [j \in Jobs |-> NoJob]

\* what approve_job, start_run and finish_run make of the job they copied
\* Mutant of Approved: a second approval takes the first one back.
ApprovedToggled(rec) ==
    [rec EXCEPT !.approved = ~@, !.status = IF @ = "PAUSED" THEN "PENDING" ELSE @]
Approved(rec) ==
    [rec EXCEPT !.approved = TRUE, !.status = IF @ = "PAUSED" THEN "PENDING" ELSE @]
StartOf(rec, r) ==
    [rec EXCEPT !.status = "RUNNING", !.last = r, !.runs[r] = "RUNNING"]
\* Mutants of EndOf: the last run of the job is finished, whichever ended; the
\* job and not the run; the run and not the job.
EndOfLast(rec, r, st) == [rec EXCEPT !.status = st, !.runs[rec.last] = st]
EndOfJob(rec, r, st) == [rec EXCEPT !.status = st]
EndOfRun(rec, r, st) == [rec EXCEPT !.runs[r] = st]
EndOf(rec, r, st) == [rec EXCEPT !.status = st, !.runs[r] = st]

\* list_jobs: a file that does not parse is an empty list
Read == IF disk.state = "json" THEN disk.jobs ELSE Nothing
Known(j) == Read[j].status # "none"

Init ==
    /\ disk = [state |-> "json", jobs |-> Nothing]
    /\ pc = [c \in Callers |-> "idle"]
    /\ after = [c \in Callers |-> "idle"]
    /\ job = [c \in Callers |-> NoOne]
    /\ run = [c \in Callers |-> 0]
    /\ mine = [c \in Callers |-> NoJob]
    /\ list = [c \in Callers |-> Nothing]
    /\ result = [c \in Callers |-> "none"]
    /\ left = [c \in Callers |-> 0]
    /\ via = [c \in Callers |-> "none"]
    /\ calls = 0 /\ deaths = 0 /\ runs = 0
    /\ begun = [r \in RunIds |-> NoOne]
    /\ outcome = [r \in RunIds |-> "none"]
    /\ granted = {} /\ orphans = {} /\ doubled = {}
    /\ misled = FALSE /\ disturbed = FALSE

-----------------------------------------------------------------------------
(* Updates and their ends.                                                 *)

Updating(c) == pc[c] \in {"merge", "write", "flush"}
\* c reads the file now: it overlaps every update that is under way
Notice(c) == disturbed' = (disturbed \/ \E d \in Callers \ {c} : Updating(d))

\* the request of c is over, and what the caller held is forgotten
Forget(c) ==
    /\ pc' = [pc EXCEPT ![c] = "idle"]
    /\ after' = [after EXCEPT ![c] = "idle"]
    /\ job' = [job EXCEPT ![c] = NoOne]
    /\ run' = [run EXCEPT ![c] = 0]
    /\ mine' = [mine EXCEPT ![c] = NoJob]
    /\ list' = [list EXCEPT ![c] = Nothing]
    /\ result' = [result EXCEPT ![c] = "none"]
    /\ left' = [left EXCEPT ![c] = 0]
    /\ via' = [via EXCEPT ![c] = "none"]

\* the request goes on at p
GoOn(c, p) ==
    /\ pc' = [pc EXCEPT ![c] = p]
    /\ UNCHANGED <<job, via>>

\* an exception leaves run_registered_job: the scheduler calls it again, or the
\* caller learns of it.  Which exception it is makes no difference to the
\* scheduler, and tells the caller nothing: a KeyError or a PermissionError of
\* the work is answered 404 or 403 like one of the registry.
Raise(c) ==
    /\ IF left[c] > 0
       THEN /\ GoOn(c, "start")
            /\ left' = [left EXCEPT ![c] = @ - 1]
            /\ result' = [result EXCEPT ![c] = "none"]
            /\ after' = [after EXCEPT ![c] = "idle"]
            /\ mine' = [mine EXCEPT ![c] = NoJob]
            /\ list' = [list EXCEPT ![c] = Nothing]
            /\ UNCHANGED run
       ELSE Forget(c)
    /\ misled' = (misled \/ (run[c] # 0 /\ outcome[run[c]] # "FAILED"))

\* finish_run raises: inside the try this starts the handler, which records a
\* failure; inside the handler the new exception leaves run_registered_job
FinishFails(c) ==
    IF result[c] # "FAILED"
    THEN /\ GoOn(c, "finish")
         /\ result' = [result EXCEPT ![c] = "FAILED"]
         /\ mine' = [mine EXCEPT ![c] = NoJob]
         /\ UNCHANGED <<after, run, list, left, misled>>
    ELSE Raise(c)

\* update_job replaces the job in the list as it is now; KeyError when gone
Merge(c) ==
    /\ pc[c] = "merge"
    /\ IF Known(job[c])
       THEN /\ GoOn(c, "write")
            /\ list' = [list EXCEPT ![c] = [Read EXCEPT ![job[c]] = mine[c]]]
            /\ mine' = [mine EXCEPT ![c] = NoJob]
            /\ UNCHANGED <<after, run, result, left, misled>>
       ELSE IF result[c] = "none" THEN Raise(c) ELSE FinishFails(c)
    /\ UNCHANGED <<disk, calls, deaths, runs, ghosts, disturbed>>

\* write_text opens the file, which empties it ...
Truncate(c) ==
    /\ pc[c] = "write"
    /\ GoOn(c, "flush")
    /\ disk' = [state |-> "empty", jobs |-> Nothing]
    /\ UNCHANGED <<after, run, mine, list, result, left, calls, deaths, runs, ghosts,
                   misled, disturbed>>

\* ... and writes from its start: what another wrote since it was emptied may
\* stick out behind a shorter text, and the file is no JSON any more
Flush(c) ==
    /\ pc[c] = "flush"
    /\ \/ disk' = [state |-> "json", jobs |-> list[c]]
       \/ disk.state # "empty" /\ disk' = [state |-> "mixed", jobs |-> Nothing]
    /\ CASE after[c] = "idle"  -> Forget(c) /\ UNCHANGED misled
         [] after[c] = "raise" -> Raise(c)
         [] OTHER -> /\ GoOn(c, after[c])
                     /\ list' = [list EXCEPT ![c] = Nothing]
                     /\ UNCHANGED <<after, run, mine, result, left, misled>>
    /\ UNCHANGED <<calls, deaths, runs, ghosts, disturbed>>

\* the process dies wherever it is
Crash(c) ==
    /\ pc[c] # "idle" /\ deaths < MaxDeaths
    /\ deaths' = deaths + 1
    /\ Forget(c)
    /\ orphans' = IF pc[c] \in {"started", "work", "finish"} THEN orphans \cup {run[c]}
                                                          ELSE orphans
    /\ disturbed' = (disturbed \/ Updating(c))
    /\ UNCHANGED <<disk, calls, runs, begun, outcome, granted, doubled, misled>>

-----------------------------------------------------------------------------
(* The requests.                                                           *)

\* create_job appends to the list it reads.  harness_run_goal goes on to run
\* the job it created, by way of the scheduler.
CreateJob(c, j, thenRun) ==
    /\ pc[c] = "idle"
    /\ ~Known(j) /\ j \notin granted /\ \A d \in Callers : job[d] # j
    /\ \A r \in RunIds : begun[r] # j
    /\ thenRun => KindOf[j] = "harness_goal" /\ j \notin NeedsApproval /\ calls < MaxCalls
    /\ pc' = [pc EXCEPT ![c] = "write"]
    /\ after' = [after EXCEPT ![c] = IF thenRun THEN "start" ELSE "idle"]
    /\ job' = [job EXCEPT ![c] = j]
    /\ via' = [via EXCEPT ![c] = IF thenRun THEN "mcp" ELSE "none"]
    /\ left' = [left EXCEPT ![c] = IF thenRun THEN Retries ELSE 0]
    /\ list' = [list EXCEPT ![c] = [Read EXCEPT ![j] = NewJob(j)]]
    /\ calls' = IF thenRun THEN calls + 1 ELSE calls
    /\ Notice(c)
    /\ UNCHANGED <<disk, run, mine, result, deaths, runs, ghosts, misled>>

\* approve_job; an unknown job is a KeyError, and nothing happens
ApproveJob(c, j) ==
    /\ pc[c] = "idle" /\ Known(j) /\ calls < MaxCalls
    /\ calls' = calls + 1
    /\ pc' = [pc EXCEPT ![c] = "merge"]
    /\ job' = [job EXCEPT ![c] = j]
    /\ mine' = [mine EXCEPT ![c] = Approved(Read[j])]
    /\ granted' = granted \cup {j}
    /\ Notice(c)
    /\ UNCHANGED <<disk, after, run, list, result, left, via, deaths, runs, begun,
                   outcome, orphans, doubled, misled>>

\* run_job_with_optional_prefect: the scheduler repeats a failed run.  A direct
\* call of run_registered_job may bring a publisher, and is not repeated.
RunJob(c, j, v) ==
    /\ pc[c] = "idle" /\ calls < MaxCalls
    /\ pc' = [pc EXCEPT ![c] = "start"]
    /\ job' = [job EXCEPT ![c] = j]
    /\ via' = [via EXCEPT ![c] = v]
    /\ left' = [left EXCEPT ![c] = IF v = "direct" THEN 0 ELSE Retries]
    /\ calls' = calls + 1
    /\ UNCHANGED <<disk, after, run, mine, list, result, deaths, runs, ghosts, misled, disturbed>>

-----------------------------------------------------------------------------
(* run_registered_job.                                                     *)

\* Mutant: the approval is not asked for.
MayStartAlways(j) == TRUE
MayStart(j) == j \in NeedsApproval => Read[j].approved
Unfinished(j) == \E r \in RunIds : Read[j].runs[r] = "RUNNING"

\* start_run asks whether the job is approved, and not whether it is running
StartRun(c) ==
    LET j == job[c]
        r == runs + 1
    IN
    /\ pc[c] = "start" /\ runs < MaxRuns
    /\ Notice(c)
    /\ IF Known(j) /\ MayStart(j)
       THEN /\ GoOn(c, "merge")
            /\ runs' = r
            /\ run' = [run EXCEPT ![c] = r]
            /\ begun' = [begun EXCEPT ![r] = j]
            /\ doubled' = IF Unfinished(j) THEN doubled \cup {j} ELSE doubled
            /\ mine' = [mine EXCEPT ![c] = StartOf(Read[j], r)]
            /\ after' = [after EXCEPT ![c] = "started"]
            /\ UNCHANGED <<list, result, left, misled>>
       ELSE /\ Raise(c)
            /\ UNCHANGED <<runs, begun, doubled>>
    /\ UNCHANGED <<disk, calls, deaths, outcome, granted, orphans>>

\* the job is read once more before the try: a KeyError here finishes no run
Started(c) ==
    /\ pc[c] = "started"
    /\ Notice(c)
    /\ IF Known(job[c])
       THEN GoOn(c, "work") /\ UNCHANGED <<after, run, mine, list, result, left, misled>>
       ELSE Raise(c)
    /\ UNCHANGED <<disk, calls, deaths, runs, ghosts>>

\* Mutant of Endings: the status of the loop is recorded as it stands.
EndingsRaw(k, v) == IF k = "harness_goal" THEN {"COMPLETED", "ABORTED", "FAILED"} ELSE {"FAILED"}

\* how the work of a run may end.  A goal run completes, aborts or raises; a
\* publish job without a publisher, and a kind nobody knows, raise.
Endings(k, v) ==
    CASE k = "harness_goal" -> {"SUCCEEDED", "ABORTED", "FAILED"}
      [] k = "meta_publish" -> IF v = "direct" THEN {"SUCCEEDED", "FAILED"} ELSE {"FAILED"}
      [] OTHER -> {"FAILED"}

Work(c) ==
    /\ pc[c] = "work"
    /\ GoOn(c, "finish")
    /\ \E e \in Endings(KindOf[job[c]], via[c]) :
         /\ result' = [result EXCEPT ![c] = e]
         /\ outcome' = [outcome EXCEPT ![run[c]] = e]
    /\ UNCHANGED <<disk, after, run, mine, list, left, calls, deaths, runs, begun, granted,
                   orphans, doubled, misled, disturbed>>

\* Mutant: the run is looked for in the place of the last one only.
HasRunLast(j, r) == Read[j].last = r
HasRun(j, r) == Read[j].runs[r] # "none"

\* finish_run; after a failure the exception is raised again, the work's own or
\* that of the first finish_run
FinishRun(c) ==
    LET j == job[c]
    IN
    /\ pc[c] = "finish"
    /\ Notice(c)
    /\ IF Known(j) /\ HasRun(j, run[c])
       THEN /\ GoOn(c, "merge")
            /\ mine' = [mine EXCEPT ![c] = EndOf(Read[j], run[c], result[c])]
            /\ after' = [after EXCEPT ![c] = IF result[c] = "FAILED" THEN "raise"
                                             ELSE IF via[c] = "mcp" THEN "reread" ELSE "idle"]
            /\ UNCHANGED <<run, list, result, left, misled>>
       ELSE FinishFails(c)
    /\ UNCHANGED <<disk, calls, deaths, runs, ghosts>>

\* the MCP tools answer with the job read again, outside the scheduler: a
\* KeyError is an error answer
Reread(c) ==
    /\ pc[c] = "reread"
    /\ Notice(c)
    /\ Forget(c)
    /\ misled' = (misled \/ ~Known(job[c]))
    /\ UNCHANGED <<disk, calls, deaths, runs, ghosts>>

-----------------------------------------------------------------------------
CallerStep(c) ==
    \/ Merge(c) \/ Truncate(c) \/ Flush(c)
    \/ StartRun(c) \/ Started(c) \/ Work(c) \/ FinishRun(c) \/ Reread(c)

Next ==
    \E c \in Callers :
       \/ CallerStep(c)
       \/ Crash(c)
       \/ \E j \in Jobs :
            \/ \E thenRun \in BOOLEAN : CreateJob(c, j, thenRun)
            \/ ApproveJob(c, j)
            \/ \E v \in {"api", "mcp", "direct"} : RunJob(c, j, v)

Spec == Init /\ [][Next]_vars

-----------------------------------------------------------------------------
(* Properties.                                                             *)

\* Every variable has its type.
TypeOK ==
    /\ disk \in [state: {"json", "empty", "mixed"}, jobs: [Jobs -> JobRecord]]
    /\ pc \in [Callers -> {"idle", "merge", "write", "flush", "start", "started",
                           "work", "finish", "reread"}]
    /\ after \in [Callers -> {"idle", "start", "started", "raise", "reread"}]
    /\ job \in [Callers -> Jobs \cup {NoOne}]
    /\ run \in [Callers -> RunIds \cup {0}]
    /\ mine \in [Callers -> JobRecord]
    /\ list \in [Callers -> [Jobs -> JobRecord]]
    /\ result \in [Callers -> {"none"} \cup Terminal]
    /\ left \in [Callers -> 0..Retries]
    /\ via \in [Callers -> {"none", "api", "mcp", "direct"}]
    /\ calls \in 0..MaxCalls /\ deaths \in 0..MaxDeaths /\ runs \in RunIds \cup {0}
    /\ begun \in [RunIds -> Jobs \cup {NoOne}]
    /\ outcome \in [RunIds -> {"none"} \cup Terminal]
    /\ granted \subseteq Jobs /\ orphans \subseteq RunIds /\ doubled \subseteq Jobs
    /\ misled \in BOOLEAN /\ disturbed \in BOOLEAN

\* A job that requires approval runs only after somebody approved it, whatever
\* updates overlap, get lost, or die half done: a copy of the registry that is
\* written back late never approves a job nobody approved (start_run).
OnlyApprovedRun ==
    \A r \in RunIds : begun[r] \in NeedsApproval => begun[r] \in granted

\* A run that is recorded as succeeded did succeed, also when overlapping
\* updates lose records; the converse holds for undisturbed updates only.
SuccessIsReal ==
    \A j \in Jobs, r \in RunIds :
       disk.jobs[j].runs[r] = "SUCCEEDED" => begun[r] = j /\ outcome[r] = "SUCCEEDED"

\* the run is being started, worked on or finished by a process that lives
Underway(r) == \E c \in Callers : run[c] = r /\ pc[c] \notin {"idle", "start", "reread"}

\* As long as no two updates overlap and no process dies in one, the registry
\* accounts for every run: it shows how the run ended, and RUNNING only while
\* somebody works on it or because its process died.
RegistryTells ==
    ~disturbed /\ disk.state = "json" =>
       \A r \in RunIds :
          begun[r] # NoOne /\ ~Underway(r) =>
             disk.jobs[begun[r]].runs[r] = IF r \in orphans THEN "RUNNING" ELSE outcome[r]

\* Likewise the status of a job is that of its last run, unless another run of
\* it was started before that one ended: start_run does not ask.
StatusIsLastRuns ==
    ~disturbed /\ disk.state = "json" =>
       \A j \in Jobs \ doubled :
          disk.jobs[j].last # 0 => disk.jobs[j].status = disk.jobs[j].runs[disk.jobs[j].last]

\* As long as updates do not overlap, an error of a request whose run was
\* started is the failure of that run: the scheduler repeats nothing, and tells
\* the caller of no error, when the work was done; a run of the same job beside
\* it, which is then its last one, makes no difference (finish_run).
FailureIsReal ==
    misled => disturbed

\* ... and an approval, once written, is not withdrawn by a run that copied the
\* job before: it is in the file as soon as its own update is done.
ApprovalKept ==
    ~disturbed /\ disk.state = "json" =>
       \A j \in granted :
          disk.jobs[j].approved \/ \E c \in Callers : job[c] = j /\ run[c] = 0 /\ Updating(c)
=============================================================================
