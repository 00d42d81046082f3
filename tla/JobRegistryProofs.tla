------------------------- MODULE JobRegistryProofs -------------------------
(***************************************************************************)
(* What holds of the job registry for any number of jobs, callers, calls,  *)
(* runs, deaths and repetitions: no run of a job that needs approval was   *)
(* begun before somebody approved it, and no run is recorded as succeeded  *)
(* that did not succeed.  Overlapping updates lose records, so the copies  *)
(* the callers hold matter as much as the file: the invariant says of      *)
(* every copy what it says of the file.  The second half is about what the *)
(* registry tells as long as no updates overlap and no process dies in     *)
(* one: how every run ended, what state every job is in, who approved it,  *)
(* and an error, once a run was started, only when that run failed.        *)
(***************************************************************************)
EXTENDS JobRegistry, TLAPS

(* Types.                                                                  *)

LocalsOK ==
    /\ pc \in [Callers -> {"idle", "merge", "write", "flush", "start", "started",
                           "work", "finish", "reread"}]
    /\ after \in [Callers -> {"idle", "start", "started", "raise", "reread"}]
    /\ job \in [Callers -> Jobs \cup {NoOne}]
    /\ run \in [Callers -> RunIds \cup {0}]
    /\ mine \in [Callers -> JobRecord]
    /\ list \in [Callers -> [Jobs -> JobRecord]]
    /\ result \in [Callers -> {"none"} \cup Terminal]
    /\ left \in [Callers -> 0..Retries]
    /\ via \in [Callers -> {"none", "api", "mcp", "direct"}]

SharedOK ==
    /\ disk \in [state: {"json", "empty", "mixed"}, jobs: [Jobs -> JobRecord]]
    /\ calls \in 0..MaxCalls /\ deaths \in 0..MaxDeaths /\ runs \in RunIds \cup {0}
    /\ begun \in [RunIds -> Jobs \cup {NoOne}]
    /\ outcome \in [RunIds -> {"none"} \cup Terminal]
    /\ granted \subseteq Jobs /\ orphans \subseteq RunIds /\ doubled \subseteq Jobs
    /\ misled \in BOOLEAN /\ disturbed \in BOOLEAN

LEMMA TypeParts == TypeOK <=> LocalsOK /\ SharedOK
BY DEF TypeOK, LocalsOK, SharedOK

\* The records the registry makes are job records.
LEMMA RecordTypes ==
    /\ NoJob \in JobRecord
    /\ \A j \in Jobs : NewJob(j) \in JobRecord
    /\ Nothing \in [Jobs -> JobRecord]
    /\ \A rec \in JobRecord : Approved(rec) \in JobRecord
    /\ \A rec \in JobRecord, r \in RunIds : StartOf(rec, r) \in JobRecord
    /\ \A rec \in JobRecord, r \in RunIds, st \in Terminal : EndOf(rec, r, st) \in JobRecord
<1>1. NoJob \in JobRecord
  BY DEF NoJob, JobRecord, RunStatus
<1>2. \A j \in Jobs : NewJob(j) \in JobRecord
  BY <1>1 DEF NewJob, JobRecord
<1>3. Nothing \in [Jobs -> JobRecord]
  BY <1>1 DEF Nothing
<1>4. \A rec \in JobRecord : Approved(rec) \in JobRecord
  BY DEF Approved, JobRecord
<1>5. \A rec \in JobRecord, r \in RunIds : StartOf(rec, r) \in JobRecord
  BY DEF StartOf, JobRecord, RunStatus
<1>6. \A rec \in JobRecord, r \in RunIds, st \in Terminal : EndOf(rec, r, st) \in JobRecord
  BY DEF EndOf, JobRecord, RunStatus
<1> QED BY <1>1, <1>2, <1>3, <1>4, <1>5, <1>6

LEMMA ReadType == SharedOK => Read \in [Jobs -> JobRecord]
BY RecordTypes DEF SharedOK, Read

LEMMA ForgetLocals ==
    ASSUME LocalsOK, NEW c \in Callers, Forget(c)
    PROVE  LocalsOK'
BY RecordTypes, RegistryAssumption DEF LocalsOK, Forget, Terminal

LEMMA RaiseLocals ==
    ASSUME LocalsOK, misled \in BOOLEAN, NEW c \in Callers, Raise(c)
    PROVE  LocalsOK' /\ misled' \in BOOLEAN
<1>1. CASE left[c] > 0
  <2>1. left[c] - 1 \in 0..Retries
    BY <1>1, RegistryAssumption DEF LocalsOK
  <2>2. left' \in [Callers -> 0..Retries]
    BY <1>1, <2>1 DEF LocalsOK, Raise
  <2>3. NoJob \in JobRecord /\ Nothing \in [Jobs -> JobRecord]
    BY RecordTypes
  <2>4. /\ pc' = [pc EXCEPT ![c] = "start"] /\ result' = [result EXCEPT ![c] = "none"]
        /\ after' = [after EXCEPT ![c] = "idle"] /\ mine' = [mine EXCEPT ![c] = NoJob]
        /\ list' = [list EXCEPT ![c] = Nothing]
        /\ UNCHANGED <<job, via, run>> /\ misled' \in BOOLEAN
    BY <1>1 DEF Raise, GoOn
  <2> QED BY <2>2, <2>3, <2>4 DEF LocalsOK
<1>2. CASE ~(left[c] > 0)
  BY <1>2, ForgetLocals DEF Raise
<1> QED BY <1>1, <1>2

LEMMA FinishFailsLocals ==
    ASSUME LocalsOK, misled \in BOOLEAN, NEW c \in Callers, FinishFails(c)
    PROVE  LocalsOK' /\ misled' \in BOOLEAN
<1>1. CASE result[c] # "FAILED"
  BY <1>1, RecordTypes DEF LocalsOK, FinishFails, GoOn, Terminal
<1>2. CASE ~(result[c] # "FAILED")
  BY <1>2, RaiseLocals DEF FinishFails
<1> QED BY <1>1, <1>2

-----------------------------------------------------------------------------
(* The invariant.                                                          *)

\* what is true of a copy of job j, given who approved what (g), what each run
\* was started for (b) and how it ended (o)
RecOk(rec, j, g, b, o) ==
    /\ rec.approved => j \in g
    /\ \A r \in RunIds : rec.runs[r] = "SUCCEEDED" => b[r] = j /\ o[r] = "SUCCEEDED"
TableOk(T, g, b, o) == \A j \in Jobs : RecOk(T[j], j, g, b, o)

\* the run of c was started and its work has not ended
Fresh(c) ==
    \/ pc[c] \in {"started", "work"}
    \/ after[c] = "started" /\ pc[c] \in {"merge", "write", "flush"}

CallerOK(c) ==
    /\ pc[c] # "idle" => job[c] \in Jobs
    /\ result[c] # "none" => run[c] \in RunIds
    /\ pc[c] = "finish" => result[c] # "none"
    /\ pc[c] \in {"started", "work"} => after[c] = "started"
    /\ pc[c] = "start" \/ after[c] = "start" => result[c] = "none"
    /\ Fresh(c) => run[c] \in RunIds /\ outcome[run[c]] = "none"
    /\ run[c] # 0 => begun[run[c]] = job[c] /\ run[c] <= runs
    /\ result[c] = "SUCCEEDED" => outcome[run[c]] = "SUCCEEDED"
    /\ after[c] = "raise" => result[c] = "FAILED"
    /\ pc[c] = "reread" \/ after[c] = "reread" => run[c] # 0
    /\ pc[c] = "idle" => run[c] = 0 /\ after[c] = "idle" /\ result[c] = "none" /\ mine[c] = NoJob
    /\ RecOk(mine[c], job[c], granted, begun, outcome)
    /\ TableOk(list[c], granted, begun, outcome)

SharedInv ==
    /\ TableOk(disk.jobs, granted, begun, outcome)
    /\ OnlyApprovedRun
    /\ \A r \in RunIds : r > runs => begun[r] = NoOne /\ outcome[r] = "none"
    /\ \A c, d \in Callers : run[c] = run[d] /\ run[c] # 0 => c = d

IInv == LocalsOK /\ SharedOK /\ SharedInv /\ \A c \in Callers : CallerOK(c)

\* Nothing that made a copy true is taken back by a step.
Kept ==
    /\ granted \subseteq granted'
    /\ \A r \in RunIds, j \in Jobs :
          begun[r] = j /\ outcome[r] = "SUCCEEDED" => begun'[r] = j /\ outcome'[r] = "SUCCEEDED"

LEMMA EmptyOk ==
    ASSUME NEW g, NEW b, NEW o
    PROVE  /\ \A j : RecOk(NoJob, j, g, b, o)
           /\ TableOk(Nothing, g, b, o)
           /\ \A j \in Jobs : RecOk(NewJob(j), j, g, b, o)
BY DEF RecOk, TableOk, NoJob, Nothing, NewJob

LEMMA RecKept ==
    ASSUME Kept, NEW rec, NEW j \in Jobs, RecOk(rec, j, granted, begun, outcome)
    PROVE  RecOk(rec, j, granted', begun', outcome')
BY DEF Kept, RecOk

LEMMA TableKept ==
    ASSUME Kept, NEW T, TableOk(T, granted, begun, outcome)
    PROVE  TableOk(T, granted', begun', outcome')
BY RecKept DEF TableOk

LEMMA ReadOk ==
    ASSUME NEW g, NEW b, NEW o, TableOk(disk.jobs, g, b, o)
    PROVE  TableOk(Read, g, b, o)
BY EmptyOk DEF Read

-----------------------------------------------------------------------------
(* A step of c leaves the locals of the others alone.                      *)

Same(d) ==
    /\ pc'[d] = pc[d] /\ after'[d] = after[d] /\ job'[d] = job[d] /\ run'[d] = run[d]
    /\ mine'[d] = mine[d] /\ list'[d] = list[d] /\ result'[d] = result[d]
Only(c) == \A d \in Callers \ {c} : Same(d)

LEMMA ForgetOnly ==
    ASSUME LocalsOK, NEW c \in Callers, Forget(c)
    PROVE  Only(c)
BY DEF LocalsOK, Forget, Only, Same

LEMMA RaiseOnly ==
    ASSUME LocalsOK, NEW c \in Callers, Raise(c)
    PROVE  Only(c)
<1>1. CASE left[c] > 0
  BY <1>1 DEF LocalsOK, Raise, GoOn, Only, Same
<1>2. CASE ~(left[c] > 0)
  BY <1>2, ForgetOnly DEF Raise
<1> QED BY <1>1, <1>2

LEMMA FinishFailsOnly ==
    ASSUME LocalsOK, NEW c \in Callers, FinishFails(c)
    PROVE  Only(c)
<1>1. CASE result[c] # "FAILED"
  BY <1>1 DEF LocalsOK, FinishFails, GoOn, Only, Same
<1>2. CASE ~(result[c] # "FAILED")
  BY <1>2, RaiseOnly DEF FinishFails
<1> QED BY <1>1, <1>2

\* Of another caller everything stays true, unless its own run's history changes.
LEMMA OthersOK ==
    ASSUME IInv, NEW d \in Callers, Same(d), Kept, runs <= runs', runs' \in Nat,
           run[d] # 0 => begun'[run[d]] = begun[run[d]] /\ outcome'[run[d]] = outcome[run[d]]
    PROVE  CallerOK(d)'
<1>0. LocalsOK /\ SharedOK /\ CallerOK(d)
  BY DEF IInv
<1>1. RecOk(mine[d], job[d], granted', begun', outcome')
  <2>1. CASE job[d] \in Jobs
    BY <1>0, <2>1, RecKept DEF CallerOK
  <2>2. CASE job[d] \notin Jobs
    BY <1>0, <2>2, EmptyOk DEF CallerOK
  <2> QED BY <2>1, <2>2
<1>2. TableOk(list[d], granted', begun', outcome')
  BY <1>0, TableKept DEF CallerOK
<1>3. run[d] \in RunIds \cup {0} /\ runs \in Nat /\ RunIds \subseteq Nat
  BY <1>0 DEF LocalsOK, SharedOK, RunIds
<1> QED BY <1>0, <1>1, <1>2, <1>3 DEF CallerOK, Same, Fresh, RunIds
-----------------------------------------------------------------------------
(* What the ways a request goes on, ends or fails do to its own caller.    *)

Quiet == UNCHANGED <<begun, outcome, granted, runs>>

LEMMA ForgetOK ==
    ASSUME LocalsOK, NEW c \in Callers, Forget(c)
    PROVE  CallerOK(c)' /\ run'[c] = 0
BY EmptyOk DEF LocalsOK, Forget, CallerOK, Fresh

LEMMA RaiseOK ==
    ASSUME LocalsOK, NEW c \in Callers, Raise(c), Quiet, CallerOK(c), pc[c] # "idle"
    PROVE  CallerOK(c)' /\ run'[c] \in {0, run[c]}
<1>1. CASE left[c] > 0
  <2>1. /\ pc'[c] = "start" /\ result'[c] = "none" /\ after'[c] = "idle" /\ mine'[c] = NoJob
        /\ list'[c] = Nothing /\ job' = job /\ run' = run
    BY <1>1 DEF Raise, GoOn, LocalsOK
  <2> QED BY <2>1, EmptyOk DEF CallerOK, Fresh, Quiet
<1>2. CASE ~(left[c] > 0)
  BY <1>2, ForgetOK DEF Raise
<1> QED BY <1>1, <1>2

LEMMA FinishFailsOK ==
    ASSUME LocalsOK, NEW c \in Callers, FinishFails(c), Quiet, CallerOK(c), pc[c] # "idle",
           result[c] # "none", pc[c] \in {"merge", "finish"}
    PROVE  CallerOK(c)' /\ run'[c] \in {0, run[c]}
<1>1. CASE result[c] # "FAILED"
  <2>1. /\ pc'[c] = "finish" /\ result'[c] = "FAILED" /\ after' = after /\ mine'[c] = NoJob
        /\ list' = list /\ job' = job /\ run' = run
    BY <1>1 DEF FinishFails, GoOn, LocalsOK
  <2> QED BY <2>1, EmptyOk DEF CallerOK, Fresh, Quiet
<1>2. CASE ~(result[c] # "FAILED")
  BY <1>2, RaiseOK DEF FinishFails
<1> QED BY <1>1, <1>2

\* A step of c that adds nothing to the history keeps the invariant if it keeps
\* it for c and for the file.
LEMMA QuietStep ==
    ASSUME IInv, NEW c \in Callers, Only(c), Quiet, LocalsOK', SharedOK',
           CallerOK(c)', run'[c] \in {0, run[c]},
           TableOk(disk'.jobs, granted, begun, outcome)
    PROVE  IInv'
<1>1. Kept /\ runs <= runs' /\ runs' \in Nat
  BY DEF Quiet, Kept, IInv, SharedOK, RunIds
<1>2. ASSUME NEW d \in Callers PROVE CallerOK(d)'
  <2>1. CASE d = c
    BY <2>1
  <2>2. CASE d # c
    BY <1>1, <2>2, OthersOK DEF Only, Quiet
  <2> QED BY <2>1, <2>2
<1>3. SharedInv'
  <2>1. TableOk(disk.jobs, granted, begun, outcome)'
    BY DEF Quiet
  <2>2. OnlyApprovedRun'
    BY DEF IInv, SharedInv, OnlyApprovedRun, Quiet
  <2>3. \A d, e \in Callers : run'[d] = run'[e] /\ run'[d] # 0 => d = e
    BY DEF IInv, SharedInv, Only, Same
  <2> QED BY <2>1, <2>2, <2>3 DEF IInv, SharedInv, Quiet
<1> QED BY <1>2, <1>3 DEF IInv
-----------------------------------------------------------------------------
(* The steps.                                                              *)

LEMMA MergeStep ==
    ASSUME IInv, NEW c \in Callers, Merge(c)
    PROVE  IInv'
<1>0. LocalsOK /\ SharedOK /\ CallerOK(c) /\ Quiet /\ pc[c] = "merge"
  BY DEF IInv, Merge, ghosts, Quiet
<1>1. job[c] \in Jobs /\ TableOk(disk'.jobs, granted, begun, outcome)
  BY <1>0 DEF IInv, SharedInv, CallerOK, Merge
<1>2. CASE Known(job[c])
  <2>1. /\ GoOn(c, "write") /\ mine' = [mine EXCEPT ![c] = NoJob]
        /\ list' = [list EXCEPT ![c] = [Read EXCEPT ![job[c]] = mine[c]]]
        /\ UNCHANGED <<after, run, result, left, misled>>
    BY <1>2 DEF Merge
  <2>2. [Read EXCEPT ![job[c]] = mine[c]] \in [Jobs -> JobRecord]
    BY <1>0, ReadType DEF LocalsOK
  <2>3. LocalsOK' /\ SharedOK'
    BY <1>0, <2>1, <2>2, RecordTypes DEF Merge, GoOn, LocalsOK, SharedOK, ghosts
  <2>4. Only(c)
    BY <1>0, <2>1 DEF GoOn, LocalsOK, Only, Same
  <2>5. TableOk([Read EXCEPT ![job[c]] = mine[c]], granted, begun, outcome)
    <3>1. TableOk(Read, granted, begun, outcome)
      BY ReadOk DEF IInv, SharedInv
    <3> QED BY <1>0, <3>1, ReadType DEF TableOk, CallerOK
  <2>6. /\ pc'[c] = "write" /\ mine'[c] = NoJob /\ job' = job /\ run' = run
        /\ after' = after /\ result' = result
        /\ list'[c] = [Read EXCEPT ![job[c]] = mine[c]]
    BY <1>0, <2>1 DEF GoOn, LocalsOK
  <2>7. CallerOK(c)'
    BY <1>0, <2>5, <2>6, EmptyOk DEF CallerOK, Fresh, Quiet
  <2> QED BY <1>0, <1>1, <2>3, <2>4, <2>6, <2>7, QuietStep
<1>3. CASE ~Known(job[c])
  <2>1. CASE result[c] = "none"
    <3>1. Raise(c)
      BY <1>3, <2>1 DEF Merge
    <3>2. LocalsOK' /\ misled' \in BOOLEAN
      BY <1>0, <3>1, RaiseLocals DEF SharedOK
    <3>3. SharedOK'
      BY <1>0, <3>2 DEF Merge, SharedOK, ghosts
    <3>4. Only(c)
      BY <1>0, <3>1, RaiseOnly
    <3>5. CallerOK(c)' /\ run'[c] \in {0, run[c]}
      BY <1>0, <3>1, RaiseOK
    <3> QED BY <1>0, <1>1, <3>2, <3>3, <3>4, <3>5, QuietStep
  <2>2. CASE result[c] # "none"
    <3>1. FinishFails(c)
      BY <1>3, <2>2 DEF Merge
    <3>2. LocalsOK' /\ misled' \in BOOLEAN
      BY <1>0, <3>1, FinishFailsLocals DEF SharedOK
    <3>3. SharedOK'
      BY <1>0, <3>2 DEF Merge, SharedOK, ghosts
    <3>4. Only(c)
      BY <1>0, <3>1, FinishFailsOnly
    <3>5. CallerOK(c)' /\ run'[c] \in {0, run[c]}
      BY <1>0, <2>2, <3>1, FinishFailsOK
    <3> QED BY <1>0, <1>1, <3>2, <3>3, <3>4, <3>5, QuietStep
  <2> QED BY <2>1, <2>2
<1> QED BY <1>2, <1>3

LEMMA TruncateStep ==
    ASSUME IInv, NEW c \in Callers, Truncate(c)
    PROVE  IInv'
<1>0. LocalsOK /\ SharedOK /\ CallerOK(c) /\ Quiet /\ pc[c] = "write"
  BY DEF IInv, Truncate, ghosts, Quiet
<1>1. TableOk(disk'.jobs, granted, begun, outcome)
  BY EmptyOk DEF Truncate
<1>2. LocalsOK' /\ SharedOK'
  BY <1>0, RecordTypes DEF Truncate, GoOn, LocalsOK, SharedOK, ghosts
<1>3. Only(c)
  BY <1>0 DEF Truncate, GoOn, LocalsOK, Only, Same
<1>4. pc'[c] = "flush" /\ UNCHANGED <<after, job, run, mine, list, result>>
  BY <1>0 DEF Truncate, GoOn, LocalsOK
<1>5. CallerOK(c)'
  BY <1>0, <1>4 DEF CallerOK, Fresh, Quiet
<1> QED BY <1>0, <1>1, <1>2, <1>3, <1>4, <1>5, QuietStep

LEMMA FlushStep ==
    ASSUME IInv, NEW c \in Callers, Flush(c)
    PROVE  IInv'
<1>0. LocalsOK /\ SharedOK /\ CallerOK(c) /\ Quiet /\ pc[c] = "flush"
  BY DEF IInv, Flush, ghosts, Quiet
<1>1. TableOk(disk'.jobs, granted, begun, outcome)
  BY <1>0, EmptyOk DEF Flush, CallerOK
<1>2. disk' \in [state: {"json", "empty", "mixed"}, jobs: [Jobs -> JobRecord]]
  BY <1>0, RecordTypes DEF Flush, LocalsOK
<1>3. LocalsOK' /\ misled' \in BOOLEAN /\ Only(c) /\ CallerOK(c)' /\ run'[c] \in {0, run[c]}
  <2>1. CASE after[c] = "idle"
    <3>1. Forget(c) /\ misled' \in BOOLEAN
      BY <1>0, <2>1 DEF Flush, SharedOK
    <3> QED BY <1>0, <3>1, ForgetLocals, ForgetOnly, ForgetOK
  <2>2. CASE after[c] = "raise"
    <3>1. Raise(c)
      BY <2>2 DEF Flush
    <3> QED BY <1>0, <3>1, RaiseLocals, RaiseOnly, RaiseOK DEF SharedOK
  <2>3. CASE after[c] \notin {"idle", "raise"}
    <3>1. /\ GoOn(c, after[c]) /\ list' = [list EXCEPT ![c] = Nothing]
          /\ UNCHANGED <<after, run, mine, result, left, misled>>
      BY <2>3 DEF Flush
    <3>2. LocalsOK' /\ misled' \in BOOLEAN
      BY <1>0, <2>3, <3>1, RecordTypes DEF GoOn, LocalsOK, SharedOK
    <3>3. Only(c)
      BY <1>0, <3>1 DEF GoOn, LocalsOK, Only, Same
    <3>4. pc'[c] = after[c] /\ list'[c] = Nothing /\ job' = job
      BY <1>0, <3>1 DEF GoOn, LocalsOK
    <3>5. after[c] \in {"start", "started", "reread"}
      BY <1>0, <2>3 DEF LocalsOK
    <3>6. CallerOK(c)'
      BY <1>0, <3>1, <3>4, <3>5, EmptyOk DEF CallerOK, Fresh, Quiet
    <3> QED BY <3>1, <3>2, <3>3, <3>6
  <2> QED BY <2>1, <2>2, <2>3
<1>4. SharedOK'
  BY <1>0, <1>2, <1>3 DEF Flush, SharedOK, ghosts
<1> QED BY <1>0, <1>1, <1>3, <1>4, QuietStep

LEMMA CrashStep ==
    ASSUME IInv, NEW c \in Callers, Crash(c)
    PROVE  IInv'
<1>0. LocalsOK /\ SharedOK /\ CallerOK(c) /\ Quiet /\ Forget(c) /\ disk' = disk
  BY DEF IInv, Crash, Quiet
<1>1. TableOk(disk'.jobs, granted, begun, outcome)
  BY <1>0 DEF IInv, SharedInv
<1>2. SharedOK'
  <2>1. deaths' \in 0..MaxDeaths
    BY <1>0, RegistryAssumption DEF Crash, SharedOK
  <2>2. orphans' \subseteq RunIds
    <3>1. pc[c] \in {"started", "work", "finish"} => run[c] \in RunIds
      BY <1>0 DEF CallerOK, Fresh
    <3> QED BY <1>0, <3>1 DEF Crash, SharedOK
  <2>3. disturbed' \in BOOLEAN
    BY <1>0 DEF Crash, SharedOK, Updating
  <2> QED BY <1>0, <2>1, <2>2, <2>3 DEF Crash, SharedOK
<1> QED BY <1>0, <1>1, <1>2, ForgetLocals, ForgetOnly, ForgetOK, QuietStep
LEMMA CreateStep ==
    ASSUME IInv, NEW c \in Callers, NEW j \in Jobs, NEW t \in BOOLEAN, CreateJob(c, j, t)
    PROVE  IInv'
<1>0. /\ LocalsOK /\ SharedOK /\ CallerOK(c) /\ Quiet /\ pc[c] = "idle" /\ disk' = disk
      /\ run' = run
  BY DEF IInv, CreateJob, Quiet, ghosts
<1>1. TableOk(disk'.jobs, granted, begun, outcome)
  BY <1>0 DEF IInv, SharedInv
<1>2. [Read EXCEPT ![j] = NewJob(j)] \in [Jobs -> JobRecord]
  BY <1>0, ReadType, RecordTypes
<1>3. LocalsOK'
  BY <1>0, <1>2, RegistryAssumption DEF CreateJob, LocalsOK
<1>4. SharedOK'
  BY <1>0, RegistryAssumption DEF CreateJob, SharedOK, ghosts, Notice, Updating
<1>5. Only(c)
  BY <1>0 DEF CreateJob, LocalsOK, Only, Same
<1>6. TableOk([Read EXCEPT ![j] = NewJob(j)], granted, begun, outcome)
  <2>1. TableOk(Read, granted, begun, outcome)
    BY ReadOk DEF IInv, SharedInv
  <2> QED BY <1>0, <2>1, ReadType, EmptyOk DEF TableOk
<1>7. run[c] = 0 /\ result[c] = "none" /\ mine[c] = NoJob
  BY <1>0 DEF CallerOK
<1>8. /\ pc'[c] = "write" /\ after'[c] \in {"start", "idle"} /\ job'[c] = j
      /\ list'[c] = [Read EXCEPT ![j] = NewJob(j)] /\ mine' = mine /\ result' = result
  BY <1>0 DEF CreateJob, LocalsOK
<1>9. CallerOK(c)'
  BY <1>0, <1>6, <1>7, <1>8, EmptyOk DEF CallerOK, Fresh, Quiet
<1> QED BY <1>0, <1>1, <1>3, <1>4, <1>5, <1>9, QuietStep

LEMMA RunStep ==
    ASSUME IInv, NEW c \in Callers, NEW j \in Jobs, NEW v \in {"api", "mcp", "direct"},
           RunJob(c, j, v)
    PROVE  IInv'
<1>0. /\ LocalsOK /\ SharedOK /\ CallerOK(c) /\ Quiet /\ pc[c] = "idle" /\ disk' = disk
      /\ run' = run
  BY DEF IInv, RunJob, Quiet, ghosts
<1>1. TableOk(disk'.jobs, granted, begun, outcome)
  BY <1>0 DEF IInv, SharedInv
<1>2. LocalsOK' /\ SharedOK'
  BY <1>0, RegistryAssumption DEF RunJob, LocalsOK, SharedOK, ghosts
<1>3. Only(c)
  BY <1>0 DEF RunJob, LocalsOK, Only, Same
<1>4. run[c] = 0 /\ result[c] = "none" /\ mine[c] = NoJob
  BY <1>0 DEF CallerOK
<1>5. pc'[c] = "start" /\ job'[c] = j /\ UNCHANGED <<after, mine, list, result>>
  BY <1>0 DEF RunJob, LocalsOK
<1>6. CallerOK(c)'
  BY <1>0, <1>4, <1>5, EmptyOk DEF CallerOK, Fresh, Quiet
<1> QED BY <1>0, <1>1, <1>2, <1>3, <1>6, QuietStep

LEMMA StartedStep ==
    ASSUME IInv, NEW c \in Callers, Started(c)
    PROVE  IInv'
<1>0. /\ LocalsOK /\ SharedOK /\ CallerOK(c) /\ Quiet /\ pc[c] = "started" /\ disk' = disk
  BY DEF IInv, Started, Quiet, ghosts
<1>1. TableOk(disk'.jobs, granted, begun, outcome)
  BY <1>0 DEF IInv, SharedInv
<1>2. LocalsOK' /\ misled' \in BOOLEAN /\ Only(c) /\ CallerOK(c)' /\ run'[c] \in {0, run[c]}
  <2>1. CASE Known(job[c])
    <3>1. GoOn(c, "work") /\ UNCHANGED <<after, run, mine, list, result, left, misled>>
      BY <2>1 DEF Started
    <3>2. LocalsOK' /\ misled' \in BOOLEAN
      BY <1>0, <3>1 DEF GoOn, LocalsOK, SharedOK
    <3>3. Only(c)
      BY <1>0, <3>1 DEF GoOn, LocalsOK, Only, Same
    <3>4. pc'[c] = "work" /\ job' = job
      BY <1>0, <3>1 DEF GoOn, LocalsOK
    <3>5. CallerOK(c)'
      BY <1>0, <3>1, <3>4 DEF CallerOK, Fresh, Quiet
    <3> QED BY <3>1, <3>2, <3>3, <3>5
  <2>2. CASE ~Known(job[c])
    <3>1. Raise(c)
      BY <2>2 DEF Started
    <3> QED BY <1>0, <3>1, RaiseLocals, RaiseOnly, RaiseOK DEF SharedOK
  <2> QED BY <2>1, <2>2
<1>3. SharedOK'
  BY <1>0, <1>2 DEF Started, SharedOK, ghosts, Notice, Updating
<1> QED BY <1>0, <1>1, <1>2, <1>3, QuietStep

LEMMA RereadStep ==
    ASSUME IInv, NEW c \in Callers, Reread(c)
    PROVE  IInv'
<1>0. /\ LocalsOK /\ SharedOK /\ CallerOK(c) /\ Quiet /\ Forget(c) /\ disk' = disk
  BY DEF IInv, Reread, Quiet, ghosts
<1>1. TableOk(disk'.jobs, granted, begun, outcome)
  BY <1>0 DEF IInv, SharedInv
<1>2. misled' \in BOOLEAN
  BY <1>0 DEF Reread, SharedOK
<1>3. SharedOK'
  BY <1>0, <1>2 DEF Reread, SharedOK, ghosts, Notice, Updating
<1> QED BY <1>0, <1>1, <1>3, ForgetLocals, ForgetOnly, ForgetOK, QuietStep

LEMMA FinishRunStep ==
    ASSUME IInv, NEW c \in Callers, FinishRun(c)
    PROVE  IInv'
<1>0. /\ LocalsOK /\ SharedOK /\ CallerOK(c) /\ Quiet /\ pc[c] = "finish" /\ disk' = disk
  BY DEF IInv, FinishRun, Quiet, ghosts
<1>1. TableOk(disk'.jobs, granted, begun, outcome)
  BY <1>0 DEF IInv, SharedInv
<1>2. run[c] \in RunIds /\ result[c] \in Terminal /\ job[c] \in Jobs /\ run[c] # 0
  BY <1>0 DEF CallerOK, LocalsOK, RunIds
<1>3. LocalsOK' /\ misled' \in BOOLEAN /\ Only(c) /\ CallerOK(c)' /\ run'[c] \in {0, run[c]}
  <2>1. CASE Known(job[c]) /\ HasRun(job[c], run[c])
    <3> DEFINE rec == EndOf(Read[job[c]], run[c], result[c])
               a == IF result[c] = "FAILED" THEN "raise"
                    ELSE IF via[c] = "mcp" THEN "reread" ELSE "idle"
    <3>1. /\ GoOn(c, "merge") /\ mine' = [mine EXCEPT ![c] = rec]
          /\ after' = [after EXCEPT ![c] = a] /\ UNCHANGED <<run, list, result, left, misled>>
      BY <2>1 DEF FinishRun
    <3>2. rec \in JobRecord
      BY <1>0, <1>2, ReadType, RecordTypes
    <3>3. RecOk(rec, job[c], granted, begun, outcome)
      <4>1. TableOk(Read, granted, begun, outcome)
        BY ReadOk DEF IInv, SharedInv
      <4>2. RecOk(Read[job[c]], job[c], granted, begun, outcome)
        BY <1>2, <4>1 DEF TableOk
      <4>3. Read[job[c]] \in JobRecord
        BY <1>0, <1>2, ReadType
      <4>4. result[c] = "SUCCEEDED" => begun[run[c]] = job[c] /\ outcome[run[c]] = "SUCCEEDED"
        BY <1>0, <1>2 DEF CallerOK
      <4> QED BY <1>2, <4>2, <4>3, <4>4 DEF RecOk, EndOf, JobRecord
    <3> HIDE DEF rec, a
    <3>a. a \in {"raise", "reread", "idle"} /\ (a = "raise" => result[c] = "FAILED")
      BY DEF a
    <3>4. LocalsOK' /\ misled' \in BOOLEAN
      BY <1>0, <3>1, <3>2, <3>a DEF GoOn, LocalsOK, SharedOK
    <3>5. Only(c)
      BY <1>0, <3>1 DEF GoOn, LocalsOK, Only, Same
    <3>6. pc'[c] = "merge" /\ after'[c] = a /\ mine'[c] = rec /\ job' = job
      BY <1>0, <3>1 DEF GoOn, LocalsOK
    <3>7. CallerOK(c)'
      BY <1>0, <1>2, <3>1, <3>3, <3>6, <3>a DEF CallerOK, Fresh, Quiet
    <3> QED BY <3>1, <3>4, <3>5, <3>7
  <2>2. CASE ~(Known(job[c]) /\ HasRun(job[c], run[c]))
    <3>1. FinishFails(c)
      BY <2>2 DEF FinishRun
    <3>2. result[c] # "none"
      BY <1>2 DEF Terminal
    <3> QED BY <1>0, <3>1, <3>2, FinishFailsLocals, FinishFailsOnly, FinishFailsOK DEF SharedOK
  <2> QED BY <2>1, <2>2
<1>4. SharedOK'
  BY <1>0, <1>3 DEF FinishRun, SharedOK, ghosts, Notice, Updating
<1> QED BY <1>0, <1>1, <1>3, <1>4, QuietStep
\* The three steps that add to the history.

LEMMA ApproveStep ==
    ASSUME IInv, NEW c \in Callers, NEW j \in Jobs, ApproveJob(c, j)
    PROVE  IInv'
<1>0. LocalsOK /\ SharedOK /\ CallerOK(c) /\ pc[c] = "idle"
  BY DEF IInv, ApproveJob
<1>1. /\ UNCHANGED <<disk, begun, outcome, runs, run>> /\ granted' = granted \cup {j}
  BY DEF ApproveJob
<1>2. Kept /\ runs <= runs' /\ runs' \in Nat
  BY <1>0, <1>1 DEF Kept, SharedOK, RunIds
<1>3. Approved(Read[j]) \in JobRecord
  BY <1>0, ReadType, RecordTypes
<1>4. LocalsOK' /\ SharedOK'
  BY <1>0, <1>3, RegistryAssumption DEF ApproveJob, LocalsOK, SharedOK, Notice, Updating
<1>5. RecOk(Approved(Read[j]), j, granted', begun', outcome')
  <2>1. TableOk(Read, granted, begun, outcome)
    BY ReadOk DEF IInv, SharedInv
  <2>2. Read[j] \in JobRecord
    BY <1>0, ReadType
  <2> QED BY <1>1, <2>1, <2>2 DEF TableOk, RecOk, Approved, JobRecord
<1>6. /\ pc'[c] = "merge" /\ job'[c] = j /\ mine'[c] = Approved(Read[j])
      /\ UNCHANGED <<after, list, result>>
  BY <1>0 DEF ApproveJob, LocalsOK
<1>7. TableOk(list[c], granted', begun', outcome') /\ TableOk(disk.jobs, granted', begun', outcome')
  BY <1>0, <1>2, TableKept DEF CallerOK, IInv, SharedInv
<1>8. ASSUME NEW d \in Callers PROVE CallerOK(d)'
  <2>1. CASE d = c
    <3>1. run[c] = 0 /\ result[c] = "none" /\ ~Fresh(c)'
      BY <1>0, <1>6 DEF CallerOK, Fresh
    <3> QED BY <1>0, <1>1, <1>5, <1>6, <1>7, <2>1, <3>1 DEF CallerOK
  <2>2. CASE d # c
    <3>1. Same(d)
      BY <1>0, <1>1, <2>2 DEF ApproveJob, LocalsOK, Same
    <3> QED BY <1>1, <1>2, <3>1, OthersOK
  <2> QED BY <2>1, <2>2
<1>9. SharedInv'
  BY <1>1, <1>7 DEF IInv, SharedInv, OnlyApprovedRun
<1> QED BY <1>4, <1>8, <1>9 DEF IInv
LEMMA WorkStep ==
    ASSUME IInv, NEW c \in Callers, Work(c)
    PROVE  IInv'
<1>0. LocalsOK /\ SharedOK /\ CallerOK(c) /\ pc[c] = "work"
  BY DEF IInv, Work
<1>1. run[c] \in RunIds /\ outcome[run[c]] = "none" /\ run[c] # 0 /\ begun[run[c]] = job[c]
  BY <1>0 DEF CallerOK, Fresh, RunIds
<1>2. PICK e \in Terminal : /\ result' = [result EXCEPT ![c] = e]
                            /\ outcome' = [outcome EXCEPT ![run[c]] = e]
  BY DEF Work, Endings, Terminal
<1>3. /\ UNCHANGED <<disk, after, job, run, mine, list, left, via, begun, granted, runs>>
      /\ pc' = [pc EXCEPT ![c] = "finish"]
  BY DEF Work, GoOn
<1>4. LocalsOK' /\ SharedOK'
  BY <1>0, <1>1, <1>2, <1>3 DEF Work, LocalsOK, SharedOK, Terminal
<1>5. Kept /\ runs <= runs' /\ runs' \in Nat
  BY <1>0, <1>1, <1>2, <1>3 DEF Kept, SharedOK, RunIds
<1>6. TableOk(list[c], granted', begun', outcome') /\ TableOk(disk.jobs, granted', begun', outcome')
  BY <1>0, <1>5, TableKept DEF CallerOK, IInv, SharedInv
<1>7. RecOk(mine[c], job[c], granted', begun', outcome')
  BY <1>0, <1>5, RecKept DEF CallerOK
<1>8. ASSUME NEW d \in Callers PROVE CallerOK(d)'
  <2>1. CASE d = c
    <3>1. /\ pc'[c] = "finish" /\ result'[c] = e /\ outcome'[run[c]] = e /\ e # "none"
          /\ mine'[c] = mine[c] /\ list'[c] = list[c]
      BY <1>0, <1>1, <1>2, <1>3 DEF LocalsOK, SharedOK, Terminal
    <3> QED BY <1>0, <1>1, <1>3, <1>6, <1>7, <2>1, <3>1 DEF CallerOK, Fresh
  <2>2. CASE d # c
    <3>1. Same(d)
      BY <1>0, <1>2, <1>3, <2>2 DEF LocalsOK, Same
    <3>2. run[d] # 0 => begun'[run[d]] = begun[run[d]] /\ outcome'[run[d]] = outcome[run[d]]
      BY <1>0, <1>1, <1>2, <1>3, <2>2 DEF IInv, SharedInv, LocalsOK, SharedOK
    <3> QED BY <1>5, <3>1, <3>2, OthersOK
  <2> QED BY <2>1, <2>2
<1>9. SharedInv'
  <2>1. \A r \in RunIds : r > runs => r # run[c]
    BY <1>0, <1>1 DEF CallerOK, SharedOK, RunIds
  <2>2. \A r \in RunIds : r > runs' => begun'[r] = NoOne /\ outcome'[r] = "none"
    BY <1>0, <1>2, <1>3, <2>1 DEF IInv, SharedInv, SharedOK
  <2>3. OnlyApprovedRun'
    BY <1>3 DEF IInv, SharedInv, OnlyApprovedRun
  <2>4. \A d, f \in Callers : run'[d] = run'[f] /\ run'[d] # 0 => d = f
    BY <1>3 DEF IInv, SharedInv
  <2> QED BY <1>3, <1>6, <2>2, <2>3, <2>4 DEF SharedInv
<1> QED BY <1>4, <1>8, <1>9 DEF IInv

LEMMA StartRunStep ==
    ASSUME IInv, NEW c \in Callers, StartRun(c)
    PROVE  IInv'
<1>0. /\ LocalsOK /\ SharedOK /\ CallerOK(c) /\ pc[c] = "start" /\ disk' = disk
      /\ UNCHANGED <<outcome, granted>>
  BY DEF IInv, StartRun
<1>1. disturbed' \in BOOLEAN
  BY <1>0 DEF StartRun, Notice, Updating, SharedOK
<1>2. CASE ~(Known(job[c]) /\ MayStart(job[c]))
  <2>1. Quiet /\ Raise(c)
    BY <1>2 DEF StartRun, Quiet
  <2>2. TableOk(disk'.jobs, granted, begun, outcome)
    BY <1>0 DEF IInv, SharedInv
  <2>3. LocalsOK' /\ misled' \in BOOLEAN /\ Only(c) /\ CallerOK(c)' /\ run'[c] \in {0, run[c]}
    BY <1>0, <2>1, RaiseLocals, RaiseOnly, RaiseOK DEF SharedOK
  <2>4. SharedOK'
    BY <1>0, <1>1, <1>2, <2>3 DEF StartRun, SharedOK
  <2> QED BY <2>1, <2>2, <2>3, <2>4, QuietStep
<1>3. CASE Known(job[c]) /\ MayStart(job[c])
  <2> DEFINE j == job[c]
             r == runs + 1
  <2>1. /\ j \in Jobs /\ r \in RunIds /\ r # 0 /\ runs \in Nat /\ begun[r] = NoOne
        /\ outcome[r] = "none"
    <3>1. j \in Jobs /\ r \in RunIds /\ r # 0 /\ runs \in Nat /\ r > runs
      BY <1>0, RegistryAssumption DEF StartRun, CallerOK, SharedOK, RunIds
    <3> QED BY <3>1 DEF IInv, SharedInv
  <2>2. /\ GoOn(c, "merge") /\ runs' = r /\ run' = [run EXCEPT ![c] = r]
        /\ begun' = [begun EXCEPT ![r] = j]
        /\ mine' = [mine EXCEPT ![c] = StartOf(Read[j], r)]
        /\ after' = [after EXCEPT ![c] = "started"]
        /\ UNCHANGED <<list, result, left, misled>>
    BY <1>3 DEF StartRun
  <2>3. Read[j] \in JobRecord /\ StartOf(Read[j], r) \in JobRecord
    BY <1>0, <2>1, ReadType, RecordTypes
  <2>4. LocalsOK'
    BY <1>0, <2>1, <2>2, <2>3 DEF GoOn, LocalsOK
  <2>5. SharedOK'
    BY <1>0, <1>1, <1>3, <2>1, <2>2 DEF StartRun, SharedOK
  <2>6. Kept /\ runs <= runs' /\ runs' \in Nat
    <3>1. \A q \in RunIds, i \in Jobs : begun[q] = i => begun'[q] = i
      BY <1>0, <2>1, <2>2, RegistryAssumption DEF SharedOK
    <3> QED BY <1>0, <2>1, <2>2, <3>1 DEF Kept
  <2>7. TableOk(list[c], granted', begun', outcome') /\ TableOk(disk.jobs, granted', begun', outcome')
    BY <1>0, <2>6, TableKept DEF CallerOK, IInv, SharedInv
  <2>8. TableOk(Read, granted, begun, outcome)
    BY ReadOk DEF IInv, SharedInv
  <2>9. RecOk(StartOf(Read[j], r), j, granted', begun', outcome')
    <3>1. RecOk(Read[j], j, granted', begun', outcome')
      BY <2>1, <2>6, <2>8, RecKept DEF TableOk
    <3> QED BY <2>1, <2>3, <3>1 DEF RecOk, StartOf, JobRecord
  <2>10. result[c] = "none"
    BY <1>0 DEF CallerOK
  <2>11. ASSUME NEW d \in Callers PROVE CallerOK(d)'
    <3>1. CASE d = c
      <4>1. /\ pc'[c] = "merge" /\ run'[c] = r /\ begun'[r] = j /\ job' = job
            /\ mine'[c] = StartOf(Read[j], r) /\ outcome' = outcome
        BY <1>0, <2>1, <2>2 DEF GoOn, LocalsOK, SharedOK
      <4> QED BY <1>0, <2>1, <2>2, <2>7, <2>9, <2>10, <3>1, <4>1 DEF CallerOK, Fresh
    <3>2. CASE d # c
      <4>1. Same(d)
        BY <1>0, <2>2, <3>2 DEF GoOn, LocalsOK, Same
      <4>2. run[d] # 0 => run[d] # r
        BY <2>1 DEF IInv, CallerOK, LocalsOK, RunIds
      <4> QED BY <1>0, <2>2, <2>6, <4>1, <4>2, OthersOK DEF SharedOK, IInv, LocalsOK
    <3> QED BY <3>1, <3>2
  <2>12. SharedInv'
    <3>1. OnlyApprovedRun'
      <4>1. j \in NeedsApproval => j \in granted
        BY <1>3, <2>1, <2>8 DEF MayStart, TableOk, RecOk
      <4> QED BY <1>0, <2>1, <2>2, <4>1 DEF IInv, SharedInv, OnlyApprovedRun, SharedOK
    <3>2. \A q \in RunIds : q > runs' => begun'[q] = NoOne /\ outcome'[q] = "none"
      BY <1>0, <2>1, <2>2 DEF IInv, SharedInv, SharedOK, RunIds
    <3>3. \A d, f \in Callers : run'[d] = run'[f] /\ run'[d] # 0 => d = f
      <4>1. \A d \in Callers : run[d] # r
        BY <2>1 DEF IInv, CallerOK, LocalsOK, RunIds
      <4> QED BY <1>0, <2>2, <4>1 DEF IInv, SharedInv, LocalsOK
    <3> QED BY <1>0, <2>7, <3>1, <3>2, <3>3 DEF SharedInv
  <2> QED BY <2>4, <2>5, <2>11, <2>12 DEF IInv
<1> QED BY <1>2, <1>3

-----------------------------------------------------------------------------
LEMMA InitInv == Init => IInv
<1> SUFFICES ASSUME Init PROVE IInv
  OBVIOUS
<1>0. NoJob \in JobRecord /\ Nothing \in [Jobs -> JobRecord]
  BY RecordTypes
<1>n. 0 \in 0..MaxCalls /\ 0 \in 0..MaxDeaths /\ 0 \in 0..Retries
  BY RegistryAssumption
<1>a. LocalsOK
  BY <1>0, <1>n DEF Init, LocalsOK
<1>b. SharedOK
  BY <1>0, <1>n DEF Init, SharedOK
<1>1. LocalsOK /\ SharedOK
  BY <1>a, <1>b
<1>2. SharedInv
  BY EmptyOk, RegistryAssumption DEF Init, SharedInv, OnlyApprovedRun
<1>3. \A c \in Callers : CallerOK(c)
  BY EmptyOk DEF Init, CallerOK, Fresh
<1> QED BY <1>1, <1>2, <1>3 DEF IInv

LEMMA StepInv == IInv /\ [Next]_vars => IInv'
<1> SUFFICES ASSUME IInv, [Next]_vars PROVE IInv'
  OBVIOUS
<1>1. ASSUME NEW c \in Callers, CallerStep(c) PROVE IInv'
  BY <1>1, MergeStep, TruncateStep, FlushStep, StartRunStep, StartedStep, WorkStep,
     FinishRunStep, RereadStep DEF CallerStep
<1>2. ASSUME NEW c \in Callers, Crash(c) PROVE IInv'
  BY <1>2, CrashStep
<1>3. ASSUME NEW c \in Callers, NEW j \in Jobs, NEW t \in BOOLEAN, CreateJob(c, j, t)
      PROVE  IInv'
  BY <1>3, CreateStep
<1>4. ASSUME NEW c \in Callers, NEW j \in Jobs, ApproveJob(c, j) PROVE IInv'
  BY <1>4, ApproveStep
<1>5. ASSUME NEW c \in Callers, NEW j \in Jobs, NEW v \in {"api", "mcp", "direct"},
             RunJob(c, j, v)
      PROVE  IInv'
  BY <1>5, RunStep
<1>6. CASE UNCHANGED vars
  BY <1>6 DEF vars, local, ghosts, IInv, LocalsOK, SharedOK, SharedInv, OnlyApprovedRun,
     CallerOK, Fresh
<1> QED BY <1>1, <1>2, <1>3, <1>4, <1>5, <1>6 DEF Next

LEMMA Invariance == Spec => []IInv
BY InitInv, StepInv, PTL DEF Spec

\* Every variable of the registry has its type, whatever the bounds.
THEOREM RegistryTypes == Spec => []TypeOK
<1>1. IInv => TypeOK
  BY TypeParts DEF IInv
<1> QED BY <1>1, Invariance, PTL

\* No run of a job that requires approval is begun before somebody approved the
\* job: no overlap of updates, lost record or death of a process grants one.
THEOREM ApprovalComesFirst == Spec => []OnlyApprovedRun
<1>1. IInv => OnlyApprovedRun
  BY DEF IInv, SharedInv
<1> QED BY <1>1, Invariance, PTL

\* A run recorded as succeeded was a run of that job, and it did succeed.
THEOREM SuccessesAreReal == Spec => []SuccessIsReal
<1>1. IInv => SuccessIsReal
  BY DEF IInv, SharedInv, SuccessIsReal, TableOk, RecOk
<1> QED BY <1>1, Invariance, PTL

-----------------------------------------------------------------------------
(* What the registry tells of the past, while updates do not overlap.      *)

\* The runs whose entry still says RUNNING: somebody works on them, or their
\* process died.
Working(c) == pc[c] \in {"started", "work", "finish"}
Open == orphans \cup {run[c] : c \in {d \in Callers : Working(d)}}

\* What a list T tells, given what each run was begun for (b), how it ended (o),
\* the jobs that were approved (g) and those that had two runs at once (w), but
\* for the runs X and the jobs A that an update under way is about.  O are the
\* runs still open.
RunsTold(T, X, O, b, o) ==
    \A r \in RunIds \ X : b[r] \in Jobs =>
        T[b[r]].runs[r] = IF r \in O THEN "RUNNING" ELSE o[r]
JobsTold(T, b) ==
    \A r \in RunIds : b[r] \in Jobs =>
        /\ T[b[r]].status # "none"
        /\ b[r] \in NeedsApproval => T[b[r]].approved
ApprovalsTold(T, A, g) == \A j \in g \ A : T[j].approved
StatusTold(T, w) ==
    \A j \in Jobs \ w :
        /\ T[j].last # 0 => T[j].status = T[j].runs[T[j].last]
        /\ \A r \in RunIds : T[j].runs[r] = "RUNNING" => T[j].last = r
Accounts(T, X, A, O, b, o, g, w) ==
    /\ RunsTold(T, X, O, b, o)
    /\ JobsTold(T, b)
    /\ ApprovalsTold(T, A, g)
    /\ StatusTold(T, w)

\* The runs, and the jobs being approved, that updates under way are about.
Changing == {run[c] : c \in {d \in Callers : Updating(d)}}
Approving == {job[c] : c \in {d \in Callers : Updating(d) /\ run[d] = 0}}

\* The copy that c is about to put into the list: the job as the file has it,
\* approved, started or ended.
ToApprove(c) ==
    /\ run[c] = 0 /\ result[c] = "none" /\ after[c] = "idle"
    /\ mine[c] = Approved(Read[job[c]])
ToStart(c) ==
    /\ run[c] # 0 /\ result[c] = "none" /\ after[c] = "started"
    /\ mine[c] = StartOf(Read[job[c]], run[c])
    /\ Unfinished(job[c]) => job[c] \in doubled
ToEnd(c) ==
    /\ run[c] # 0 /\ result[c] # "none" /\ after[c] \in {"idle", "raise", "reread"}
    /\ mine[c] = EndOf(Read[job[c]], run[c], result[c])
    /\ Read[job[c]].runs[run[c]] = "RUNNING"
MergeTells(c) ==
    pc[c] = "merge" => Known(job[c]) /\ (ToApprove(c) \/ ToStart(c) \/ ToEnd(c))

\* The list that c is about to write, with its run as it then is.
OpenNext(c) == IF after[c] = "started" THEN Open \cup {run[c]} ELSE Open
ListTells(c) ==
    pc[c] \in {"write", "flush"} =>
        Accounts(list[c], {}, {}, OpenNext(c), begun, outcome, granted, doubled)

CallerTells(c) ==
    /\ result[c] # "none" => outcome[run[c]] = result[c]
    /\ run[c] \notin orphans
    /\ MergeTells(c)
    /\ ListTells(c)

Tells ==
    /\ \A c, d \in Callers : Updating(c) /\ Updating(d) => c = d
    /\ disk.state = IF \E c \in Callers : pc[c] = "flush" THEN "empty" ELSE "json"
    /\ disk.state = "json" =>
          Accounts(disk.jobs, Changing, Approving, Open, begun, outcome, granted, doubled)
    /\ \A r \in orphans : r <= runs
    /\ \A c \in Callers : CallerTells(c)
    /\ ~misled

\* The invariant: on top of IInv, and until an update is disturbed.
TInv == ~disturbed => Tells

-----------------------------------------------------------------------------
(* What the changes of a job make of the list.                             *)

\* Exempting more runs and jobs takes nothing away.
LEMMA AccountsKept ==
    ASSUME NEW T, NEW X, NEW A, NEW O, NEW X2, NEW A2, NEW O2, NEW b, NEW o, NEW o2,
           NEW g, NEW g2, NEW w, NEW w2, Accounts(T, X, A, O, b, o, g, w),
           X \cap RunIds \subseteq X2, g2 \ A2 \subseteq g \ A, w \subseteq w2,
           \A r \in RunIds \ X2 : r \in O <=> r \in O2,
           \A r \in RunIds \ X2 : r \notin O => o2[r] = o[r]
    PROVE  Accounts(T, X2, A2, O2, b, o2, g2, w2)
<1>1. RunsTold(T, X2, O2, b, o2)
  BY DEF Accounts, RunsTold
<1> QED BY <1>1 DEF Accounts, JobsTold, ApprovalsTold, StatusTold

LEMMA AccountsApproved ==
    ASSUME NEW T \in [Jobs -> JobRecord], NEW j \in Jobs, NEW X, NEW O, NEW b, NEW o,
           NEW g \in SUBSET Jobs, NEW w, X \cap RunIds = {},
           Accounts(T, X, {j}, O, b, o, g, w)
    PROVE  Accounts([T EXCEPT ![j] = Approved(T[j])], {}, {}, O, b, o, g, w)
<1> DEFINE U == [T EXCEPT ![j] = Approved(T[j])]
<1>1. /\ U[j].runs = T[j].runs /\ U[j].approved = TRUE /\ U[j].last = T[j].last
      /\ U[j].status = IF T[j].status = "PAUSED" THEN "PENDING" ELSE T[j].status
      /\ \A i \in Jobs \ {j} : U[i] = T[i]
  BY DEF Approved, JobRecord
<1> HIDE DEF U
<1>2. RunsTold(U, {}, O, b, o) /\ JobsTold(U, b)
  BY <1>1 DEF Accounts, RunsTold, JobsTold
<1>3. ApprovalsTold(U, {}, g)
  BY <1>1 DEF Accounts, ApprovalsTold
<1>4. StatusTold(U, w)
  <2>1. \A r \in RunIds : T[j].runs[r] # "PAUSED"
    BY DEF JobRecord, RunStatus, Terminal
  <2>2. T[j].last \in RunIds \cup {0}
    BY DEF JobRecord
  <2> QED BY <1>1, <2>1, <2>2 DEF Accounts, StatusTold
<1> QED BY <1>2, <1>3, <1>4 DEF Accounts, U

LEMMA AccountsStarted ==
    ASSUME NEW T \in [Jobs -> JobRecord], NEW j \in Jobs, NEW r \in RunIds, NEW O, NEW b,
           NEW o, NEW g \in SUBSET Jobs, NEW w, b[r] = j,
           (\E q \in RunIds : T[j].runs[q] = "RUNNING") => j \in w,
           Accounts(T, {r}, {}, O, b, o, g, w)
    PROVE  Accounts([T EXCEPT ![j] = StartOf(T[j], r)], {}, {}, O \cup {r}, b, o, g, w)
<1> DEFINE U == [T EXCEPT ![j] = StartOf(T[j], r)]
<1>1. /\ U[j].runs[r] = "RUNNING" /\ U[j].approved = T[j].approved /\ U[j].last = r
      /\ \A q \in RunIds \ {r} : U[j].runs[q] = T[j].runs[q]
      /\ U[j].status = "RUNNING"
      /\ \A i \in Jobs \ {j} : U[i] = T[i]
  BY DEF StartOf, JobRecord
<1> HIDE DEF U
<1>2. RunsTold(U, {}, O \cup {r}, b, o)
  BY <1>1 DEF Accounts, RunsTold
<1>3. JobsTold(U, b) /\ ApprovalsTold(U, {}, g)
  BY <1>1 DEF Accounts, JobsTold, ApprovalsTold
<1>4. StatusTold(U, w)
  BY <1>1 DEF Accounts, StatusTold
<1> QED BY <1>2, <1>3, <1>4 DEF Accounts, U

LEMMA AccountsEnded ==
    ASSUME NEW T \in [Jobs -> JobRecord], NEW j \in Jobs, NEW r \in RunIds, NEW O, NEW b,
           NEW o, NEW g \in SUBSET Jobs, NEW w, NEW st \in Terminal, b[r] = j, o[r] = st,
           r \notin O, T[j].runs[r] = "RUNNING",
           Accounts(T, {r}, {}, O, b, o, g, w)
    PROVE  Accounts([T EXCEPT ![j] = EndOf(T[j], r, st)], {}, {}, O, b, o, g, w)
<1> DEFINE U == [T EXCEPT ![j] = EndOf(T[j], r, st)]
<1>1. /\ U[j].runs[r] = st /\ U[j].approved = T[j].approved /\ U[j].last = T[j].last
      /\ \A q \in RunIds \ {r} : U[j].runs[q] = T[j].runs[q]
      /\ U[j].status = st /\ st # "RUNNING" /\ st # "none"
      /\ \A i \in Jobs \ {j} : U[i] = T[i]
  BY DEF EndOf, JobRecord, Terminal
<1> HIDE DEF U
<1>2. RunsTold(U, {}, O, b, o)
  BY <1>1 DEF Accounts, RunsTold
<1>3. JobsTold(U, b) /\ ApprovalsTold(U, {}, g)
  BY <1>1 DEF Accounts, JobsTold, ApprovalsTold
<1>4. StatusTold(U, w)
  BY <1>1 DEF Accounts, StatusTold
<1> QED BY <1>2, <1>3, <1>4 DEF Accounts, U

LEMMA AccountsCreated ==
    ASSUME NEW T \in [Jobs -> JobRecord], NEW j \in Jobs, NEW O, NEW b,
           NEW o, NEW g \in SUBSET Jobs, NEW w, j \notin g, \A r \in RunIds : b[r] # j,
           Accounts(T, {}, {}, O, b, o, g, w)
    PROVE  Accounts([T EXCEPT ![j] = NewJob(j)], {}, {}, O, b, o, g, w)
<1> DEFINE U == [T EXCEPT ![j] = NewJob(j)]
<1>1. /\ \A r \in RunIds : U[j].runs[r] = "none" 
      /\ U[j].last = 0
      /\ \A i \in Jobs \ {j} : U[i] = T[i]
  BY DEF NewJob, NoJob
<1> HIDE DEF U
<1>2. RunsTold(U, {}, O, b, o) /\ JobsTold(U, b) /\ ApprovalsTold(U, {}, g)
  BY <1>1 DEF Accounts, RunsTold, JobsTold, ApprovalsTold
<1>3. StatusTold(U, w)
  BY <1>1 DEF Accounts, StatusTold
<1> QED BY <1>2, <1>3 DEF Accounts, U

-----------------------------------------------------------------------------
(* Steps outside of updates.                                               *)

LEMMA OpenRuns ==
    ASSUME IInv, Tells
    PROVE  /\ Open \subseteq RunIds
           /\ \A r \in Open : r <= runs
           /\ runs \in Nat
<1>1. \A c \in Callers : Working(c) => run[c] \in RunIds /\ run[c] <= runs
  BY DEF IInv, CallerOK, Working, Fresh, RunIds
<1>2. runs \in Nat /\ orphans \subseteq RunIds
  BY DEF IInv, SharedOK, RunIds
<1>3. \A r \in orphans : r <= runs
  BY DEF Tells
<1> QED BY <1>1, <1>2, <1>3 DEF Open

\* A step of c that neither begins nor ends an update, and leaves the same runs
\* open, keeps what is told.
LEMMA StillStep ==
    ASSUME IInv, Tells, NEW c \in Callers, Only(c),
           UNCHANGED <<disk, begun, granted, doubled, runs>>,
           ~ Updating(c), ~ Updating(c)', Open' = Open,
           \A r \in RunIds : outcome'[r] # outcome[r] => r = run[c] /\ r \in Open,
           result'[c] # "none" => outcome'[run'[c]] = result'[c],
           orphans' \subseteq orphans \cup {run[c]}, run'[c] \notin orphans',
           ~ misled'
    PROVE  Tells'
<1>1. \A d \in Callers : /\ Updating(d)' <=> Updating(d)
                         /\ Updating(d) => run'[d] = run[d] /\ job'[d] = job[d]
                         /\ pc'[d] = "flush" <=> pc[d] = "flush"
  BY DEF Only, Same, Updating
<1>2. Changing' = Changing /\ Approving' = Approving
  BY <1>1 DEF Changing, Approving
<1>3. /\ \A d, e \in Callers : Updating(d)' /\ Updating(e)' => d = e
      /\ disk'.state = IF \E d \in Callers : pc'[d] = "flush" THEN "empty" ELSE "json"
  BY <1>1 DEF Tells
<1>4. \A r \in RunIds : r \notin Open => outcome'[r] = outcome[r]
  OBVIOUS
<1>5. disk'.state = "json" =>
         Accounts(disk'.jobs, Changing', Approving', Open', begun', outcome', granted', doubled')
  <2> SUFFICES ASSUME disk.state = "json"
               PROVE  Accounts(disk.jobs, Changing, Approving, Open, begun, outcome', granted,
                               doubled)
    BY <1>2
  <2>1. Accounts(disk.jobs, Changing, Approving, Open, begun, outcome, granted, doubled)
    BY DEF Tells
  <2> QED BY <1>4, <2>1, AccountsKept
<1>6. \A r \in orphans' : r <= runs'
  BY OpenRuns DEF Open
<1>7. CallerTells(c)'
  BY DEF CallerTells, MergeTells, ListTells, Updating
<1>8. ASSUME NEW d \in Callers, d # c PROVE CallerTells(d)'
  <2>1. CallerTells(d) /\ Same(d) /\ (run[d] = run[c] => run[d] = 0)
    BY <1>8 DEF Tells, Only, IInv, SharedInv
  <2>2. result'[d] # "none" => outcome'[run'[d]] = result'[d]
    <3>1. result[d] # "none" => run[d] \in RunIds /\ run[d] # 0
      BY DEF IInv, CallerOK, RunIds
    <3> QED BY <2>1, <3>1 DEF CallerTells, Same
  <2>3. run'[d] \notin orphans'
    <3>1. 0 \notin orphans'
      BY OpenRuns DEF Open, RunIds
    <3> QED BY <2>1, <3>1 DEF CallerTells, Same
  <2>4. MergeTells(d)'
    <3>1. Read' = Read
      BY DEF Read
    <3> QED BY <2>1, <3>1 DEF CallerTells, MergeTells, ToApprove, ToStart, ToEnd, Same, Known,
                             Unfinished
  <2>5. ListTells(d)'
    <3> SUFFICES ASSUME pc[d] \in {"write", "flush"}
                 PROVE  Accounts(list[d], {}, {}, OpenNext(d)', begun, outcome', granted, doubled)
      BY <2>1 DEF ListTells, Same
    <3>1. Accounts(list[d], {}, {}, OpenNext(d), begun, outcome, granted, doubled)
      BY <2>1 DEF CallerTells, ListTells
    <3>2. OpenNext(d)' = OpenNext(d) /\ Open \subseteq OpenNext(d)
      BY <2>1 DEF OpenNext, Same
    <3> QED BY <1>4, <3>1, <3>2, AccountsKept
  <2> QED BY <2>2, <2>3, <2>4, <2>5 DEF CallerTells
<1> QED BY <1>3, <1>5, <1>6, <1>7, <1>8 DEF Tells

\* The run of a caller is its own.
LEMMA OwnRun ==
    ASSUME IInv, Tells, NEW c \in Callers
    PROVE  /\ \A d \in Callers \ {c} : run[d] # 0 => run[d] # run[c]
           /\ 0 \notin Open
           /\ result[c] # "none" \/ Working(c) => run[c] \in RunIds
BY OpenRuns DEF IInv, SharedInv, CallerOK, Working, Fresh, RunIds

\* While the other callers keep what they hold, the open runs change by c's only.
LEMMA OpenChange ==
    ASSUME IInv, NEW c \in Callers, Only(c), UNCHANGED orphans
    PROVE  /\ Working(c)' /\ ~ Working(c) => Open' = Open \cup {run'[c]}
           /\ ~ Working(c)' /\ ~ Working(c) => Open' = Open
           /\ Working(c)' /\ Working(c) /\ run'[c] = run[c] => Open' = Open
           /\ ~ Working(c)' /\ Working(c) => Open = Open' \cup {run[c]}
<1>1. \A d \in Callers \ {c} : (Working(d)' <=> Working(d)) /\ run'[d] = run[d]
  BY DEF Only, Same, Working
<1> QED BY <1>1 DEF Open

-----------------------------------------------------------------------------
(* What is told when nobody, or only c, updates.                           *)

\* c reads the file, and nothing is disturbed by it.
LEMMA ReadAlone ==
    ASSUME IInv, Tells, NEW c \in Callers, ~ Updating(c), Notice(c), ~ disturbed'
    PROVE  /\ ~ disturbed
           /\ \A d \in Callers : ~ Updating(d)
           /\ disk.state = "json" /\ Read = disk.jobs
           /\ Accounts(Read, {}, {}, Open, begun, outcome, granted, doubled)
<1>1. ~ disturbed /\ \A d \in Callers : ~ Updating(d)
  BY DEF Notice
<1>2. disk.state = "json" /\ Changing = {} /\ Approving = {}
  BY <1>1 DEF Tells, Updating, Changing, Approving
<1> QED BY <1>1, <1>2 DEF Tells, Read

\* c updates: whoever else there is does not.
LEMMA UpdateAlone ==
    ASSUME Tells, NEW c \in Callers, Updating(c)
    PROVE  /\ \A d \in Callers \ {c} : ~ Updating(d)
           /\ Changing = {run[c]}
           /\ Approving = IF run[c] = 0 THEN {job[c]} ELSE {}
BY DEF Tells, Changing, Approving

\* The callers that do not update keep what is told to them.
LEMMA OthersTell ==
    ASSUME Tells, NEW c \in Callers, Only(c), \A d \in Callers \ {c} : ~ Updating(d),
           UNCHANGED <<outcome, orphans>>
    PROVE  \A d \in Callers \ {c} : ~ Updating(d)' /\ CallerTells(d)'
<1> SUFFICES ASSUME NEW d \in Callers \ {c} PROVE ~ Updating(d)' /\ CallerTells(d)'
  OBVIOUS
<1>1. Same(d) /\ ~ Updating(d) /\ CallerTells(d)
  BY DEF Only, Tells
<1>2. ~ Updating(d)' /\ MergeTells(d)' /\ ListTells(d)'
  BY <1>1 DEF Same, Updating, MergeTells, ListTells
<1>3. (result'[d] # "none" => outcome'[run'[d]] = result'[d]) /\ run'[d] \notin orphans'
  BY <1>1 DEF CallerTells, Same
<1> QED BY <1>2, <1>3 DEF CallerTells

\* The step of c begins an update: it copies the job or the list as the file has
\* it, and from now on the file is exempt in what the update is about.
LEMMA BeginStep ==
    ASSUME IInv, IInv', Tells, NEW c \in Callers, Only(c), \A d \in Callers : ~ Updating(d),
           disk.state = "json", disk' = disk, UNCHANGED <<outcome, orphans, misled>>,
           runs <= runs', runs' \in Nat, doubled \subseteq doubled',
           pc'[c] \in {"merge", "write"}, run'[c] \notin orphans,
           \A r \in RunIds : r # run'[c] => (r \in Open' <=> r \in Open),
           Accounts(disk.jobs, {run'[c]}, {}, Open, begun', outcome, granted, doubled),
           granted' \subseteq granted \cup (IF run'[c] = 0 THEN {job'[c]} ELSE {}),
           result'[c] # "none" => outcome'[run'[c]] = result'[c],
           MergeTells(c)', ListTells(c)'
    PROVE  Tells'
<1>1. \A d \in Callers \ {c} : ~ Updating(d)' /\ CallerTells(d)'
  BY OthersTell
<1>2. CallerTells(c)'
  BY DEF CallerTells
<1>3. Updating(c)' /\ pc'[c] # "flush"
  BY DEF Updating
<1>4. Changing' = {run'[c]} /\ Approving' = IF run'[c] = 0 THEN {job'[c]} ELSE {}
  BY <1>1, <1>3 DEF Changing, Approving
<1>5. /\ \A d, e \in Callers : Updating(d)' /\ Updating(e)' => d = e
      /\ disk'.state = IF \E d \in Callers : pc'[d] = "flush" THEN "empty" ELSE "json"
  BY <1>1, <1>3 DEF Updating
<1>6. Accounts(disk'.jobs, Changing', Approving', Open', begun', outcome', granted', doubled')
  <2>1. granted' \ Approving' \subseteq granted \ {}
    BY <1>4
  <2>2. \A r \in RunIds \ Changing' : r \in Open <=> r \in Open'
    BY <1>4
  <2>3. {run'[c]} \cap RunIds \subseteq Changing'
    BY <1>4
  <2>4. Accounts(disk.jobs, Changing', Approving', Open', begun', outcome, granted', doubled')
    BY <2>1, <2>2, <2>3, AccountsKept
  <2> QED BY <2>4
<1>7. \A r \in orphans' : r <= runs'
  <2>1. \A r \in orphans : r <= runs /\ r \in Nat
    BY DEF Tells, IInv, SharedOK, RunIds
  <2>2. runs \in Nat
    BY DEF IInv, SharedOK, RunIds
  <2> QED BY <2>1, <2>2
<1>8. ~ misled'
  BY DEF Tells
<1> QED BY <1>1, <1>2, <1>5, <1>6, <1>7, <1>8 DEF Tells

-----------------------------------------------------------------------------
(* The requests that begin an update.                                      *)

LEMMA CreateTells ==
    ASSUME IInv, IInv', Tells, NEW c \in Callers, NEW j \in Jobs, NEW t \in BOOLEAN,
           CreateJob(c, j, t), ~ disturbed'
    PROVE  Tells'
<1>0. LocalsOK /\ SharedOK /\ CallerOK(c) /\ pc[c] = "idle"
  BY DEF IInv, CreateJob
<1>1. /\ Only(c) /\ pc'[c] = "write" /\ after'[c] \in {"start", "idle"} /\ job'[c] = j
      /\ list'[c] = [Read EXCEPT ![j] = NewJob(j)] /\ run' = run /\ result' = result
      /\ UNCHANGED <<disk, begun, outcome, granted, orphans, doubled, misled, runs>>
  BY <1>0 DEF CreateJob, LocalsOK, Only, Same, ghosts
<1>2. run[c] = 0 /\ result[c] = "none"
  BY <1>0 DEF CallerOK
<1>3. /\ \A d \in Callers : ~ Updating(d)
      /\ disk.state = "json" /\ Read = disk.jobs
      /\ Accounts(Read, {}, {}, Open, begun, outcome, granted, doubled)
  BY <1>0, ReadAlone DEF CreateJob, Updating
<1>4. Open' = Open /\ 0 \notin Open
  BY <1>0, <1>1, OpenChange, OpenRuns DEF Working, RunIds
<1>5. ListTells(c)'
  <2>1. Accounts([Read EXCEPT ![j] = NewJob(j)], {}, {}, Open, begun, outcome, granted, doubled)
    BY <1>0, <1>3, ReadType, AccountsCreated DEF CreateJob, SharedOK
  <2>2. OpenNext(c)' = Open
    BY <1>1, <1>4 DEF OpenNext
  <2> QED BY <1>1, <2>1, <2>2 DEF ListTells
<1>6. MergeTells(c)'
  BY <1>1 DEF MergeTells
<1>7. runs \in Nat
  BY OpenRuns
<1>8. /\ Accounts(disk.jobs, {run'[c]}, {}, Open, begun', outcome, granted, doubled)
      /\ run'[c] \notin orphans
  BY <1>1, <1>3, AccountsKept DEF Tells, CallerTells
<1> QED BY <1>1, <1>2, <1>3, <1>4, <1>5, <1>6, <1>7, <1>8, BeginStep

LEMMA ApproveTells ==
    ASSUME IInv, IInv', Tells, NEW c \in Callers, NEW j \in Jobs, ApproveJob(c, j), ~ disturbed'
    PROVE  Tells'
<1>0. LocalsOK /\ SharedOK /\ CallerOK(c) /\ pc[c] = "idle"
  BY DEF IInv, ApproveJob
<1>1. /\ Only(c) /\ pc'[c] = "merge" /\ job'[c] = j /\ mine'[c] = Approved(Read[j])
      /\ run' = run /\ result' = result /\ after' = after /\ granted' = granted \cup {j}
      /\ UNCHANGED <<disk, begun, outcome, orphans, doubled, misled, runs>>
  BY <1>0 DEF ApproveJob, LocalsOK, Only, Same
<1>2. run[c] = 0 /\ result[c] = "none" /\ after[c] = "idle"
  BY <1>0 DEF CallerOK
<1>3. /\ \A d \in Callers : ~ Updating(d)
      /\ disk.state = "json" /\ Read = disk.jobs
      /\ Accounts(Read, {}, {}, Open, begun, outcome, granted, doubled)
  BY <1>0, ReadAlone DEF ApproveJob, Updating
<1>4. Open' = Open /\ 0 \notin Open
  BY <1>0, <1>1, OpenChange, OpenRuns DEF Working, RunIds
<1>5. MergeTells(c)'
  <2>1. Read' = Read /\ Known(j)
    BY <1>1 DEF Read, ApproveJob
  <2> QED BY <1>1, <1>2, <2>1 DEF MergeTells, ToApprove, Known
<1>6. ListTells(c)'
  BY <1>1 DEF ListTells
<1>7. runs \in Nat
  BY OpenRuns
<1>8. /\ Accounts(disk.jobs, {run'[c]}, {}, Open, begun', outcome, granted, doubled)
      /\ run'[c] \notin orphans
  BY <1>1, <1>3, AccountsKept DEF Tells, CallerTells
<1> QED BY <1>1, <1>2, <1>3, <1>4, <1>5, <1>6, <1>7, <1>8, BeginStep

LEMMA StartRunTells ==
    ASSUME IInv, IInv', Tells, NEW c \in Callers, StartRun(c), ~ disturbed'
    PROVE  Tells'
<1>0. LocalsOK /\ SharedOK /\ CallerOK(c) /\ pc[c] = "start" /\ job[c] \in Jobs
  BY DEF IInv, StartRun, CallerOK
<1>1. /\ \A d \in Callers : ~ Updating(d)
      /\ disk.state = "json" /\ Read = disk.jobs
      /\ Accounts(Read, {}, {}, Open, begun, outcome, granted, doubled)
  BY <1>0, ReadAlone DEF StartRun, Updating
<1>2. UNCHANGED <<disk, outcome, granted, orphans>> /\ result[c] = "none"
  BY <1>0 DEF StartRun, CallerOK
<1>3. run[c] # 0 => Known(job[c]) /\ MayStart(job[c])
  <2>1. run[c] # 0 => run[c] \in RunIds /\ begun[run[c]] = job[c]
    BY <1>0 DEF CallerOK, LocalsOK
  <2> QED BY <1>0, <1>1, <2>1 DEF Accounts, JobsTold, Known, MayStart
<1>4. CASE ~ (Known(job[c]) /\ MayStart(job[c]))
  <2>1. /\ Raise(c) /\ run[c] = 0
        /\ UNCHANGED <<runs, begun, doubled>>
    BY <1>3, <1>4 DEF StartRun
  <2>2. Only(c)
    BY <1>0, <2>1, RaiseOnly
  <2>3. pc'[c] \in {"idle", "start"} /\ result'[c] = "none" /\ run'[c] = 0
    BY <1>0, <1>2, <2>1 DEF Raise, Forget, GoOn, LocalsOK
  <2>5. ~ misled'
    BY <2>1, Zenon DEF Raise, Tells
  <2>4. Open' = Open /\ 0 \notin Open
    BY <1>0, <1>2, <2>2, <2>3, OpenChange, OpenRuns DEF Working, RunIds
  <2>6. 0 \notin orphans
    BY <2>4 DEF Open
  <2> QED BY <1>0, <1>1, <1>2, <2>1, <2>2, <2>3, <2>4, <2>5, <2>6, StillStep DEF Updating
<1>5. CASE Known(job[c]) /\ MayStart(job[c])
  <2> DEFINE j == job[c]
             r == runs + 1
  <2>1. /\ pc'[c] = "merge" /\ run'[c] = r /\ begun' = [begun EXCEPT ![r] = j]
        /\ mine'[c] = StartOf(Read[j], r) /\ after'[c] = "started" /\ runs' = r
        /\ doubled' = IF Unfinished(j) THEN doubled \cup {j} ELSE doubled
        /\ result' = result /\ misled' = misled /\ job' = job /\ Only(c)
    BY <1>0, <1>5 DEF StartRun, GoOn, LocalsOK, Only, Same
  <2>2. r \in RunIds /\ r # 0 /\ runs \in Nat /\ r \notin Open
        /\ \A d \in Callers : run[d] # r
    <3>1. r \in RunIds /\ r # 0 /\ runs \in Nat /\ r > runs
      BY <1>0, RegistryAssumption DEF StartRun, SharedOK, RunIds
    <3>2. \A d \in Callers : run[d] # 0 => run[d] <= runs
      BY DEF IInv, CallerOK
    <3> QED BY <3>1, <3>2, OpenRuns
  <2>3. Open' = Open
    BY <1>0, <1>2, <2>1, OpenChange DEF Working
  <2>4. Accounts(Read, {r}, {}, Open, begun', outcome, granted, doubled)
    <3>1. begun'[r] = j /\ \A q \in RunIds \ {r} : begun'[q] = begun[q]
      BY <1>0, <2>1, <2>2 DEF SharedOK
    <3>2. JobsTold(Read, begun')
      BY <1>1, <1>5, <3>1 DEF Accounts, JobsTold, Known, MayStart
    <3>3. RunsTold(Read, {r}, Open, begun', outcome)
      BY <1>1, <3>1 DEF Accounts, RunsTold
    <3> HIDE DEF r
    <3> QED BY <1>1, <3>2, <3>3 DEF Accounts
  <2>5. MergeTells(c)'
    <3>1. Read' = Read
      BY <1>2 DEF Read
    <3> QED BY <1>2, <1>5, <2>1, <2>2, <3>1 DEF MergeTells, ToStart, Known, Unfinished
  <2>6. ListTells(c)'
    BY <2>1 DEF ListTells
  <2>7. runs <= runs' /\ runs' \in Nat /\ doubled \subseteq doubled'
    BY <2>1, <2>2
  <2> HIDE DEF r
  <2>8. /\ granted' \subseteq granted \cup (IF run'[c] = 0 THEN {job'[c]} ELSE {})
        /\ run'[c] \notin orphans
        /\ Accounts(disk.jobs, {run'[c]}, {}, Open, begun', outcome, granted, doubled)
    BY <1>1, <1>2, <2>1, <2>2, <2>4 DEF Open
  <2> QED BY <1>1, <1>2, <2>1, <2>3, <2>5, <2>6, <2>7, <2>8, BeginStep
<1> QED BY <1>4, <1>5

LEMMA FinishRunTells ==
    ASSUME IInv, IInv', Tells, NEW c \in Callers, FinishRun(c), ~ disturbed'
    PROVE  Tells'
<1>0. LocalsOK /\ SharedOK /\ CallerOK(c) /\ pc[c] = "finish"
  BY DEF IInv, FinishRun
<1>1. /\ \A d \in Callers : ~ Updating(d)
      /\ disk.state = "json" /\ Read = disk.jobs
      /\ Accounts(Read, {}, {}, Open, begun, outcome, granted, doubled)
  BY <1>0, ReadAlone DEF FinishRun, Updating
<1>2. /\ run[c] \in RunIds /\ run[c] # 0 /\ begun[run[c]] = job[c] /\ job[c] \in Jobs
      /\ result[c] # "none" /\ outcome[run[c]] = result[c]
      /\ run[c] \in Open /\ run[c] \notin orphans
  BY <1>0 DEF CallerOK, RunIds, Tells, CallerTells, Open, Working
<1>3. Known(job[c]) /\ HasRun(job[c], run[c]) /\ Read[job[c]].runs[run[c]] = "RUNNING"
  BY <1>1, <1>2 DEF Accounts, RunsTold, JobsTold, Known, HasRun
<1>4. /\ Only(c) /\ pc'[c] = "merge" /\ mine'[c] = EndOf(Read[job[c]], run[c], result[c])
      /\ after'[c] \in {"idle", "raise", "reread"} /\ job' = job /\ run' = run /\ result' = result
      /\ UNCHANGED <<disk, begun, outcome, granted, orphans, doubled, misled, runs>>
  BY <1>0, <1>3 DEF FinishRun, GoOn, LocalsOK, Only, Same, ghosts
<1>5. Open = Open' \cup {run[c]}
  BY <1>0, <1>4, OpenChange DEF Working
<1>6. MergeTells(c)'
  <2>1. Read' = Read
    BY <1>4 DEF Read
  <2> QED BY <1>2, <1>3, <1>4, <2>1 DEF MergeTells, ToEnd, Known
<1>7. ListTells(c)'
  BY <1>4 DEF ListTells
<1>8. Accounts(disk.jobs, {run'[c]}, {}, Open, begun', outcome, granted, doubled)
  BY <1>1, <1>4, AccountsKept
<1>9. runs \in Nat
  BY OpenRuns
<1> QED BY <1>1, <1>2, <1>4, <1>5, <1>6, <1>7, <1>8, <1>9, BeginStep

-----------------------------------------------------------------------------
(* The steps of a request between its updates.                             *)

LEMMA StartedTells ==
    ASSUME IInv, Tells, NEW c \in Callers, Started(c), ~ disturbed'
    PROVE  Tells'
<1>0. LocalsOK /\ CallerOK(c) /\ pc[c] = "started"
  BY DEF IInv, Started
<1>1. Accounts(Read, {}, {}, Open, begun, outcome, granted, doubled)
  BY <1>0, ReadAlone DEF Started, Updating
<1>2. Known(job[c])
  BY <1>0, <1>1 DEF CallerOK, Fresh, Accounts, JobsTold, Known, RunIds
<1>3. /\ Only(c) /\ pc'[c] = "work" /\ run' = run /\ result' = result
      /\ UNCHANGED <<disk, begun, outcome, granted, orphans, doubled, runs>>
  BY <1>0, <1>2 DEF Started, GoOn, LocalsOK, Only, Same, ghosts
<1>4. ~ misled'
  BY <1>2 DEF Started, Tells
<1>5. Open' = Open
  BY <1>0, <1>3, OpenChange DEF Working
<1> QED BY <1>0, <1>3, <1>4, <1>5, StillStep DEF Updating, Tells, CallerTells

LEMMA WorkTells ==
    ASSUME IInv, Tells, NEW c \in Callers, Work(c)
    PROVE  Tells'
<1>0. LocalsOK /\ SharedOK /\ CallerOK(c) /\ pc[c] = "work"
  BY DEF IInv, Work
<1>1. run[c] \in RunIds /\ run[c] \in Open
  BY <1>0 DEF CallerOK, Fresh, Open, Working
<1>2. /\ Only(c) /\ pc'[c] = "finish" /\ run' = run
      /\ result'[c] = outcome'[run[c]] /\ \A r \in RunIds \ {run[c]} : outcome'[r] = outcome[r]
      /\ UNCHANGED <<disk, begun, granted, orphans, doubled, runs>>
  BY <1>0, <1>1 DEF Work, GoOn, LocalsOK, SharedOK, Only, Same
<1>3. ~ misled'
  BY DEF Work, Tells
<1>4. Open' = Open
  BY <1>0, <1>2, OpenChange DEF Working
<1> QED BY <1>0, <1>1, <1>2, <1>3, <1>4, StillStep DEF Updating, Tells, CallerTells

LEMMA RunJobTells ==
    ASSUME IInv, Tells, NEW c \in Callers, NEW j, NEW v, RunJob(c, j, v)
    PROVE  Tells'
<1>0. LocalsOK /\ CallerOK(c) /\ pc[c] = "idle"
  BY DEF IInv, RunJob
<1>1. /\ Only(c) /\ pc'[c] = "start" /\ run' = run /\ result' = result
      /\ UNCHANGED <<disk, begun, outcome, granted, orphans, doubled, runs>>
  BY <1>0 DEF RunJob, LocalsOK, Only, Same, ghosts
<1>2. ~ misled'
  BY DEF RunJob, Tells
<1>3. Open' = Open
  BY <1>0, <1>1, OpenChange DEF Working
<1> QED BY <1>0, <1>1, <1>2, <1>3, StillStep DEF Updating, Tells, CallerTells

LEMMA RereadTells ==
    ASSUME IInv, Tells, NEW c \in Callers, Reread(c), ~ disturbed'
    PROVE  Tells'
<1>0. LocalsOK /\ CallerOK(c) /\ pc[c] = "reread"
  BY DEF IInv, Reread
<1>1. Accounts(Read, {}, {}, Open, begun, outcome, granted, doubled)
  BY <1>0, ReadAlone DEF Reread, Updating
<1>2. run[c] # 0 => Known(job[c])
  BY <1>0, <1>1 DEF LocalsOK, CallerOK, Accounts, JobsTold, Known
<1>3. /\ Forget(c) /\ Only(c)
      /\ UNCHANGED <<disk, begun, outcome, granted, orphans, doubled, runs>>
  BY <1>0, ForgetOnly DEF Reread, ghosts
<1>4. pc'[c] = "idle" /\ run'[c] = 0 /\ result'[c] = "none"
  BY <1>0, <1>3 DEF Forget, LocalsOK
<1>5. ~ misled'
  <2>1. Known(job[c])
    BY <1>0, <1>2 DEF CallerOK
  <2> QED BY <2>1, Zenon DEF Reread, Tells
<1>6. Open' = Open /\ 0 \notin orphans
  BY <1>0, <1>3, <1>4, OpenChange, OpenRuns DEF Working, Open, RunIds
<1> QED BY <1>0, <1>3, <1>4, <1>5, <1>6, StillStep DEF Updating

\* A process that dies outside of an update leaves its run RUNNING, as it was.
LEMMA CrashTells ==
    ASSUME IInv, Tells, NEW c \in Callers, Crash(c), ~ disturbed'
    PROVE  Tells'
<1>0. LocalsOK /\ SharedOK /\ CallerOK(c)
  BY DEF IInv
<1>1. /\ Forget(c) /\ Only(c) /\ ~ Updating(c)
      /\ UNCHANGED <<disk, begun, outcome, granted, doubled, runs>>
      /\ orphans' = IF Working(c) THEN orphans \cup {run[c]} ELSE orphans
  BY <1>0, ForgetOnly DEF Crash, Working
<1>2. ~ misled'
  BY DEF Crash, Tells
<1>3. pc'[c] = "idle" /\ run'[c] = 0 /\ result'[c] = "none"
  BY <1>0, <1>1 DEF Forget, LocalsOK
<1>4. Open' = Open
  <2>1. \A d \in Callers \ {c} : (Working(d)' <=> Working(d)) /\ run'[d] = run[d]
    BY <1>1 DEF Only, Same, Working
  <2> QED BY <1>1, <1>3, <2>1 DEF Open, Working
<1>5. 0 \notin orphans' /\ orphans' \subseteq orphans \cup {run[c]}
  BY <1>1, <1>4, OpenRuns DEF Open, RunIds
<1> QED BY <1>1, <1>2, <1>3, <1>4, <1>5, StillStep DEF Updating

-----------------------------------------------------------------------------
(* The steps of an update.                                                 *)

\* c, which alone updates, goes on with its update.
LEMMA GoesOn ==
    ASSUME IInv, Tells, NEW c \in Callers, Only(c), Updating(c), Updating(c)',
           UNCHANGED <<begun, outcome, granted, orphans, doubled, misled, runs>>,
           run'[c] = run[c], job'[c] = job[c], result'[c] = result[c],
           disk'.state = IF pc'[c] = "flush" THEN "empty" ELSE "json",
           disk'.state = "json" => disk' = disk,
           MergeTells(c)', ListTells(c)'
    PROVE  Tells'
<1>1. /\ \A d \in Callers \ {c} : ~ Updating(d)
      /\ Changing = {run[c]}
      /\ Approving = IF run[c] = 0 THEN {job[c]} ELSE {}
  BY UpdateAlone
<1>2. \A d \in Callers \ {c} : ~ Updating(d)' /\ CallerTells(d)'
  BY <1>1, OthersTell
<1>3. CallerTells(c)'
  BY DEF Tells, CallerTells
<1>4. Changing' = Changing /\ Approving' = Approving
  BY <1>1, <1>2 DEF Changing, Approving
<1>5. Open' = Open
  BY OpenChange DEF Updating, Working
<1>6. /\ \A d, e \in Callers : Updating(d)' /\ Updating(e)' => d = e
      /\ disk'.state = IF \E d \in Callers : pc'[d] = "flush" THEN "empty" ELSE "json"
  BY <1>2 DEF Updating
<1>7. disk'.state = "json" =>
         Accounts(disk'.jobs, Changing', Approving', Open', begun', outcome', granted', doubled')
  BY <1>4, <1>5 DEF Tells
<1>8. ~ misled'
  BY DEF Tells
<1>9. \A r \in orphans' : r <= runs'
  BY DEF Tells
<1> QED BY <1>2, <1>3, <1>6, <1>7, <1>8, <1>9 DEF Tells

LEMMA MergeKeeps ==
    ASSUME IInv, Tells, NEW c \in Callers, Merge(c)
    PROVE  Tells'
<1>0. LocalsOK /\ SharedOK /\ CallerOK(c) /\ pc[c] = "merge" /\ Updating(c) /\ job[c] \in Jobs
  BY DEF IInv, Merge, CallerOK, Updating
<1>1. Known(job[c]) /\ (ToApprove(c) \/ ToStart(c) \/ ToEnd(c))
  BY <1>0 DEF Tells, CallerTells, MergeTells
<1>2. /\ Only(c) /\ pc'[c] = "write" /\ list'[c] = [Read EXCEPT ![job[c]] = mine[c]]
      /\ job' = job /\ run' = run /\ result' = result /\ after' = after
      /\ UNCHANGED <<disk, begun, outcome, granted, orphans, doubled, misled, runs>>
  BY <1>0, <1>1 DEF Merge, GoOn, LocalsOK, Only, Same, ghosts
<1>3. /\ \A d \in Callers \ {c} : ~ Updating(d)
      /\ Changing = {run[c]}
      /\ Approving = IF run[c] = 0 THEN {job[c]} ELSE {}
  BY <1>0, UpdateAlone
<1>4. disk.state = "json" /\ Read = disk.jobs
  BY <1>0, <1>3 DEF Tells, Updating, Read
<1>5. Accounts(Read, {run[c]}, IF run[c] = 0 THEN {job[c]} ELSE {}, Open, begun, outcome, granted,
               doubled)
  BY <1>3, <1>4 DEF Tells
<1>6. Open' = Open /\ Read \in [Jobs -> JobRecord] /\ granted \in SUBSET Jobs
  BY <1>0, <1>2, OpenChange, ReadType DEF Working, SharedOK
<1>7. Accounts(list'[c], {}, {}, OpenNext(c)', begun, outcome, granted, doubled)
  <2>1. CASE ToApprove(c)
    <3>1. run[c] = 0 /\ mine[c] = Approved(Read[job[c]]) /\ OpenNext(c)' = Open
      BY <1>2, <1>6, <2>1 DEF ToApprove, OpenNext
    <3>2. Accounts(Read, {0}, {job[c]}, Open, begun, outcome, granted, doubled)
      BY <1>5, <3>1
    <3>3. {0} \cap RunIds = {}
      BY DEF RunIds
    <3>4. Accounts([Read EXCEPT ![job[c]] = Approved(Read[job[c]])], {}, {}, Open, begun, outcome,
                   granted, doubled)
      BY <1>0, <1>6, <3>2, <3>3, AccountsApproved
    <3> QED BY <1>2, <3>1, <3>4
  <2>2. CASE ToStart(c)
    <3>1. /\ run[c] \in RunIds /\ run[c] # 0 /\ begun[run[c]] = job[c]
          /\ mine[c] = StartOf(Read[job[c]], run[c]) /\ OpenNext(c)' = Open \cup {run[c]}
          /\ Unfinished(job[c]) => job[c] \in doubled
      BY <1>0, <1>2, <1>6, <2>2 DEF ToStart, OpenNext, LocalsOK, CallerOK
    <3>2. Accounts(Read, {run[c]}, {}, Open, begun, outcome, granted, doubled)
      BY <1>5, <3>1
    <3>3. Accounts([Read EXCEPT ![job[c]] = StartOf(Read[job[c]], run[c])], {}, {},
                   Open \cup {run[c]}, begun, outcome, granted, doubled)
      BY <1>0, <1>6, <3>1, <3>2, AccountsStarted DEF Unfinished
    <3> QED BY <1>2, <3>1, <3>3
  <2>3. CASE ToEnd(c)
    <3>1. /\ run[c] \in RunIds /\ run[c] # 0 /\ begun[run[c]] = job[c]
          /\ result[c] \in Terminal /\ outcome[run[c]] = result[c]
          /\ mine[c] = EndOf(Read[job[c]], run[c], result[c]) /\ OpenNext(c)' = Open
          /\ Read[job[c]].runs[run[c]] = "RUNNING"
      BY <1>0, <1>2, <1>6, <2>3 DEF ToEnd, OpenNext, LocalsOK, CallerOK, Tells, CallerTells
    <3>2. Accounts(Read, {run[c]}, {}, Open, begun, outcome, granted, doubled)
      BY <1>5, <3>1
    <3>3. run[c] \notin Open
      BY <1>0, <3>1, OwnRun DEF Tells, CallerTells, Open, Working
    <3>4. Accounts([Read EXCEPT ![job[c]] = EndOf(Read[job[c]], run[c], result[c])], {}, {}, Open,
                   begun, outcome, granted, doubled)
      BY <1>0, <1>6, <3>1, <3>2, <3>3, AccountsEnded
    <3> QED BY <1>2, <3>1, <3>4
  <2> QED BY <1>1, <2>1, <2>2, <2>3
<1>8. MergeTells(c)' /\ ListTells(c)'
  BY <1>2, <1>7 DEF MergeTells, ListTells
<1>9. Updating(c)'
  BY <1>2 DEF Updating
<1> QED BY <1>0, <1>2, <1>4, <1>8, <1>9, GoesOn

LEMMA TruncateKeeps ==
    ASSUME IInv, Tells, NEW c \in Callers, Truncate(c)
    PROVE  Tells'
<1>0. LocalsOK /\ pc[c] = "write" /\ Updating(c)
  BY DEF IInv, Truncate, Updating
<1>1. /\ Only(c) /\ pc'[c] = "flush" /\ list' = list /\ disk'.state = "empty"
      /\ job' = job /\ run' = run /\ result' = result /\ after' = after
      /\ UNCHANGED <<begun, outcome, granted, orphans, doubled, misled, runs>>
  BY <1>0 DEF Truncate, GoOn, LocalsOK, Only, Same, ghosts
<1>2. Open' = Open
  BY <1>0, <1>1, OpenChange DEF Working
<1>3. OpenNext(c)' = OpenNext(c)
  BY <1>1, <1>2 DEF OpenNext
<1>4. ListTells(c)'
  BY <1>0, <1>1, <1>3 DEF Tells, CallerTells, ListTells
<1>5. MergeTells(c)' /\ Updating(c)'
  BY <1>1 DEF MergeTells, Updating
<1> QED BY <1>0, <1>1, <1>4, <1>5, GoesOn

\* Where a write that is done leads.
LEMMA FlushLeads ==
    ASSUME IInv, Tells, NEW c \in Callers, Flush(c)
    PROVE  /\ Only(c) /\ ~ Updating(c)' /\ ~ misled'
           /\ run'[c] \in {0, run[c]}
           /\ result'[c] # "none" => result'[c] = result[c] /\ run'[c] = run[c]
           /\ Working(c)' <=> after[c] = "started"
           /\ after[c] = "started" => run'[c] = run[c]
<1>0. LocalsOK /\ CallerOK(c) /\ pc[c] = "flush"
  BY DEF IInv, Flush
<1>1. after[c] \in {"idle", "start", "started", "raise", "reread"} /\ ~ misled
  BY <1>0 DEF LocalsOK, Tells
<1>2. ASSUME Forget(c)
      PROVE  /\ Only(c) /\ pc'[c] = "idle" /\ run'[c] = 0 /\ result'[c] = "none"
  BY <1>0, <1>2, ForgetOnly DEF Forget, LocalsOK
<1>3. CASE after[c] = "idle"
  <2>1. Forget(c) /\ misled' = misled
    BY <1>3 DEF Flush
  <2> QED BY <1>1, <1>2, <1>3, <2>1 DEF Updating, Working
<1>4. CASE after[c] = "raise"
  <2>1. Raise(c)
    BY <1>4 DEF Flush
  <2>2. ~ misled'
    <3>1. result[c] = "FAILED" /\ outcome[run[c]] = "FAILED"
      BY <1>0, <1>4 DEF CallerOK, Tells, CallerTells
    <3> QED BY <1>1, <2>1, <3>1, Zenon DEF Raise
  <2>3. CASE left[c] > 0
    <3>1. /\ Only(c) /\ pc'[c] = "start" /\ run'[c] = run[c] /\ result'[c] = "none"
      BY <1>0, <2>1, <2>3, RaiseOnly DEF Raise, GoOn, LocalsOK
    <3> QED BY <1>4, <2>2, <3>1 DEF Updating, Working
  <2>4. CASE ~ (left[c] > 0)
    <3>1. Forget(c)
      BY <2>1, <2>4 DEF Raise
    <3> QED BY <1>2, <1>4, <2>2, <3>1 DEF Updating, Working
  <2> QED BY <2>3, <2>4
<1>5. CASE after[c] \in {"start", "started", "reread"}
  <2>1. /\ GoOn(c, after[c]) /\ list' = [list EXCEPT ![c] = Nothing]
        /\ UNCHANGED <<after, run, mine, result, left, misled>>
    BY <1>5 DEF Flush
  <2>2. Only(c) /\ pc'[c] = after[c] /\ run' = run /\ result' = result
    BY <1>0, <2>1 DEF GoOn, LocalsOK, Only, Same
  <2>3. ~ misled'
    BY <1>1, <2>1
  <2> QED BY <1>5, <2>2, <2>3 DEF Updating, Working
<1> QED BY <1>1, <1>3, <1>4, <1>5

LEMMA FlushKeeps ==
    ASSUME IInv, Tells, NEW c \in Callers, Flush(c)
    PROVE  Tells'
<1>0. LocalsOK /\ pc[c] = "flush" /\ Updating(c)
  BY DEF IInv, Flush, Updating
<1>1. UNCHANGED <<begun, outcome, granted, orphans, doubled, runs>>
  BY DEF Flush, ghosts
<1>2. disk' = [state |-> "json", jobs |-> list[c]]
  <2>1. disk.state = "empty"
    BY <1>0 DEF Tells
  <2> QED BY <2>1 DEF Flush
<1>3. \A d \in Callers \ {c} : ~ Updating(d)
  BY <1>0, UpdateAlone
<1>5. /\ Only(c) /\ ~ Updating(c)' /\ ~ misled'
      /\ run'[c] \in {0, run[c]}
      /\ result'[c] # "none" => result'[c] = result[c] /\ run'[c] = run[c]
      /\ Working(c)' <=> after[c] = "started"
      /\ after[c] = "started" => run'[c] = run[c]
  BY FlushLeads
<1>6. Open' = OpenNext(c)
  BY <1>0, <1>1, <1>5, OpenChange DEF OpenNext, Working
<1>7. \A d \in Callers \ {c} : ~ Updating(d)' /\ CallerTells(d)'
  BY <1>1, <1>3, <1>5, OthersTell
<1>8. CallerTells(c)'
  <2>1. MergeTells(c)' /\ ListTells(c)'
    BY <1>5 DEF MergeTells, ListTells, Updating
  <2>2. 0 \notin orphans
    BY OpenRuns DEF Open, RunIds
  <2>3. run'[c] \notin orphans' /\ (result'[c] # "none" => outcome'[run'[c]] = result'[c])
    BY <1>1, <1>5, <2>2 DEF Tells, CallerTells
  <2> QED BY <2>1, <2>3 DEF CallerTells
<1>9. Changing' = {} /\ Approving' = {}
  BY <1>5, <1>7 DEF Changing, Approving
<1>10. Accounts(disk'.jobs, Changing', Approving', Open', begun', outcome', granted', doubled')
  BY <1>0, <1>1, <1>2, <1>6, <1>9 DEF Tells, CallerTells, ListTells
<1>11. /\ \A d, e \in Callers : Updating(d)' /\ Updating(e)' => d = e
       /\ disk'.state = IF \E d \in Callers : pc'[d] = "flush" THEN "empty" ELSE "json"
  BY <1>2, <1>5, <1>7 DEF Updating
<1>12. \A r \in orphans' : r <= runs'
  BY <1>1 DEF Tells
<1> QED BY <1>5, <1>7, <1>8, <1>10, <1>11, <1>12 DEF Tells

-----------------------------------------------------------------------------
LEMMA InitTells == Init => TInv
<1> SUFFICES ASSUME Init PROVE Tells
  BY DEF TInv
<1>1. Open = {} /\ Changing = {} /\ Approving = {}
  BY DEF Init, Open, Working, Changing, Approving, Updating
<1>2. \A j \in Jobs : /\ disk.jobs[j].last = 0
                      /\ \A r \in RunIds : disk.jobs[j].runs[r] = "none"
  BY DEF Init, Nothing, NoJob
<1>3. \A r \in RunIds : begun[r] \notin Jobs
  BY RegistryAssumption DEF Init
<1>4. Accounts(disk.jobs, {}, {}, {}, begun, outcome, granted, doubled)
  BY <1>2, <1>3 DEF Init, Accounts, RunsTold, JobsTold, ApprovalsTold, StatusTold
<1>5. \A c \in Callers : CallerTells(c)
  BY DEF Init, CallerTells, MergeTells, ListTells
<1>6. ~ misled
  BY DEF Init
<1>7. /\ \A c, d \in Callers : Updating(c) /\ Updating(d) => c = d
      /\ disk.state = IF \E c \in Callers : pc[c] = "flush" THEN "empty" ELSE "json"
      /\ \A r \in orphans : r <= runs
  BY DEF Init, Updating
<1> QED BY <1>1, <1>4, <1>5, <1>6, <1>7 DEF Tells

LEMMA StepTells == IInv /\ IInv' /\ TInv /\ [Next]_vars => TInv'
<1> SUFFICES ASSUME IInv, IInv', TInv, [Next]_vars, ~ disturbed' PROVE Tells'
  BY DEF TInv
<1>1. ~ disturbed
  <2>1. ASSUME NEW c \in Callers, CallerStep(c)
        PROVE  disturbed' = disturbed \/ Notice(c)
    <3>1. Merge(c) \/ Truncate(c) \/ Flush(c) \/ Work(c) => disturbed' = disturbed
      BY Zenon DEF Merge, Truncate, Flush, Work
    <3>2. StartRun(c) \/ Started(c) \/ FinishRun(c) \/ Reread(c) => Notice(c)
      BY Zenon DEF StartRun, Started, FinishRun, Reread
    <3> QED BY <2>1, <3>1, <3>2, Zenon DEF CallerStep
  <2>2. ASSUME NEW c \in Callers, CallerStep(c) PROVE ~ disturbed
    BY <2>1, <2>2, Zenon DEF Notice
  <2>3. ASSUME NEW c \in Callers, Crash(c) PROVE ~ disturbed
    BY <2>3, Zenon DEF Crash
  <2>4. ASSUME NEW c \in Callers, NEW j \in Jobs, NEW t \in BOOLEAN, NEW v,
               CreateJob(c, j, t) \/ ApproveJob(c, j) \/ RunJob(c, j, v)
        PROVE  ~ disturbed
    BY <2>4, Zenon DEF CreateJob, ApproveJob, RunJob, Notice
  <2>5. CASE UNCHANGED vars
    BY <2>5 DEF vars
  <2> QED BY <2>2, <2>3, <2>4, <2>5 DEF Next
<1>2. Tells
  BY <1>1 DEF TInv
<1>3. ASSUME NEW c \in Callers, CallerStep(c) PROVE Tells'
  BY <1>2, <1>3, MergeKeeps, TruncateKeeps, FlushKeeps, StartRunTells, StartedTells, WorkTells,
     FinishRunTells, RereadTells DEF CallerStep
<1>4. ASSUME NEW c \in Callers, Crash(c) PROVE Tells'
  BY <1>2, <1>4, CrashTells
<1>5. ASSUME NEW c \in Callers, NEW j \in Jobs, NEW t \in BOOLEAN, CreateJob(c, j, t)
      PROVE  Tells'
  BY <1>2, <1>5, CreateTells
<1>6. ASSUME NEW c \in Callers, NEW j \in Jobs, ApproveJob(c, j) PROVE Tells'
  BY <1>2, <1>6, ApproveTells
<1>7. ASSUME NEW c \in Callers, NEW j \in Jobs, NEW v \in {"api", "mcp", "direct"},
             RunJob(c, j, v)
      PROVE  Tells'
  BY <1>2, <1>7, RunJobTells
<1>8. CASE UNCHANGED vars
  BY <1>2, <1>8 DEF vars, local, ghosts, Tells, Updating, Accounts, RunsTold, JobsTold,
     ApprovalsTold, StatusTold, Changing, Approving, Open, Working, CallerTells, MergeTells,
     ListTells, OpenNext, ToApprove, ToStart, ToEnd, Known, Unfinished, Read
<1> QED BY <1>3, <1>4, <1>5, <1>6, <1>7, <1>8 DEF Next

LEMMA AlwaysTells == Spec => [](IInv /\ TInv)
<1>1. Init => IInv /\ TInv
  BY InitInv, InitTells
<1>2. IInv /\ TInv /\ [Next]_vars => IInv' /\ TInv'
  BY StepInv, StepTells
<1> QED BY <1>1, <1>2, PTL DEF Spec

\* As long as updates do not overlap and no process dies in one, the file shows
\* how every run ended whose caller is not in the middle of it, and RUNNING only
\* for the runs whose process died.
THEOREM AccountsAreTrue == Spec => []RegistryTells
<1>1. IInv /\ TInv => RegistryTells
  <2> SUFFICES ASSUME IInv, Tells, disk.state = "json", NEW r \in RunIds, begun[r] # NoOne,
                      ~ Underway(r)
               PROVE  disk.jobs[begun[r]].runs[r] =
                         IF r \in orphans THEN "RUNNING" ELSE outcome[r]
    BY DEF TInv, RegistryTells
  <2>1. begun[r] \in Jobs
    BY DEF IInv, SharedOK
  <2>2. r \notin Changing /\ (r \in Open <=> r \in orphans)
    BY DEF Underway, Changing, Open, Working, Updating
  <2> QED BY <2>1, <2>2 DEF Tells, Accounts, RunsTold
<1> QED BY <1>1, AlwaysTells, PTL

\* Likewise the status of a job is that of its last run, unless two of its runs
\* ever overlapped.
THEOREM StatusFollowsLastRun == Spec => []StatusIsLastRuns
<1>1. TInv => StatusIsLastRuns
  BY DEF TInv, StatusIsLastRuns, Tells, Accounts, StatusTold
<1> QED BY <1>1, AlwaysTells, PTL

\* Likewise an error of a request whose run was started is that run's failure:
\* work that was done is neither repeated nor reported as failed.
THEOREM FailuresAreReal == Spec => []FailureIsReal
<1>1. TInv => FailureIsReal
  BY DEF TInv, FailureIsReal, Tells
<1> QED BY <1>1, AlwaysTells, PTL

\* Likewise an approval stays in the file once its own update is done.
THEOREM ApprovalsStay == Spec => []ApprovalKept
<1>1. TInv => ApprovalKept
  BY DEF TInv, ApprovalKept, Tells, Accounts, ApprovalsTold, Approving
<1> QED BY <1>1, AlwaysTells, PTL
=============================================================================
