------------------------- MODULE ProjectStoreProofs -------------------------
(***************************************************************************)
(* Proofs about ProjectStore, for any requests, fields and bounds.         *)
(***************************************************************************)
EXTENDS ProjectStore, FiniteSetTheorems, SequenceTheorems, TLAPS

AnalysisKinds == {"append", "analyze", "run"}

\* What the steps s that a request of this kind has left may be, when its entry
\* is in analyses.jsonl (appended) and when it is not: reads come before the
\* append, and what names the new analysis comes after it.
Orderly(s, kind, appended) ==
    /\ \A i \in 1 .. Len(s) :
          /\ s[i] \in {"list", "unlink"} => kind = "delete"
          /\ s[i] = "checkSave" => kind = "complete"
          /\ appended => s[i] \notin {"readProject", "appendAnalysis"}
          /\ s[i] \in {"writeLatest", "countAnalysis"} /\ ~appended =>
                \E j \in 1 .. i - 1 : s[j] = "appendAnalysis"
    /\ \A i \in 1 .. Len(s), j \in 1 .. Len(s) :
          i < j /\ s[i] = "appendAnalysis" =>
              s[j] \notin {"readProject", "appendAnalysis"}
    /\ kind \in AnalysisKinds /\ ~appended =>
          \E i \in 1 .. Len(s) : s[i] = "appendAnalysis"

-----------------------------------------------------------------------------
(* The programs                                                            *)

\* Steps that may stand before any others.
Plain == Steps \ {"list", "unlink", "checkSave", "appendAnalysis",
                  "writeLatest", "countAnalysis"}

LEMMA PrefixOrderly ==
    ASSUME NEW s \in Seq(Plain), NEW t \in Seq(Steps), NEW kind,
           NEW appended \in BOOLEAN, Orderly(t, kind, appended),
           appended => \A i \in 1 .. Len(s) : s[i] # "readProject"
    PROVE  /\ s \o t \in Seq(Steps)
           /\ t # <<>> => s \o t # <<>>
           /\ Orderly(s \o t, kind, appended)
<1> DEFINE u == s \o t
           n == Len(s)
           m == Len(t)
<1>1. s \in Seq(Steps) /\ n \in Nat /\ m \in Nat
  BY SeqMonotonic, LenProperties DEF Plain
<1>2. /\ u \in Seq(Steps)
      /\ Len(u) = n + m
      /\ \A i \in 1 .. n + m : u[i] = IF i <= n THEN s[i] ELSE t[i - n]
  BY <1>1, ConcatProperties
<1>3. \A i \in 1 .. n : u[i] = s[i] /\ s[i] \in Plain
  BY <1>1, <1>2, ElementOfSeq
<1>4. \A i \in 1 .. m : n + i \in 1 .. n + m /\ u[n + i] = t[i]
  BY <1>1, <1>2
<1>5. \A i \in 1 .. n + m :
          i \in 1 .. n \/ (i - n \in 1 .. m /\ u[i] = t[i - n])
  BY <1>1, <1>2
<1> HIDE DEF u, n, m
<1>6. t # <<>> => u # <<>>
  <2>1. t # <<>> => m # 0
    BY EmptySeq DEF m
  <2>2. u = <<>> => Len(u) = 0
    BY EmptySeq
  <2> QED  BY <1>1, <1>2, <2>1, <2>2
<1>7. ASSUME NEW i \in 1 .. n + m
      PROVE  /\ u[i] \in {"list", "unlink"} => kind = "delete"
             /\ u[i] = "checkSave" => kind = "complete"
             /\ appended => u[i] \notin {"readProject", "appendAnalysis"}
             /\ u[i] \in {"writeLatest", "countAnalysis"} /\ ~appended =>
                    \E j \in 1 .. i - 1 : u[j] = "appendAnalysis"
  <2>1. CASE i \in 1 .. n
    BY <1>3, <2>1 DEF Plain, n
  <2>2. CASE i - n \in 1 .. m /\ u[i] = t[i - n]
    <3>1. /\ u[i] \in {"list", "unlink"} => kind = "delete"
          /\ u[i] = "checkSave" => kind = "complete"
          /\ appended => u[i] \notin {"readProject", "appendAnalysis"}
      BY <2>2 DEF Orderly, m
    <3>2. ASSUME u[i] \in {"writeLatest", "countAnalysis"}, ~appended
          PROVE  \E j \in 1 .. i - 1 : u[j] = "appendAnalysis"
      <4>1. PICK j \in 1 .. (i - n) - 1 : t[j] = "appendAnalysis"
        BY <2>2, <3>2 DEF Orderly, m
      <4>2. j \in 1 .. m /\ n + j \in 1 .. i - 1
        BY <1>1, <2>2, <4>1 DEF n, m
      <4> QED  BY <1>4, <4>1, <4>2
    <3> QED  BY <3>1, <3>2
  <2> QED  BY <1>5, <2>1, <2>2
<1>8. ASSUME NEW i \in 1 .. n + m, NEW j \in 1 .. n + m, i < j,
             u[i] = "appendAnalysis"
      PROVE  u[j] \notin {"readProject", "appendAnalysis"}
  <2>1. i - n \in 1 .. m /\ u[i] = t[i - n]
    BY <1>3, <1>5, <1>8 DEF Plain
  <2>2. j - n \in 1 .. m /\ u[j] = t[j - n] /\ i - n < j - n
    BY <1>1, <1>5, <1>8, <2>1 DEF n, m
  <2> QED  BY <1>8, <2>1, <2>2 DEF Orderly, m
<1>9. ASSUME kind \in AnalysisKinds, ~appended
      PROVE  \E i \in 1 .. n + m : u[i] = "appendAnalysis"
  <2>1. PICK i \in 1 .. m : t[i] = "appendAnalysis"
    BY <1>9 DEF Orderly, m
  <2> QED  BY <1>4, <2>1
<1>10. Orderly(u, kind, appended)
  BY <1>2, <1>7, <1>8, <1>9 DEF Orderly
<1> QED  BY <1>2, <1>6, <1>10 DEF u

LEMMA AnalysisOrderly ==
    ASSUME NEW kind
    PROVE  /\ AnalysisSteps \in Seq(Steps)
           /\ AnalysisSteps # <<>>
           /\ Orderly(AnalysisSteps, kind, FALSE)
  BY DEF AnalysisSteps, Orderly, Steps, AnalysisKinds

LEMMA PlainOrderly ==
    ASSUME NEW s \in Seq(Plain), NEW kind, kind \notin AnalysisKinds
    PROVE  Orderly(s, kind, FALSE)
<1>1. \A i \in 1 .. Len(s) : s[i] \in Plain
  BY ElementOfSeq
<1> QED  BY <1>1 DEF Orderly, Plain

LEMMA UpdateOrderly ==
    ASSUME NEW fields
    PROVE  /\ UpdateSteps(fields) \in Seq(Plain)
           /\ UpdateSteps(fields) # <<>>
<1> DEFINE s == <<"readProject", "readIntake", "rewriteProject", "writeProfile">>
           t == IF fields = {} THEN <<>> ELSE <<"mergePatch">>
<1>1. s \in Seq(Plain) /\ t \in Seq(Plain)
  <2>1. s \in Seq(Plain) /\ <<>> \in Seq(Plain) /\ <<"mergePatch">> \in Seq(Plain)
    BY DEF Plain, Steps
  <2> QED  BY <2>1
<1>2. s \o t \in Seq(Plain) /\ (s \o t = <<>> => s = <<>>)
  BY <1>1, ConcatProperties, ConcatEqualIffEmpty
<1>3. s # <<>>
  OBVIOUS
<1>4. UpdateSteps(fields) = s \o t
  BY DEF UpdateSteps
<1> QED  BY <1>2, <1>3, <1>4

LEMMA ProgramOrderly ==
    ASSUME NEW i \in Inputs
    PROVE  /\ Program(i) \in Seq(Steps)
           /\ Program(i) # <<>>
           /\ Orderly(Program(i), i.kind, FALSE)
<1> DEFINE Good(s) == s \in Seq(Steps) /\ s # <<>> /\ Orderly(s, i.kind, FALSE)
<1>1. <<"check">> \in Seq(Plain)
  BY DEF Plain, Steps
<1>2. ASSUME NEW s, Good(s)  PROVE Good(<<"check">> \o s)
  BY <1>1, <1>2, PrefixOrderly
<1>3. CASE i.kind = "update"
  <2>1. Good(UpdateSteps(i.fields))
    <3>1. UpdateSteps(i.fields) \in Seq(Plain) /\ UpdateSteps(i.fields) # <<>>
      BY UpdateOrderly
    <3>2. UpdateSteps(i.fields) \in Seq(Steps)
      BY <3>1, SeqMonotonic DEF Plain
    <3> QED  BY <1>3, <3>1, <3>2, PlainOrderly DEF AnalysisKinds
  <2>2. Program(i) = <<"check">> \o UpdateSteps(i.fields)
    BY <1>3 DEF Program
  <2> QED  BY <1>2, <2>1, <2>2
<1>4. CASE i.kind = "complete"
  <2>1. Good(<<"readState", "checkSave", "saveState">>)
    BY <1>4 DEF Orderly, Steps, AnalysisKinds
  <2>2. Program(i) = <<"check">> \o <<"readState", "checkSave", "saveState">>
    BY <1>4 DEF Program
  <2> QED  BY <1>2, <2>1, <2>2
<1>5. Good(AnalysisSteps)
  BY AnalysisOrderly
<1>6. CASE i.kind = "append"
  <2>1. Program(i) = <<"check">> \o AnalysisSteps
    BY <1>6 DEF Program
  <2> QED  BY <1>2, <1>5, <2>1
<1>7. CASE i.kind = "analyze"
  <2>1. <<"readState", "check">> \in Seq(Plain)
    BY DEF Plain, Steps
  <2>2. Good(<<"readState", "check">> \o AnalysisSteps)
    BY <1>5, <2>1, PrefixOrderly
  <2>3. Program(i) = <<"check">> \o (<<"readState", "check">> \o AnalysisSteps)
    BY <1>7 DEF Program
  <2> QED  BY <1>2, <2>2, <2>3
<1>8. CASE i.kind = "run"
  <2>1. Good(UpdateSteps(i.fields) \o AnalysisSteps)
    BY <1>5, UpdateOrderly, PrefixOrderly
  <2>2. Program(i) = <<"check">> \o (UpdateSteps(i.fields) \o AnalysisSteps)
    BY <1>8 DEF Program
  <2> QED  BY <1>2, <2>1, <2>2
<1>9. CASE i.kind = "successors"
  <2>1. Good(<<"check", "writeSuccessors">>)
    BY <1>9 DEF Orderly, Steps, AnalysisKinds
  <2>2. Program(i) = <<"check">> \o <<"check", "writeSuccessors">>
    BY <1>9 DEF Program
  <2> QED  BY <1>2, <2>1, <2>2
<1>10. CASE i.kind = "delete"
  <2>1. Good(<<"list", "unlink", "removeDir">>)
    BY <1>10 DEF Orderly, Steps, AnalysisKinds
  <2>2. Program(i) = <<"check">> \o <<"list", "unlink", "removeDir">>
    BY <1>10 DEF Program
  <2> QED  BY <1>2, <2>1, <2>2
<1> QED
  BY <1>3, <1>4, <1>6, <1>7, <1>8, <1>9, <1>10 DEF Inputs, Kinds

\* A step that is not the append leaves an orderly rest, and so does the append,
\* once the entry is there.
LEMMA TailOrderly ==
    ASSUME NEW s \in Seq(Steps), s # <<>>, NEW kind, NEW appended \in BOOLEAN,
           Orderly(s, kind, appended)
    PROVE  /\ Tail(s) \in Seq(Steps)
           /\ Head(s) # "appendAnalysis" => Orderly(Tail(s), kind, appended)
           /\ Head(s) = "appendAnalysis" => Orderly(Tail(s), kind, TRUE)
<1> DEFINE u == Tail(s)
           n == Len(s)
<1>1. n \in Nat /\ n >= 1
  BY EmptySeq
<1>2. /\ u \in Seq(Steps)
      /\ Len(u) = n - 1
      /\ \A i \in 1 .. n - 1 : u[i] = s[i + 1]
  BY HeadTailProperties
<1>3. Head(s) = s[1]
  OBVIOUS
<1>4. \A i \in 1 .. n - 1 : i + 1 \in 1 .. n
  BY <1>1
<1>5. \A i \in 1 .. n : i # 1 => i - 1 \in 1 .. n - 1 /\ u[i - 1] = s[i]
  BY <1>1, <1>2
<1> HIDE DEF u, n
<1>6. ASSUME Head(s) # "appendAnalysis"
      PROVE  Orderly(u, kind, appended)
  <2>1. ASSUME NEW i \in 1 .. n - 1
        PROVE  /\ u[i] \in {"list", "unlink"} => kind = "delete"
               /\ u[i] = "checkSave" => kind = "complete"
               /\ appended => u[i] \notin {"readProject", "appendAnalysis"}
               /\ u[i] \in {"writeLatest", "countAnalysis"} /\ ~appended =>
                      \E j \in 1 .. i - 1 : u[j] = "appendAnalysis"
    <3>1. /\ u[i] \in {"list", "unlink"} => kind = "delete"
          /\ u[i] = "checkSave" => kind = "complete"
          /\ appended => u[i] \notin {"readProject", "appendAnalysis"}
      BY <1>2, <1>4 DEF Orderly, n
    <3>2. ASSUME u[i] \in {"writeLatest", "countAnalysis"}, ~appended
          PROVE  \E j \in 1 .. i - 1 : u[j] = "appendAnalysis"
      <4>1. PICK j \in 1 .. (i + 1) - 1 : s[j] = "appendAnalysis"
        BY <1>2, <1>4, <3>2 DEF Orderly, n
      <4>2. j # 1 /\ j \in 1 .. n
        BY <1>1, <1>3, <1>6, <4>1
      <4> QED  BY <1>1, <1>5, <4>1, <4>2
    <3> QED  BY <3>1, <3>2
  <2>2. ASSUME NEW i \in 1 .. n - 1, NEW j \in 1 .. n - 1, i < j,
               u[i] = "appendAnalysis"
        PROVE  u[j] \notin {"readProject", "appendAnalysis"}
    BY <1>2, <1>4, <2>2 DEF Orderly, n
  <2>3. ASSUME kind \in AnalysisKinds, ~appended
        PROVE  \E i \in 1 .. n - 1 : u[i] = "appendAnalysis"
    <3>1. PICK i \in 1 .. n : s[i] = "appendAnalysis"
      BY <2>3 DEF Orderly, n
    <3> QED  BY <1>3, <1>5, <1>6, <3>1
  <2> QED  BY <1>2, <2>1, <2>2, <2>3 DEF Orderly
<1>7. ASSUME Head(s) = "appendAnalysis"
      PROVE  Orderly(u, kind, TRUE)
  <2>1. ASSUME NEW i \in 1 .. n - 1
        PROVE  /\ u[i] \in {"list", "unlink"} => kind = "delete"
               /\ u[i] = "checkSave" => kind = "complete"
               /\ u[i] \notin {"readProject", "appendAnalysis"}
    <3>1. 1 \in 1 .. n /\ i + 1 \in 1 .. n /\ 1 < i + 1
      BY <1>1, <1>4
    <3> QED  BY <1>2, <1>3, <1>7, <3>1 DEF Orderly, n
  <2> QED  BY <1>2, <2>1 DEF Orderly
<1> QED  BY <1>2, <1>6, <1>7 DEF u

-----------------------------------------------------------------------------
(* Types                                                                   *)

RequestsOK ==
    /\ status \in [Requests -> Statuses]
    /\ input \in [Requests -> Inputs \cup {NoInput}]
    /\ todo \in [Requests -> Seq(Steps)]
    /\ seen \in [Requests -> Views]
    /\ met \subseteq Requests
    /\ \A r \in Requests : Running(r) => todo[r] # <<>>

DiskOK ==
    /\ dir \in BOOLEAN
    /\ files \subseteq FileNames
    /\ files # {} => dir
    /\ project \in Projects
    /\ intake \in States
    /\ Len(intake.snapshots) <= SnapshotCap
    /\ analyses \subseteq Requests
    /\ latest \in Requests \cup {Nobody}

ViewsShort == \A r \in Requests : Len(seen[r].intake.snapshots) <= SnapshotCap

MemoryOK == RequestsOK /\ ViewsShort

\* TypeOK, and what a view holds of the snapshots.
TypeInv ==
    /\ MemoryOK
    /\ DiskOK
    /\ failures \in 0 .. MaxFailures

LEMMA TypeInvType == TypeInv => TypeOK
  BY DEF TypeInv, MemoryOK, RequestsOK, DiskOK, TypeOK

LEMMA BlankTypes ==
    /\ NoProject \in Projects
    /\ BlankState \in States
    /\ BlankState.snapshots = <<>> /\ Len(BlankState.snapshots) <= SnapshotCap
    /\ NothingSeen \in Views
    /\ NothingSeen.intake = BlankState /\ NothingSeen.project = NoProject
<1>1. <<>> \in Seq(Requests) /\ Len(<<>>) = 0
  BY EmptySeq
<1>2. NoProject \in Projects /\ BlankState \in States
  BY <1>1 DEF NoProject, Projects, BlankState, States
<1> QED  BY <1>1, <1>2, StoreAssumption DEF NothingSeen, Views, BlankState

LEMMA MergeType ==
    ASSUME NEW state \in States, NEW r \in Requests,
           Len(state.snapshots) <= SnapshotCap
    PROVE  Merge(state, r) \in States /\ Len(Merge(state, r).snapshots) <= SnapshotCap
  BY DEF Merge, States

LEMMA SnapshotType ==
    ASSUME NEW state \in States, NEW r \in Requests
    PROVE  /\ WithSnapshot(state, r) \in States
           /\ Len(WithSnapshot(state, r).snapshots) <= SnapshotCap
<1> DEFINE all == Append(state.snapshots, r)
           n == Len(all)
           first == IF n > SnapshotCap THEN n - SnapshotCap + 1 ELSE 1
           kept == SubSeq(all, first, n)
<1>1. all \in Seq(Requests) /\ n \in Nat /\ \A i \in 1 .. n : all[i] \in Requests
  <2>1. all \in Seq(Requests)
    BY DEF States
  <2> HIDE DEF all
  <2> QED  BY <2>1, LenProperties, ElementOfSeq
<1>2. first \in Nat /\ 1 <= first
  BY <1>1, StoreAssumption
<1> HIDE DEF all, n, first
<1>3. \A i \in first .. n : all[i] \in Requests
  BY <1>1, <1>2
<1>4. /\ kept \in Seq(Requests)
      /\ Len(kept) = IF first <= n THEN n - first + 1 ELSE 0
  BY <1>1, <1>2, <1>3, SubSeqProperties
<1>5. Len(kept) <= SnapshotCap
  BY <1>1, <1>4, StoreAssumption DEF first
<1>6. WithSnapshot(state, r) = [state EXCEPT !.snapshots = kept]
  BY DEF WithSnapshot, all, n, first
<1> HIDE DEF kept
<1> QED  BY <1>4, <1>5, <1>6 DEF States

LEMMA ContinueType ==
    ASSUME TypeInv, NEW r \in Requests, NEW steps \in Seq(Steps), NEW view \in Views,
           Len(view.intake.snapshots) <= SnapshotCap, Continue(r, steps, view)
    PROVE  MemoryOK'
<1>1. /\ todo' \in [Requests -> Seq(Steps)]
      /\ status' \in [Requests -> Statuses]
      /\ seen' \in [Requests -> Views]
  BY BlankTypes DEF TypeInv, MemoryOK, RequestsOK, Continue, Statuses
<1>2. \A q \in Requests : Running(q)' => todo'[q] # <<>>
  BY DEF TypeInv, MemoryOK, RequestsOK, Continue, Running
<1>3. ViewsShort'
  BY BlankTypes DEF TypeInv, MemoryOK, RequestsOK, ViewsShort, Continue
<1> QED  BY <1>1, <1>2, <1>3 DEF TypeInv, MemoryOK, RequestsOK, Continue

LEMMA EndInErrorType ==
    ASSUME TypeInv, NEW r \in Requests, EndInError(r)
    PROVE  MemoryOK'
<1>1. /\ todo' \in [Requests -> Seq(Steps)]
      /\ status' \in [Requests -> Statuses]
      /\ seen' \in [Requests -> Views]
  BY BlankTypes, EmptySeq DEF TypeInv, MemoryOK, RequestsOK, EndInError, Statuses
<1>2. \A q \in Requests : Running(q)' => todo'[q] # <<>>
  BY DEF TypeInv, MemoryOK, RequestsOK, EndInError, Running
<1>3. ViewsShort'
  BY BlankTypes DEF TypeInv, MemoryOK, RequestsOK, ViewsShort, EndInError
<1> QED  BY <1>1, <1>2, <1>3 DEF TypeInv, MemoryOK, RequestsOK, EndInError

LEMMA ProceedType ==
    ASSUME TypeInv, NEW r \in Requests, Running(r), Proceed(r)
    PROVE  MemoryOK'
<1>1. Tail(todo[r]) \in Seq(Steps)
  BY HeadTailProperties DEF TypeInv, MemoryOK, RequestsOK
<1>2. seen[r] \in Views /\ Len(seen[r].intake.snapshots) <= SnapshotCap
  BY DEF TypeInv, MemoryOK, RequestsOK, ViewsShort
<1> QED  BY <1>1, <1>2, ContinueType DEF Proceed

\* One step of a request keeps the types, its files' part apart.
LEMMA StepType ==
    ASSUME TypeInv, NEW r \in Requests, Step(r)
    PROVE  MemoryOK'
<1>1. ASSUME NEW step, At(r, step)  PROVE Running(r) /\ Tail(todo[r]) \in Seq(Steps)
  BY <1>1, HeadTailProperties DEF At, TypeInv, MemoryOK, RequestsOK
<1>2. seen[r] \in Views /\ Len(seen[r].intake.snapshots) <= SnapshotCap
  BY DEF TypeInv, MemoryOK, RequestsOK, ViewsShort
<1>3. EndInError(r) => MemoryOK'
  BY EndInErrorType
<1>4. Running(r) /\ Proceed(r) => MemoryOK'
  BY ProceedType
<1>5. ASSUME NEW steps \in Seq(Steps), NEW view \in Views, Continue(r, steps, view),
             Len(view.intake.snapshots) <= SnapshotCap
      PROVE  MemoryOK'
  BY <1>5, ContinueType
<1>6. WithIntake(seen[r]) \in Views /\ Len(WithIntake(seen[r]).intake.snapshots) <= SnapshotCap
  <2>1. ASSUME NEW there \in BOOLEAN, NEW state \in States
        PROVE  /\ [seen[r] EXCEPT !.hasIntake = there, !.intake = state] \in Views
               /\ [seen[r] EXCEPT !.hasIntake = there, !.intake = state].intake = state
    BY <1>2 DEF Views
  <2>2. intake \in States /\ Len(intake.snapshots) <= SnapshotCap
        /\ ("intake" \in files) \in BOOLEAN
    BY DEF TypeInv, DiskOK
  <2>3. /\ WithIntake(seen[r]) \in Views
        /\ WithIntake(seen[r]).intake = intake
    BY <2>1, <2>2, Zenon DEF WithIntake
  <2> QED  BY <2>2, <2>3
<1>7. CASE Check(r)
  BY <1>1, <1>3, <1>4, <1>7 DEF Check
<1>8. CASE ReadProject(r)
  <2>1. [seen[r] EXCEPT !.project = project] \in Views
        /\ [seen[r] EXCEPT !.project = project].intake = seen[r].intake
    BY <1>2 DEF Views, TypeInv, DiskOK
  <2> QED  BY <1>1, <1>2, <1>3, <1>5, <1>8, <2>1, AnalysisOrderly, EmptySeq DEF ReadProject
<1>9. CASE ReadIntake(r)
  BY <1>1, <1>5, <1>6, <1>9 DEF ReadIntake
<1>10. CASE ReadState(r)
  <2>1. /\ <<>> \in Seq(Steps) /\ <<"check">> \in Seq(Steps)
        /\ Tail(todo[r]) \in Seq(Steps)
    BY <1>1, <1>10, EmptySeq DEF ReadState, Steps
  <2>2. (IF "intake" \in files THEN <<>> ELSE <<"check">>) \o Tail(todo[r]) \in Seq(Steps)
    BY <2>1, ConcatProperties
  <2> QED  BY <1>5, <1>6, <1>10, <2>2 DEF ReadState
<1>11. CASE CheckSave(r)
  BY <1>1, <1>2, <1>4, <1>5, <1>11, EmptySeq DEF CheckSave
<1>12. CASE RewriteProject(r)
  BY <1>1, <1>4, <1>12 DEF RewriteProject
<1>13. CASE WriteProfile(r)
  BY <1>1, <1>4, <1>13 DEF WriteProfile
<1>14. CASE WriteSuccessors(r)
  BY <1>1, <1>4, <1>14 DEF WriteSuccessors
<1>15. CASE MergePatch(r) \/ SaveState(r)
  BY <1>1, <1>4, <1>15 DEF MergePatch, SaveState, WriteMerged
<1>16. CASE AppendAnalysis(r)
  BY <1>1, <1>3, <1>4, <1>16 DEF AppendAnalysis
<1>17. CASE WriteLatest(r)
  BY <1>1, <1>4, <1>17 DEF WriteLatest
<1>18. CASE AddSnapshot(r)
  BY <1>1, <1>4, <1>18 DEF AddSnapshot
<1>19. CASE CountAnalysis(r)
  BY <1>1, <1>4, <1>19 DEF CountAnalysis
<1>20. CASE List(r)
  <2>1. <<"removeDir">> \in Seq(Steps)
    BY DEF Steps
  <2>2. [seen[r] EXCEPT !.listing = files] \in Views
        /\ [seen[r] EXCEPT !.listing = files].intake = seen[r].intake
    BY <1>2 DEF Views, TypeInv, DiskOK
  <2> QED  BY <1>1, <1>2, <1>3, <1>5, <1>20, <2>1, <2>2 DEF List
<1>21. CASE Unlink(r)
  <2>1. PICK file \in seen[r].listing :
          \/ Continue(r, IF seen[r].listing = {file} THEN Tail(todo[r]) ELSE todo[r],
                      [seen[r] EXCEPT !.listing = @ \ {file}])
          \/ EndInError(r)
    BY <1>21 DEF Unlink
  <2>2. [seen[r] EXCEPT !.listing = @ \ {file}] \in Views
        /\ [seen[r] EXCEPT !.listing = @ \ {file}].intake = seen[r].intake
    BY <1>2 DEF Views
  <2>3. todo[r] \in Seq(Steps) /\ Tail(todo[r]) \in Seq(Steps)
    BY <1>1, <1>21 DEF Unlink, TypeInv, MemoryOK, RequestsOK
  <2> QED  BY <1>2, <1>3, <1>5, <2>1, <2>2, <2>3
<1>22. CASE RemoveDir(r)
  BY <1>1, <1>3, <1>4, <1>22 DEF RemoveDir
<1> QED
  BY <1>7, <1>8, <1>9, <1>10, <1>11, <1>12, <1>13, <1>14, <1>15, <1>16, <1>17,
     <1>18, <1>19, <1>20, <1>21, <1>22 DEF Step

LEMMA StepDisk ==
    ASSUME TypeInv, NEW r \in Requests, Step(r)
    PROVE  DiskOK'
<1> USE DEF TypeInv, DiskOK
<1>1. seen[r] \in Views /\ Len(seen[r].intake.snapshots) <= SnapshotCap
  BY DEF MemoryOK, RequestsOK, ViewsShort
<1>2. CASE \/ Check(r) \/ ReadProject(r) \/ ReadIntake(r) \/ ReadState(r)
           \/ CheckSave(r) \/ List(r)
  BY <1>2 DEF Check, ReadProject, ReadIntake, ReadState, CheckSave, List, diskVars
<1>3. CASE RewriteProject(r)
  BY <1>1, <1>3 DEF RewriteProject, Write, FileNames, Views
<1>4. CASE WriteProfile(r) \/ WriteSuccessors(r)
  BY <1>4 DEF WriteProfile, WriteSuccessors, Write, FileNames
<1>5. CASE MergePatch(r) \/ SaveState(r)
  <2>1. intake' \in States /\ Len(intake'.snapshots) <= SnapshotCap
    BY <1>1, <1>5, MergeType DEF MergePatch, SaveState, WriteMerged, Views
  <2> QED  BY <1>5, <2>1 DEF MergePatch, SaveState, WriteMerged, Write, FileNames
<1>6. CASE AppendAnalysis(r)
  BY <1>6 DEF AppendAnalysis, FileNames
<1>7. CASE WriteLatest(r)
  BY <1>7 DEF WriteLatest, Write, FileNames
<1>8. CASE AddSnapshot(r)
  <2>1. intake' \in States /\ Len(intake'.snapshots) <= SnapshotCap
    BY <1>1, <1>8, SnapshotType DEF AddSnapshot, Views
  <2> QED  BY <1>8, <2>1 DEF AddSnapshot, Write, FileNames
<1>9. CASE CountAnalysis(r)
  BY <1>1, <1>9 DEF CountAnalysis, Write, FileNames, Views, Projects
<1>10. CASE Unlink(r)
  BY <1>10, BlankTypes DEF Unlink, Remove
<1>11. CASE RemoveDir(r)
  BY <1>11 DEF RemoveDir
<1> QED
  BY <1>2, <1>3, <1>4, <1>5, <1>6, <1>7, <1>8, <1>9, <1>10, <1>11 DEF Step

LEMMA TypeInvInit == Init => TypeInv
  BY BlankTypes, EmptySeq, StoreAssumption
  DEF Init, TypeInv, MemoryOK, RequestsOK, ViewsShort, DiskOK, Statuses, Running, FileNames

LEMMA TypeInvNext == TypeInv /\ [Next]_vars => TypeInv'
<1> SUFFICES ASSUME TypeInv, [Next]_vars  PROVE TypeInv'
  OBVIOUS
<1>1. ASSUME NEW r \in Requests, Begin(r)  PROVE TypeInv'
  <2>1. PICK i \in Inputs : /\ input' = [input EXCEPT ![r] = i]
                            /\ todo' = [todo EXCEPT ![r] = Program(i)]
    BY <1>1 DEF Begin
  <2>2. Program(i) \in Seq(Steps) /\ Program(i) # <<>>
    BY ProgramOrderly
  <2>3. RequestsOK'
    BY <1>1, <2>1, <2>2 DEF Begin, TypeInv, MemoryOK, RequestsOK, Statuses, Running
  <2>4. DiskOK' /\ ViewsShort' /\ failures' = failures
    BY <1>1 DEF Begin, TypeInv, MemoryOK, DiskOK, diskVars, ViewsShort
  <2> QED  BY <2>3, <2>4 DEF TypeInv, MemoryOK
<1>2. ASSUME NEW r \in Requests, Step(r), UNCHANGED failures  PROVE TypeInv'
  BY <1>2, StepType, StepDisk DEF TypeInv
<1>3. ASSUME NEW r \in Requests, Fail(r)  PROVE TypeInv'
  <2>1. MemoryOK'
    BY <1>3, EndInErrorType DEF Fail
  <2>2. DiskOK' /\ failures' \in 0 .. MaxFailures
    BY <1>3, StoreAssumption DEF Fail, TypeInv, DiskOK, diskVars
  <2> QED  BY <2>1, <2>2 DEF TypeInv
<1>4. CASE UNCHANGED vars
  BY <1>4 DEF vars, diskVars, requestVars, TypeInv, MemoryOK, RequestsOK, ViewsShort, DiskOK, Running
<1> QED  BY <1>1, <1>2, <1>3, <1>4 DEF Next, Done

\* The variables keep their types, a project keeps no more snapshots than
\* append_snapshot leaves, and no file outlives its directory.
THEOREM TypeCorrect == Spec => []TypeOK
<1>1. Spec => []TypeInv
  BY TypeInvInit, TypeInvNext, PTL DEF Spec
<1> QED  BY <1>1, TypeInvType, PTL

-----------------------------------------------------------------------------
(* The log of analyses                                                     *)

\* As long as nothing is deleted, the project is there, and every request is
\* where its program says, with regard to its entry in analyses.jsonl.
Logged ==
    Deletes = {} =>
        /\ "project" \in files
        /\ \A r \in Requests :
              /\ status[r] = "idle" => r \notin analyses
              /\ Running(r) => Orderly(todo[r], input[r].kind, r \in analyses)
              /\ status[r] = "ok" /\ input[r].kind \in AnalysisKinds => r \in analyses

LEMMA LoggedKept == Logged => AnalysesKept
  BY DEF Logged, AnalysesKept, Analyses, Is, AnalysisKinds

\* A step touches its own request only, which stays begun and what it was.
LEMMA StepFrame ==
    ASSUME TypeInv, NEW r \in Requests, Step(r)
    PROVE  /\ Running(r)
           /\ input' = input
           /\ status'[r] # "idle"
           /\ \A q \in Requests \ {r} :
                 status'[q] = status[q] /\ todo'[q] = todo[q] /\ seen'[q] = seen[q]
<1> DEFINE Frame == /\ input' = input
                    /\ status'[r] # "idle"
                    /\ \A q \in Requests \ {r} : /\ status'[q] = status[q]
                                                /\ todo'[q] = todo[q]
                                                /\ seen'[q] = seen[q]
<1>1. ASSUME NEW steps, NEW view, Continue(r, steps, view)  PROVE Frame
  BY <1>1 DEF Continue, TypeInv, MemoryOK, RequestsOK
<1>2. EndInError(r) => Frame
  BY DEF EndInError, TypeInv, MemoryOK, RequestsOK
<1>3. Proceed(r) => Frame
  BY <1>1 DEF Proceed
<1> HIDE DEF Frame
<1>4. Frame
  <2>1. CASE \/ Check(r) \/ CheckSave(r) \/ ReadProject(r) \/ ReadIntake(r) \/ ReadState(r)
    BY <1>1, <1>2, <1>3, <2>1 DEF Check, CheckSave, ReadProject, ReadIntake, ReadState
  <2>2. CASE \/ RewriteProject(r) \/ WriteProfile(r) \/ WriteSuccessors(r)
             \/ MergePatch(r) \/ SaveState(r)
    BY <1>3, <2>2 DEF RewriteProject, WriteProfile, WriteSuccessors, MergePatch,
                      SaveState, WriteMerged
  <2>3. CASE \/ AppendAnalysis(r) \/ WriteLatest(r) \/ AddSnapshot(r) \/ CountAnalysis(r)
    BY <1>2, <1>3, <2>3 DEF AppendAnalysis, WriteLatest, AddSnapshot, CountAnalysis
  <2>4. CASE List(r)
    BY <1>1, <1>2, <2>4 DEF List
  <2>5. CASE Unlink(r)
    BY <1>1, <1>2, <2>5 DEF Unlink
  <2>6. CASE RemoveDir(r)
    BY <1>2, <1>3, <2>6 DEF RemoveDir
  <2> QED  BY <2>1, <2>2, <2>3, <2>4, <2>5, <2>6 DEF Step
<1>5. Running(r)
  BY DEF Step, Check, CheckSave, ReadProject, ReadIntake, ReadState, RewriteProject,
         WriteProfile, WriteSuccessors, MergePatch, SaveState, AppendAnalysis,
         WriteLatest, AddSnapshot, CountAnalysis, List, Unlink, RemoveDir, At
<1> QED  BY <1>4, <1>5 DEF Frame

LEMMA StepDeletes ==
    ASSUME TypeInv, NEW r \in Requests, Step(r)
    PROVE  Deletes' = Deletes
  BY StepFrame DEF Deletes, Is, Begun, Running

\* The step at the head of what is left, and what may follow it.
LEMMA HeadStep ==
    ASSUME TypeInv, Logged, Deletes = {}, NEW r \in Requests, Running(r)
    PROVE  /\ Head(todo[r]) \notin {"list", "unlink"}
           /\ Head(todo[r]) = "checkSave" => input[r].kind = "complete"
           /\ Head(todo[r]) \in {"readProject", "appendAnalysis"} => r \notin analyses
           /\ Head(todo[r]) \in {"writeLatest", "countAnalysis"} => r \in analyses
           /\ Tail(todo[r]) \in Seq(Steps)
           /\ Head(todo[r]) # "appendAnalysis" =>
                 Orderly(Tail(todo[r]), input[r].kind, r \in analyses)
           /\ Head(todo[r]) = "appendAnalysis" =>
                 Orderly(Tail(todo[r]), input[r].kind, TRUE)
<1>1. /\ todo[r] \in Seq(Steps) /\ todo[r] # <<>>
      /\ Orderly(todo[r], input[r].kind, r \in analyses)
  BY DEF TypeInv, MemoryOK, RequestsOK, Logged
<1>2. 1 \in 1 .. Len(todo[r]) /\ Head(todo[r]) = todo[r][1]
  BY <1>1, EmptySeq
<1>3. input[r].kind # "delete"
  BY DEF Deletes, Is, Begun, Running
<1>4. (r \in analyses) \in BOOLEAN
  OBVIOUS
<1>5. ~ \E j \in 1 .. 1 - 1 : todo[r][j] = "appendAnalysis"
  OBVIOUS
<1>6. /\ Head(todo[r]) \notin {"list", "unlink"}
      /\ Head(todo[r]) = "checkSave" => input[r].kind = "complete"
      /\ Head(todo[r]) \in {"readProject", "appendAnalysis"} => r \notin analyses
      /\ Head(todo[r]) \in {"writeLatest", "countAnalysis"} => r \in analyses
  BY <1>1, <1>2, <1>3, <1>5 DEF Orderly
<1>7. /\ Tail(todo[r]) \in Seq(Steps)
      /\ Head(todo[r]) # "appendAnalysis" =>
            Orderly(Tail(todo[r]), input[r].kind, r \in analyses)
      /\ Head(todo[r]) = "appendAnalysis" =>
            Orderly(Tail(todo[r]), input[r].kind, TRUE)
  <2> HIDE DEF TypeInv
  <2> QED  BY <1>1, <1>4, TailOrderly
<1> QED  BY <1>6, <1>7

LEMMA NothingLeft ==
    ASSUME NEW kind, NEW appended \in BOOLEAN, Orderly(<<>>, kind, appended),
           kind \in AnalysisKinds
    PROVE  appended
  BY EmptySeq DEF Orderly

\* What a request that goes on, or ends, must show for Logged.
LEMMA ContinueLogged ==
    ASSUME TypeInv, NEW r \in Requests, NEW steps, NEW view,
           Continue(r, steps, view), Orderly(steps, input[r].kind, (r \in analyses)')
    PROVE  /\ Running(r)' => Orderly(todo[r], input[r].kind, r \in analyses)'
           /\ status'[r] = "ok" /\ input'[r].kind \in AnalysisKinds => r \in analyses'
<1>1. /\ todo'[r] = steps /\ input' = input
      /\ status'[r] = IF steps = <<>> THEN "ok" ELSE "running"
  BY DEF Continue, TypeInv, MemoryOK, RequestsOK
<1>2. (r \in analyses)' \in BOOLEAN
  OBVIOUS
<1> QED  BY <1>1, <1>2, NothingLeft DEF Running

\* What one step does to the log, and what it leaves of its request.
LEMMA StepLog ==
    ASSUME TypeInv, Logged, Deletes = {}, NEW r \in Requests, Step(r)
    PROVE  /\ analyses \subseteq analyses' /\ analyses' \subseteq analyses \cup {r}
           /\ files \subseteq files'
           /\ Running(r)' => Orderly(todo[r], input[r].kind, r \in analyses)'
           /\ status'[r] = "ok" /\ input'[r].kind \in AnalysisKinds => r \in analyses'
<1> DEFINE Grows == /\ analyses \subseteq analyses' /\ analyses' \subseteq analyses \cup {r}
                    /\ files \subseteq files'
           Fits == /\ Running(r)' => Orderly(todo[r], input[r].kind, r \in analyses)'
                   /\ status'[r] = "ok" /\ input'[r].kind \in AnalysisKinds => r \in analyses'
           kind == input[r].kind
           head == Head(todo[r])
           tail == Tail(todo[r])
<1>1. /\ Running(r)
      /\ head \notin {"list", "unlink"}
      /\ head = "checkSave" => kind = "complete"
      /\ head \in {"readProject", "appendAnalysis"} => r \notin analyses
      /\ tail \in Seq(Steps)
      /\ head # "appendAnalysis" => Orderly(tail, kind, r \in analyses)
      /\ head = "appendAnalysis" => Orderly(tail, kind, TRUE)
  BY StepFrame, HeadStep
<1>2. EndInError(r) => Fits
  BY DEF EndInError, TypeInv, MemoryOK, RequestsOK, Running
<1>3. ASSUME NEW steps, NEW view, Continue(r, steps, view),
             Orderly(steps, kind, (r \in analyses)')
      PROVE  Fits
  BY <1>3, ContinueLogged
<1> HIDE DEF Fits
<1>4. ASSUME NEW step, At(r, step), step # "appendAnalysis", Proceed(r),
             analyses' = analyses
      PROVE  Fits
  BY <1>1, <1>3, <1>4 DEF Proceed, At
<1>5. Check(r) \/ RemoveDir(r) => Fits
  BY <1>2, <1>4 DEF Check, RemoveDir, diskVars
<1>6. ASSUME ReadProject(r)  PROVE Fits
  <2>1. head = "readProject" /\ analyses' = analyses
    BY <1>6 DEF ReadProject, At, diskVars
  <2>2. Orderly(AnalysisSteps, kind, (r \in analyses)')
    <3>1. (r \in analyses)' = FALSE
      BY <1>1, <2>1
    <3> QED  BY <3>1, AnalysisOrderly, Zenon
  <2>3. Orderly(tail, kind, (r \in analyses)')
    BY <1>1, <2>1
  <2>4. "project" \in files
    BY DEF Logged
  <2> QED  BY <1>3, <1>6, <2>2, <2>3, <2>4 DEF ReadProject
<1>7. ASSUME ReadIntake(r)  PROVE Fits
  <2>1. Orderly(tail, kind, (r \in analyses)') /\ analyses' = analyses
    BY <1>1, <1>7 DEF ReadIntake, At, diskVars
  <2> QED  BY <1>3, <1>7, <2>1 DEF ReadIntake
<1>8. ASSUME ReadState(r)  PROVE Fits
  <2>1. Orderly(tail, kind, r \in analyses) /\ analyses' = analyses
    BY <1>1, <1>8 DEF ReadState, At, diskVars
  <2>2. <<>> \in Seq(Plain) /\ <<"check">> \in Seq(Plain) /\ <<"check">>[1] = "check"
        /\ Len(<<>>) = 0 /\ Len(<<"check">>) = 1
    BY EmptySeq DEF Plain, Steps
  <2>3. (r \in analyses) \in BOOLEAN
    OBVIOUS
  <2> DEFINE first == IF "intake" \in files THEN <<>> ELSE <<"check">>
  <2>4. first \in Seq(Plain) /\ \A i \in 1 .. Len(first) : first[i] # "readProject"
    BY <2>2
  <2> HIDE DEF first
  <2>5. Orderly(first \o tail, kind, r \in analyses)
    BY <1>1, <2>1, <2>3, <2>4, PrefixOrderly
  <2>6. Continue(r, first \o tail, WithIntake(seen[r]))
    BY <1>8 DEF ReadState, first
  <2> QED  BY <1>3, <2>1, <2>5, <2>6
<1>9. ASSUME CheckSave(r)  PROVE Fits
  <2>1. head = "checkSave" /\ At(r, "checkSave") /\ analyses' = analyses
    BY <1>9 DEF CheckSave, At, diskVars
  <2>2. Orderly(<<>>, kind, (r \in analyses)')
    BY <1>1, <2>1, EmptySeq DEF Orderly, AnalysisKinds
  <2> QED  BY <1>3, <1>4, <1>9, <2>1, <2>2 DEF CheckSave
<1>10. ASSUME \/ RewriteProject(r) \/ WriteProfile(r) \/ WriteSuccessors(r)
              \/ MergePatch(r) \/ SaveState(r)
       PROVE  Fits
  BY <1>4, <1>10 DEF RewriteProject, WriteProfile, WriteSuccessors, MergePatch,
                     SaveState, WriteMerged
<1>11. ASSUME WriteLatest(r) \/ AddSnapshot(r) \/ CountAnalysis(r)  PROVE Fits
  BY <1>4, <1>11 DEF WriteLatest, AddSnapshot, CountAnalysis
<1>12. ASSUME AppendAnalysis(r)  PROVE Fits
  <2>1. CASE dir
    <3>1. Proceed(r) /\ head = "appendAnalysis" /\ (r \in analyses)' = TRUE
      BY <1>12, <2>1 DEF AppendAnalysis, At
    <3>2. Orderly(tail, kind, (r \in analyses)')
      BY <1>1, <3>1, Zenon
    <3> QED  BY <1>3, <3>1, <3>2 DEF Proceed
  <2>2. CASE ~dir
    BY <1>2, <1>12, <2>2 DEF AppendAnalysis
  <2> QED  BY <2>1, <2>2
<1>13. ~List(r) /\ ~Unlink(r)
  BY <1>1 DEF List, Unlink, At
<1>14. Fits
  BY <1>5, <1>6, <1>7, <1>8, <1>9, <1>10, <1>11, <1>12, <1>13 DEF Step
<1>15. Grows
  <2>1. ~Unlink(r)
    BY <1>1 DEF Unlink, At
  <2> QED
    BY <2>1 DEF Step, Check, CheckSave, ReadProject, ReadIntake, ReadState,
         RewriteProject, WriteProfile, WriteSuccessors, MergePatch, SaveState, WriteMerged,
         AppendAnalysis, WriteLatest, AddSnapshot, CountAnalysis, List, RemoveDir, Write,
         diskVars
<1> QED  BY <1>14, <1>15 DEF Fits

LEMMA LoggedInit == Init => Logged
  BY DEF Init, Logged, Running

LEMMA LoggedNext == TypeInv /\ Logged /\ [Next]_vars => Logged'
<1> SUFFICES ASSUME TypeInv, Logged, [Next]_vars, (Deletes = {})'
             PROVE  /\ "project" \in files'
                    /\ \A q \in Requests :
                          /\ status'[q] = "idle" => q \notin analyses'
                          /\ Running(q)' => Orderly(todo[q], input[q].kind, q \in analyses)'
                          /\ status'[q] = "ok" /\ input'[q].kind \in AnalysisKinds =>
                                q \in analyses'
  BY DEF Logged
<1>1. ASSUME NEW r \in Requests, Begin(r), NEW q \in Requests
      PROVE  /\ "project" \in files'
             /\ status'[q] = "idle" => q \notin analyses'
             /\ Running(q)' => Orderly(todo[q], input[q].kind, q \in analyses)'
             /\ status'[q] = "ok" /\ input'[q].kind \in AnalysisKinds => q \in analyses'
  <2>1. PICK i \in Inputs : /\ input' = [input EXCEPT ![r] = i]
                            /\ todo' = [todo EXCEPT ![r] = Program(i)]
    BY <1>1 DEF Begin
  <2>2. /\ status[r] = "idle" /\ status' = [status EXCEPT ![r] = "running"]
        /\ analyses' = analyses /\ files' = files
    BY <1>1 DEF Begin, diskVars
  <2>3. Deletes = {}
    <3>1. ASSUME NEW p \in Deletes  PROVE p \in Deletes'
      BY <2>1, <2>2 DEF Deletes, Is, Begun, TypeInv, MemoryOK, RequestsOK
    <3> QED  BY <3>1
  <2>4. r \notin analyses
    BY <2>2, <2>3 DEF Logged
  <2>5. "project" \in files'
    BY <2>2, <2>3 DEF Logged
  <2>6. CASE q = r
    <3>1. /\ status'[r] = "running" /\ todo'[r] = Program(i) /\ input'[r] = i
      BY <2>1, <2>2 DEF TypeInv, MemoryOK, RequestsOK
    <3>2. (r \in analyses)' = FALSE
      BY <2>2, <2>4
    <3>3. Orderly(todo'[r], input'[r].kind, (r \in analyses)')
      BY <3>1, <3>2, ProgramOrderly, Zenon
    <3> QED  BY <2>5, <2>6, <3>1, <3>3
  <2>7. CASE q # r
    <3>1. status'[q] = status[q] /\ todo'[q] = todo[q] /\ input'[q] = input[q]
      BY <2>1, <2>2, <2>7 DEF TypeInv, MemoryOK, RequestsOK
    <3> QED  BY <2>2, <2>3, <2>5, <3>1 DEF Logged, Running
  <2> QED  BY <2>6, <2>7
<1>2. ASSUME NEW r \in Requests, Step(r), NEW q \in Requests
      PROVE  /\ "project" \in files'
             /\ status'[q] = "idle" => q \notin analyses'
             /\ Running(q)' => Orderly(todo[q], input[q].kind, q \in analyses)'
             /\ status'[q] = "ok" /\ input'[q].kind \in AnalysisKinds => q \in analyses'
  <2>1. Deletes = {}
    BY <1>2, StepDeletes
  <2>2. "project" \in files'
    BY <1>2, <2>1, StepLog DEF Logged
  <2>3. CASE q = r
    BY <1>2, <2>1, <2>2, <2>3, StepLog, StepFrame
  <2>4. CASE q # r
    <3>1. /\ status'[q] = status[q] /\ todo'[q] = todo[q] /\ input' = input
          /\ (q \in analyses)' = (q \in analyses)
      BY <1>2, <2>1, <2>4, StepLog, StepFrame
    <3> QED  BY <2>1, <2>2, <3>1 DEF Logged, Running
  <2> QED  BY <2>3, <2>4
<1>3. ASSUME NEW r \in Requests, Fail(r), NEW q \in Requests
      PROVE  /\ "project" \in files'
             /\ status'[q] = "idle" => q \notin analyses'
             /\ Running(q)' => Orderly(todo[q], input[q].kind, q \in analyses)'
             /\ status'[q] = "ok" /\ input'[q].kind \in AnalysisKinds => q \in analyses'
  <2>1. /\ todo' = [todo EXCEPT ![r] = <<>>] /\ status' = [status EXCEPT ![r] = "error"]
        /\ input' = input /\ analyses' = analyses /\ files' = files /\ Running(r)
    BY <1>3 DEF Fail, EndInError, diskVars
  <2>2. Deletes = {}
    BY <2>1 DEF Deletes, Is, Begun, Running, TypeInv, MemoryOK, RequestsOK
  <2>3. "project" \in files'
    BY <2>1, <2>2 DEF Logged
  <2>4. CASE q = r
    BY <2>1, <2>3, <2>4 DEF Running, TypeInv, MemoryOK, RequestsOK
  <2>5. CASE q # r
    <3>1. status'[q] = status[q] /\ todo'[q] = todo[q]
      BY <2>1, <2>5 DEF TypeInv, MemoryOK, RequestsOK
    <3> QED  BY <2>1, <2>2, <2>3, <3>1 DEF Logged, Running
  <2> QED  BY <2>4, <2>5
<1>4. ASSUME UNCHANGED vars  PROVE Logged'
  BY <1>4 DEF vars, diskVars, requestVars, Logged, Deletes, Is, Begun, Running
<1> QED  BY <1>1, <1>2, <1>3, <1>4 DEF Next, Done, Logged

\* An acknowledged analysis is in analyses.jsonl from then on, for any number of
\* requests, however they are interleaved and wherever they stop.
THEOREM NoAnalysisLost == Spec => []AnalysesKept
<1>1. Init => TypeInv /\ Logged
  BY TypeInvInit, LoggedInit
<1>2. TypeInv /\ Logged /\ [Next]_vars => (TypeInv /\ Logged)'
  BY TypeInvNext, LoggedNext
<1>3. Spec => [](TypeInv /\ Logged)
  BY <1>1, <1>2, PTL DEF Spec
<1> QED  BY <1>3, LoggedKept, PTL

-----------------------------------------------------------------------------
(* The count of analyses                                                   *)

\* What a copy of project.json says is borne out by these analyses.
Backed(copy, log) ==
    /\ copy.count <= Cardinality(log)
    /\ copy.latest \in log \cup {Nobody}
    /\ copy.latest = Nobody <=> copy.count = 0

\* The copy a request holds was read before its own entry was appended.
Counted ==
    Deletes = {} =>
        /\ Backed(project, analyses)
        /\ latest \in analyses \cup {Nobody}
        /\ \A r \in Requests : Backed(seen[r].project, analyses \ {r})

LEMMA CountedKept == Counted => CountNeverAhead
  BY DEF Counted, CountNeverAhead, Backed

LEMMA LogFinite ==
    ASSUME NEW log \in SUBSET Requests
    PROVE  IsFiniteSet(log) /\ Cardinality(log) \in Nat
  BY StoreAssumption, FS_Subset, FS_CardinalityType

\* A longer log bears out the same copies, and those that count one more.
LEMMA BackedGrows ==
    ASSUME NEW log \in SUBSET Requests, NEW more \in SUBSET Requests, log \subseteq more,
           NEW copy \in Projects, Backed(copy, log)
    PROVE  Backed(copy, more)
<1>1. Cardinality(log) <= Cardinality(more)
  BY LogFinite, FS_Subset
<1> QED  BY <1>1, LogFinite DEF Backed, Projects

LEMMA BackedNext ==
    ASSUME NEW log \in SUBSET Requests, NEW r \in log,
           NEW copy \in Projects, Backed(copy, log \ {r})
    PROVE  Backed([count |-> copy.count + 1, latest |-> r], log)
<1>1. Cardinality(log \ {r}) = Cardinality(log) - 1
  BY LogFinite, FS_RemoveElement
<1>2. copy.count \in Nat /\ copy.count <= Cardinality(log \ {r})
  BY DEF Backed, Projects
<1> DEFINE next == [count |-> copy.count + 1, latest |-> r]
<1>3. next.count <= Cardinality(log) /\ next.count # 0 /\ next.latest = r
  BY <1>1, <1>2, LogFinite
<1> QED  BY <1>3, StoreAssumption DEF Backed

LEMMA NothingBacked ==
    ASSUME NEW log \in SUBSET Requests
    PROVE  Backed(NoProject, log)
  BY LogFinite DEF Backed, NoProject

\* What a request holds of project.json after a step.
LEMMA StepView ==
    ASSUME TypeInv, Logged, Deletes = {}, NEW r \in Requests, Step(r)
    PROVE  \/ seen'[r].project \in {seen[r].project, NoProject}
           \/ seen'[r].project = project /\ r \notin analyses /\ analyses' = analyses
<1> DEFINE Same == seen'[r].project \in {seen[r].project, NoProject}
<1>1. seen[r] \in Views /\ NothingSeen.project = NoProject
  BY BlankTypes DEF TypeInv, MemoryOK, RequestsOK
<1>2. ASSUME NEW steps, NEW view, Continue(r, steps, view)
      PROVE  seen'[r].project \in {view.project, NoProject}
  BY <1>1, <1>2 DEF Continue, TypeInv, MemoryOK, RequestsOK
<1>3. EndInError(r) => Same
  BY <1>1 DEF EndInError, TypeInv, MemoryOK, RequestsOK
<1>4. Proceed(r) => Same
  BY <1>2 DEF Proceed
<1>5. ASSUME NEW steps, Continue(r, steps, WithIntake(seen[r]))  PROVE Same
  <2>1. WithIntake(seen[r]).project = seen[r].project
    BY <1>1 DEF WithIntake, Views
  <2> QED  BY <1>2, <1>5, <2>1
<1> HIDE DEF Same
<1>6. \/ Check(r) \/ RewriteProject(r) \/ WriteProfile(r) \/ WriteSuccessors(r)
      \/ MergePatch(r) \/ SaveState(r) \/ AppendAnalysis(r) \/ WriteLatest(r)
      \/ AddSnapshot(r) \/ CountAnalysis(r) \/ RemoveDir(r)
      => Same
  BY <1>3, <1>4 DEF Check, RewriteProject, WriteProfile, WriteSuccessors, MergePatch,
                    SaveState, WriteMerged, AppendAnalysis, WriteLatest, AddSnapshot,
                    CountAnalysis, RemoveDir
<1>7. ReadIntake(r) \/ ReadState(r) => Same
  BY <1>5 DEF ReadIntake, ReadState
<1>8. ASSUME CheckSave(r)  PROVE Same
  <2>1. Continue(r, <<>>, seen[r]) => Same
    BY <1>2 DEF Same
  <2> QED  BY <1>4, <1>8, <2>1 DEF CheckSave
<1>9. ~List(r) /\ ~Unlink(r)
  BY StepFrame, HeadStep DEF List, Unlink, At
<1>10. ASSUME ReadProject(r)
       PROVE  Same \/ (seen'[r].project = project /\ r \notin analyses
                                                /\ analyses' = analyses)
  <2>1. r \notin analyses /\ analyses' = analyses
    BY <1>10, HeadStep DEF ReadProject, At, diskVars
  <2>2. ASSUME NEW steps, Continue(r, steps, [seen[r] EXCEPT !.project = project])
        PROVE  seen'[r].project \in {project, NoProject}
    <3>1. [seen[r] EXCEPT !.project = project].project = project
      BY <1>1 DEF Views
    <3> QED  BY <1>2, <2>2, <3>1
  <2>3. ASSUME NEW steps, Continue(r, steps, seen[r])  PROVE Same
    BY <1>2, <2>3 DEF Same
  <2>4. CASE seen'[r].project = NoProject
    BY <2>4 DEF Same
  <2> QED  BY <1>3, <1>10, <2>1, <2>2, <2>3, <2>4 DEF ReadProject
<1> QED  BY <1>6, <1>7, <1>8, <1>9, <1>10 DEF Step, Same

LEMMA CountedInit == Init => Counted
<1> SUFFICES ASSUME Init  PROVE Counted
  OBVIOUS
<1>1. \A r \in Requests : seen[r].project = NoProject
  BY BlankTypes DEF Init
<1> QED  BY <1>1, NothingBacked DEF Init, Counted

LEMMA CountedNext == TypeInv /\ Logged /\ Counted /\ [Next]_vars => Counted'
<1> SUFFICES ASSUME TypeInv, Logged, Counted, [Next]_vars, (Deletes = {})'
             PROVE  /\ Backed(project', analyses')
                    /\ latest' \in analyses' \cup {Nobody}
                    /\ \A q \in Requests : Backed(seen'[q].project, analyses' \ {q})
  BY DEF Counted
<1> DEFINE Goal == /\ Backed(project', analyses')
                   /\ latest' \in analyses' \cup {Nobody}
                   /\ \A q \in Requests : Backed(seen'[q].project, analyses' \ {q})
<1>1. ASSUME NEW r \in Requests, Begin(r)  PROVE Goal
  <2>1. PICK i \in Inputs : input' = [input EXCEPT ![r] = i]
    BY <1>1 DEF Begin
  <2>2. /\ status[r] = "idle" /\ status' = [status EXCEPT ![r] = "running"]
        /\ UNCHANGED <<project, analyses, latest, seen>>
    BY <1>1 DEF Begin, diskVars
  <2>3. Deletes = {}
    <3>1. ASSUME NEW p \in Deletes  PROVE p \in Deletes'
      BY <2>1, <2>2 DEF Deletes, Is, Begun, TypeInv, MemoryOK, RequestsOK
    <3> QED  BY <3>1
  <2> QED  BY <2>2, <2>3 DEF Counted
<1>2. ASSUME NEW r \in Requests, Step(r)  PROVE Goal
  <2>1. Deletes = {}
    BY <1>2, StepDeletes
  <2>2. /\ Backed(project, analyses) /\ latest \in analyses \cup {Nobody}
        /\ \A q \in Requests : Backed(seen[q].project, analyses \ {q})
    BY <2>1 DEF Counted
  <2>3. analyses \subseteq analyses' /\ analyses' \in SUBSET Requests
    BY <1>2, <2>1, StepLog DEF TypeInv, DiskOK
  <2>4. /\ analyses \in SUBSET Requests /\ project \in Projects
        /\ \A q \in Requests : seen[q].project \in Projects
    BY DEF TypeInv, DiskOK, MemoryOK, RequestsOK, Views
  <2>5. \A q \in Requests : /\ analyses \ {q} \in SUBSET Requests
                            /\ analyses' \ {q} \in SUBSET Requests
                            /\ analyses \ {q} \subseteq analyses' \ {q}
    BY <2>3, <2>4
  <2>6. \A q \in Requests : Backed(seen[q].project, analyses' \ {q})
    BY <2>2, <2>4, <2>5, BackedGrows
  <2>7. Backed(project, analyses')
    BY <2>2, <2>3, <2>4, BackedGrows
  <2>8. ASSUME NEW q \in Requests  PROVE Backed(seen'[q].project, analyses' \ {q})
    <3>1. CASE q # r
      BY <1>2, <2>6, <3>1, StepFrame
    <3>2. CASE q = r
      <4>1. CASE seen'[r].project \in {seen[r].project, NoProject}
        BY <2>5, <2>6, <3>2, <4>1, NothingBacked
      <4>2. CASE seen'[r].project = project /\ r \notin analyses /\ analyses' = analyses
        <5>1. analyses' \ {r} = analyses
          BY <4>2
        <5> QED  BY <2>2, <3>2, <4>2, <5>1
      <4> QED  BY <1>2, <2>1, <4>1, <4>2, StepView
    <3> QED  BY <3>1, <3>2
  <2>9. /\ Backed(project', analyses')
        /\ latest' \in analyses' \cup {Nobody}
    <3>1. CASE RewriteProject(r)
      <4>1. Backed(seen[r].project, analyses')
        BY <2>3, <2>4, <2>5, <2>6, BackedGrows
      <4> QED  BY <2>2, <3>1, <4>1 DEF RewriteProject
    <3>2. CASE CountAnalysis(r)
      <4>1. r \in analyses /\ analyses' = analyses /\ latest' = latest
        BY <1>2, <2>1, <3>2, StepFrame, HeadStep DEF CountAnalysis, At
      <4>2. Backed([count |-> seen[r].project.count + 1, latest |-> r], analyses)
        BY <2>2, <2>4, <4>1, BackedNext
      <4> QED  BY <2>2, <3>2, <4>1, <4>2 DEF CountAnalysis
    <3>3. CASE WriteLatest(r)
      <4>1. r \in analyses
        BY <1>2, <2>1, <3>3, StepFrame, HeadStep DEF WriteLatest, At
      <4> QED  BY <2>7, <3>3, <4>1 DEF WriteLatest
    <3>4. ~List(r) /\ ~Unlink(r)
      BY <1>2, <2>1, StepFrame, HeadStep DEF List, Unlink, At
    <3>5. CASE ~RewriteProject(r) /\ ~CountAnalysis(r) /\ ~WriteLatest(r)
      <4>1. project' = project /\ latest' = latest
        BY <1>2, <3>4, <3>5
        DEF Step, Check, CheckSave, ReadProject, ReadIntake, ReadState, WriteProfile,
            WriteSuccessors, MergePatch, SaveState, WriteMerged, AppendAnalysis,
            AddSnapshot, RemoveDir, diskVars
      <4> QED  BY <2>2, <2>3, <2>7, <4>1
    <3> QED  BY <3>1, <3>2, <3>3, <3>5
  <2> QED  BY <2>8, <2>9
<1>3. ASSUME NEW r \in Requests, Fail(r)  PROVE Goal
  <2>1. /\ seen' = [seen EXCEPT ![r] = NothingSeen] /\ Running(r)
        /\ status' = [status EXCEPT ![r] = "error"]
        /\ UNCHANGED <<project, analyses, latest, input>>
    BY <1>3 DEF Fail, EndInError, diskVars
  <2>2. Deletes = {}
    BY <2>1 DEF Deletes, Is, Begun, Running, TypeInv, MemoryOK, RequestsOK
  <2>3. ASSUME NEW q \in Requests
        PROVE  seen'[q].project \in {seen[q].project, NoProject}
    BY <2>1, BlankTypes DEF TypeInv, MemoryOK, RequestsOK
  <2>4. \A q \in Requests : Backed(NoProject, analyses \ {q})
    BY NothingBacked DEF TypeInv, DiskOK
  <2> QED  BY <2>1, <2>2, <2>3, <2>4 DEF Counted
<1>4. CASE UNCHANGED vars
  BY <1>4 DEF vars, diskVars, requestVars, Counted, Deletes, Is, Begun
<1> QED  BY <1>1, <1>2, <1>3, <1>4 DEF Next, Done

\* project.json never counts an analysis that analyses.jsonl does not hold, nor
\* do project.json and latest_analysis.json name one, for any number of requests,
\* however stale the copies they write back.
THEOREM CountCorrect == Spec => []CountNeverAhead
<1>1. Init => TypeInv /\ Logged /\ Counted
  BY TypeInvInit, LoggedInit, CountedInit
<1>2. TypeInv /\ Logged /\ Counted /\ [Next]_vars => (TypeInv /\ Logged /\ Counted)'
  BY TypeInvNext, LoggedNext, CountedNext
<1>3. Spec => [](TypeInv /\ Logged /\ Counted)
  BY <1>1, <1>2, PTL DEF Spec
<1> QED  BY <1>3, CountedKept, PTL

=============================================================================
