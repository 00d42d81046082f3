-------------------------- MODULE ProjectAloneProofs --------------------------
(***************************************************************************)
(* What a request that met no other one may rely on, for any number of     *)
(* requests, fields and snapshots, whatever the requests after it do: its  *)
(* answers and its snapshot stay, the counts of its analysis agree, and    *)
(* what it deleted stays deleted.  The requests after it may overlap, fail *)
(* half way and write back what they read long ago.                        *)
(*                                                                         *)
(* The argument is the same each time.  A request writes a file from its   *)
(* own copy, and every write comes after a read of its own.  While a       *)
(* request is alone nobody holds a copy from before its write, so from its *)
(* write on every copy that may still be written back has what it wrote.   *)
(***************************************************************************)
EXTENDS ProjectStoreProofs

IntakeWrites == {"mergePatch", "saveState", "addSnapshot"}
IntakeReads == {"readIntake", "readState"}
ProjectWrites == {"rewriteProject", "countAnalysis"}
ProjectReads == {"readProject"}

\* Whoever has the steps s left writes (W) only what it reads (R) before, and
\* reads again between two writes.
ReadFirst(s, W, R) ==
    \A i \in 1 .. Len(s) : s[i] \in W => \E j \in 1 .. i - 1 : s[j] \in R
Rereads(s, W, R) ==
    \A i, k \in 1 .. Len(s) :
        i < k /\ s[i] \in W /\ s[k] \in W => \E j \in i + 1 .. k - 1 : s[j] \in R

\* The last steps of an analysis, which no other request takes, by how many
\* steps are left after them.
Closing(s, kind) ==
    \A i \in 1 .. Len(s) :
        /\ s[i] = "appendAnalysis" <=> kind \in AnalysisKinds /\ Len(s) - i = 4
        /\ s[i] = "writeLatest" <=> kind \in AnalysisKinds /\ Len(s) - i = 3
        /\ s[i] = "addSnapshot" <=> kind \in AnalysisKinds /\ Len(s) - i = 2
        /\ s[i] = "countAnalysis" <=> kind \in AnalysisKinds /\ Len(s) - i = 1
Sound(s, kind) ==
    /\ Rereads(s, IntakeWrites, IntakeReads)
    /\ Rereads(s, ProjectWrites, ProjectReads)
    /\ Closing(s, kind)
Patches(s) == \E i \in 1 .. Len(s) : s[i] \in {"mergePatch", "saveState"}

-----------------------------------------------------------------------------
(* What is left of a program after a step.                                 *)

LEMMA TailItems ==
    ASSUME NEW s \in Seq(Steps), s # <<>>
    PROVE  /\ Len(s) \in Nat /\ Len(s) >= 1 /\ Head(s) = s[1] /\ Head(s) \in Steps
           /\ Tail(s) \in Seq(Steps) /\ Len(Tail(s)) = Len(s) - 1
           /\ \A i \in 1 .. Len(s) - 1 : Tail(s)[i] = s[i + 1]
<1>1. Len(s) \in Nat /\ Len(s) >= 1
  BY EmptySeq
<1>2. Head(s) = s[1] /\ s[1] \in Steps
  BY <1>1, ElementOfSeq
<1> QED BY <1>1, <1>2, HeadTailProperties

LEMMA ReadFirstTail ==
    ASSUME NEW s \in Seq(Steps), s # <<>>, NEW W, NEW R, ReadFirst(s, W, R), Head(s) \notin R
    PROVE  Head(s) \notin W /\ ReadFirst(Tail(s), W, R)
<1> DEFINE t == Tail(s)
           n == Len(s)
<1>1. /\ n \in Nat /\ n >= 1 /\ Head(s) = s[1] /\ Len(t) = n - 1
      /\ \A i \in 1 .. n - 1 : t[i] = s[i + 1]
  BY TailItems
<1> HIDE DEF t, n
<1>2. Head(s) \notin W
  BY <1>1 DEF ReadFirst, n
<1>3. ASSUME NEW i \in 1 .. n - 1, t[i] \in W PROVE \E j \in 1 .. i - 1 : t[j] \in R
  <2>1. PICK j \in 1 .. (i + 1) - 1 : s[j] \in R
    BY <1>1, <1>3 DEF ReadFirst, n
  <2>2. j # 1
    BY <1>1, <2>1
  <2>3. j - 1 \in 1 .. i - 1 /\ t[j - 1] = s[j]
    BY <1>1, <1>3, <2>2
  <2> QED BY <2>1, <2>3
<1> QED BY <1>1, <1>2, <1>3 DEF ReadFirst, t

LEMMA RereadsTail ==
    ASSUME NEW s \in Seq(Steps), s # <<>>, NEW W, NEW R, Rereads(s, W, R)
    PROVE  /\ Rereads(Tail(s), W, R)
           /\ Head(s) \in W => ReadFirst(Tail(s), W, R)
<1> DEFINE t == Tail(s)
           n == Len(s)
<1>1. /\ n \in Nat /\ n >= 1 /\ Head(s) = s[1] /\ Len(t) = n - 1
      /\ \A i \in 1 .. n - 1 : t[i] = s[i + 1]
  BY TailItems
<1> HIDE DEF t, n
<1>2. ASSUME NEW i \in 1 .. n - 1, NEW k \in 1 .. n - 1, i < k, t[i] \in W, t[k] \in W
      PROVE  \E j \in i + 1 .. k - 1 : t[j] \in R
  <2>1. i + 1 \in 1 .. n /\ k + 1 \in 1 .. n /\ i + 1 < k + 1 /\ s[i + 1] \in W /\ s[k + 1] \in W
    BY <1>1, <1>2
  <2>2. PICK j \in (i + 1) + 1 .. (k + 1) - 1 : s[j] \in R
    BY <2>1 DEF Rereads, n
  <2>3. j - 1 \in i + 1 .. k - 1 /\ j - 1 \in 1 .. n - 1 /\ t[j - 1] = s[j]
    BY <1>1, <1>2
  <2> QED BY <2>2, <2>3
<1>3. ASSUME Head(s) \in W, NEW i \in 1 .. n - 1, t[i] \in W
      PROVE  \E j \in 1 .. i - 1 : t[j] \in R
  <2>1. PICK j \in 1 + 1 .. (i + 1) - 1 : s[j] \in R
    BY <1>1, <1>3 DEF Rereads, n
  <2>2. j - 1 \in 1 .. i - 1 /\ j - 1 \in 1 .. n - 1 /\ t[j - 1] = s[j]
    BY <1>1, <1>3
  <2> QED BY <2>1, <2>2
<1> QED BY <1>1, <1>2, <1>3 DEF Rereads, ReadFirst, t

LEMMA SoundTail ==
    ASSUME NEW s \in Seq(Steps), s # <<>>, NEW kind, Sound(s, kind)
    PROVE  /\ Sound(Tail(s), kind)
           /\ Head(s) \in IntakeWrites => ReadFirst(Tail(s), IntakeWrites, IntakeReads)
           /\ Head(s) \in ProjectWrites => ReadFirst(Tail(s), ProjectWrites, ProjectReads)
           /\ Head(s) = "appendAnalysis" <=> kind \in AnalysisKinds /\ Len(s) = 5
           /\ Head(s) = "writeLatest" <=> kind \in AnalysisKinds /\ Len(s) = 4
           /\ Head(s) = "addSnapshot" <=> kind \in AnalysisKinds /\ Len(s) = 3
           /\ Head(s) = "countAnalysis" <=> kind \in AnalysisKinds /\ Len(s) = 2
<1> DEFINE t == Tail(s)
           n == Len(s)
<1>1. /\ n \in Nat /\ n >= 1 /\ Head(s) = s[1] /\ Len(t) = n - 1
      /\ \A i \in 1 .. n - 1 : t[i] = s[i + 1]
  BY TailItems
<1>2. Closing(s, kind)
  BY DEF Sound
<1> HIDE DEF t, n
<1>3. Closing(t, kind)
  <2> SUFFICES ASSUME NEW i \in 1 .. n - 1
               PROVE  /\ t[i] = "appendAnalysis" <=> kind \in AnalysisKinds /\ n - 1 - i = 4
                      /\ t[i] = "writeLatest" <=> kind \in AnalysisKinds /\ n - 1 - i = 3
                      /\ t[i] = "addSnapshot" <=> kind \in AnalysisKinds /\ n - 1 - i = 2
                      /\ t[i] = "countAnalysis" <=> kind \in AnalysisKinds /\ n - 1 - i = 1
    BY <1>1 DEF Closing
  <2>1. i + 1 \in 1 .. n /\ n - (i + 1) = n - 1 - i /\ t[i] = s[i + 1]
    BY <1>1
  <2> QED BY <1>2, <2>1 DEF Closing, n
<1>4. /\ Head(s) = "appendAnalysis" <=> kind \in AnalysisKinds /\ n = 5
      /\ Head(s) = "writeLatest" <=> kind \in AnalysisKinds /\ n = 4
      /\ Head(s) = "addSnapshot" <=> kind \in AnalysisKinds /\ n = 3
      /\ Head(s) = "countAnalysis" <=> kind \in AnalysisKinds /\ n = 2
  <2>1. 1 \in 1 .. n /\ Len(s) = n
    BY <1>1 DEF n
  <2> QED BY <1>1, <1>2, <2>1 DEF Closing
<1>5. /\ Head(s) \in IntakeWrites => ReadFirst(t, IntakeWrites, IntakeReads)
      /\ Head(s) \in ProjectWrites => ReadFirst(t, ProjectWrites, ProjectReads)
      /\ Rereads(t, IntakeWrites, IntakeReads) /\ Rereads(t, ProjectWrites, ProjectReads)
  BY RereadsTail DEF Sound, t
<1> QED BY <1>3, <1>4, <1>5 DEF Sound, t, n

LEMMA PatchesTail ==
    ASSUME NEW s \in Seq(Steps), s # <<>>, Patches(s),
           Head(s) \notin {"mergePatch", "saveState"}
    PROVE  Patches(Tail(s))
<1> DEFINE t == Tail(s)
           n == Len(s)
<1>1. /\ n \in Nat /\ n >= 1 /\ Head(s) = s[1] /\ Len(t) = n - 1
      /\ \A i \in 1 .. n - 1 : t[i] = s[i + 1]
  BY TailItems
<1>2. PICK i \in 1 .. n : s[i] \in {"mergePatch", "saveState"}
  BY DEF Patches
<1> HIDE DEF t, n
<1>3. i - 1 \in 1 .. n - 1 /\ t[i - 1] = s[i]
  BY <1>1, <1>2
<1> QED BY <1>1, <1>2, <1>3 DEF Patches, t

-----------------------------------------------------------------------------
(* The programs.                                                           *)

\* Steps that may be put before others.
Good(s) ==
    /\ s \in Seq(Steps)
    /\ ReadFirst(s, IntakeWrites, IntakeReads) /\ Rereads(s, IntakeWrites, IntakeReads)
    /\ ReadFirst(s, ProjectWrites, ProjectReads) /\ Rereads(s, ProjectWrites, ProjectReads)
Early(s) ==
    \A i \in 1 .. Len(s) :
        s[i] \notin {"appendAnalysis", "writeLatest", "addSnapshot", "countAnalysis"}

LEMMA ConcatItems ==
    ASSUME NEW s \in Seq(Steps), NEW t \in Seq(Steps)
    PROVE  /\ s \o t \in Seq(Steps) /\ Len(s) \in Nat /\ Len(t) \in Nat
           /\ Len(s \o t) = Len(s) + Len(t)
           /\ \A i \in 1 .. Len(s) : (s \o t)[i] = s[i]
           /\ \A i \in 1 .. Len(t) : (s \o t)[Len(s) + i] = t[i]
           /\ \A i \in 1 .. Len(s) + Len(t) :
                 i \in 1 .. Len(s) \/ (i - Len(s) \in 1 .. Len(t) /\ (s \o t)[i] = t[i - Len(s)])
<1>1. /\ s \o t \in Seq(Steps) /\ Len(s) \in Nat /\ Len(t) \in Nat
      /\ Len(s \o t) = Len(s) + Len(t)
      /\ \A i \in 1 .. Len(s) + Len(t) : (s \o t)[i] = IF i <= Len(s) THEN s[i] ELSE t[i - Len(s)]
  BY ConcatProperties, LenProperties
<1> DEFINE n == Len(s)
           m == Len(t)
           u == s \o t
<1> HIDE DEF n, m, u
<1>2. /\ n \in Nat /\ m \in Nat
      /\ \A i \in 1 .. n + m : u[i] = IF i <= n THEN s[i] ELSE t[i - n]
  BY <1>1 DEF n, m, u
<1>3. /\ \A i \in 1 .. n : u[i] = s[i]
      /\ \A i \in 1 .. n + m : i \in 1 .. n \/ (i - n \in 1 .. m /\ u[i] = t[i - n])
  BY <1>2
<1>4. ASSUME NEW i \in 1 .. m PROVE u[n + i] = t[i]
  <2>1. n + i \in 1 .. n + m /\ ~ (n + i <= n) /\ (n + i) - n = i
    BY <1>2
  <2> QED BY <1>2, <2>1
<1> QED BY <1>1, <1>3, <1>4, Zenon DEF n, m, u

LEMMA ReadFirstConcat ==
    ASSUME NEW s \in Seq(Steps), NEW t \in Seq(Steps), NEW W, NEW R,
           ReadFirst(s, W, R), ReadFirst(t, W, R)
    PROVE  ReadFirst(s \o t, W, R)
<1> DEFINE n == Len(s)
           m == Len(t)
           u == s \o t
<1>1. /\ n \in Nat /\ m \in Nat /\ Len(u) = n + m
      /\ \A i \in 1 .. n : u[i] = s[i]
      /\ \A i \in 1 .. m : u[n + i] = t[i]
      /\ \A i \in 1 .. n + m : i \in 1 .. n \/ (i - n \in 1 .. m /\ u[i] = t[i - n])
  BY ConcatItems
<1> HIDE DEF n, m, u
<1>2. ASSUME NEW i \in 1 .. n + m, u[i] \in W PROVE \E j \in 1 .. i - 1 : u[j] \in R
  <2>1. CASE i \in 1 .. n
    <3>1. PICK j \in 1 .. i - 1 : s[j] \in R
      BY <1>1, <1>2, <2>1 DEF ReadFirst, n
    <3>2. j \in 1 .. n
      BY <1>1, <2>1, <3>1
    <3> QED BY <1>1, <3>1, <3>2
  <2>2. CASE i - n \in 1 .. m /\ u[i] = t[i - n]
    <3>1. PICK j \in 1 .. (i - n) - 1 : t[j] \in R
      BY <1>2, <2>2 DEF ReadFirst, m
    <3>2. n + j \in 1 .. i - 1 /\ j \in 1 .. m
      BY <1>1, <2>2, <3>1
    <3> QED BY <1>1, <3>1, <3>2
  <2> QED BY <1>1, <2>1, <2>2
<1> QED BY <1>1, <1>2 DEF ReadFirst, u

LEMMA RereadsConcat ==
    ASSUME NEW s \in Seq(Steps), NEW t \in Seq(Steps), NEW W, NEW R,
           Rereads(s, W, R), Rereads(t, W, R), ReadFirst(t, W, R)
    PROVE  Rereads(s \o t, W, R)
<1> DEFINE n == Len(s)
           m == Len(t)
           u == s \o t
<1>1. /\ n \in Nat /\ m \in Nat /\ Len(u) = n + m
      /\ \A i \in 1 .. n : u[i] = s[i]
      /\ \A i \in 1 .. m : u[n + i] = t[i]
      /\ \A i \in 1 .. n + m : i \in 1 .. n \/ (i - n \in 1 .. m /\ u[i] = t[i - n])
  BY ConcatItems
<1> HIDE DEF n, m, u
<1>2. ASSUME NEW i \in 1 .. n + m, NEW k \in 1 .. n + m, i < k, u[i] \in W, u[k] \in W
      PROVE  \E j \in i + 1 .. k - 1 : u[j] \in R
  <2>1. CASE k \in 1 .. n
    <3>1. i \in 1 .. n /\ s[i] \in W /\ s[k] \in W
      BY <1>1, <1>2, <2>1
    <3>2. PICK j \in i + 1 .. k - 1 : s[j] \in R
      BY <1>2, <2>1, <3>1 DEF Rereads, n
    <3>3. j \in 1 .. n
      BY <1>1, <2>1, <3>1, <3>2
    <3> QED BY <1>1, <3>2, <3>3
  <2>2. CASE i \in 1 .. n /\ k - n \in 1 .. m /\ u[k] = t[k - n]
    <3>1. PICK j \in 1 .. (k - n) - 1 : t[j] \in R
      BY <1>2, <2>2 DEF ReadFirst, m
    <3>2. n + j \in i + 1 .. k - 1 /\ j \in 1 .. m
      BY <1>1, <2>2, <3>1
    <3> QED BY <1>1, <3>1, <3>2
  <2>3. CASE i - n \in 1 .. m /\ u[i] = t[i - n] /\ k - n \in 1 .. m /\ u[k] = t[k - n]
    <3>1. i - n < k - n
      BY <1>1, <1>2
    <3>2. PICK j \in (i - n) + 1 .. (k - n) - 1 : t[j] \in R
      BY <1>2, <2>3, <3>1 DEF Rereads, m
    <3>3. n + j \in i + 1 .. k - 1 /\ j \in 1 .. m
      BY <1>1, <2>3, <3>2
    <3> QED BY <1>1, <3>2, <3>3
  <2> QED BY <1>1, <1>2, <2>1, <2>2, <2>3
<1> QED BY <1>1, <1>2 DEF Rereads, u

LEMMA GoodConcat ==
    ASSUME NEW s, NEW t, Good(s), Good(t)
    PROVE  Good(s \o t)
BY ReadFirstConcat, RereadsConcat, ConcatItems DEF Good

LEMMA ClosingConcat ==
    ASSUME NEW s \in Seq(Steps), NEW t \in Seq(Steps), NEW kind, Early(s), Closing(t, kind),
           kind \in AnalysisKinds => Len(t) >= 5
    PROVE  Closing(s \o t, kind) /\ (kind \in AnalysisKinds => Len(s \o t) >= 5)
<1> DEFINE n == Len(s)
           m == Len(t)
           u == s \o t
<1>1. /\ n \in Nat /\ m \in Nat /\ Len(u) = n + m
      /\ \A i \in 1 .. n : u[i] = s[i]
      /\ \A i \in 1 .. n + m : i \in 1 .. n \/ (i - n \in 1 .. m /\ u[i] = t[i - n])
  BY ConcatItems
<1>2. kind \in AnalysisKinds => m >= 5
  OBVIOUS
<1> HIDE DEF n, m, u
<1>3. ASSUME NEW i \in 1 .. n + m
      PROVE  /\ u[i] = "appendAnalysis" <=> kind \in AnalysisKinds /\ n + m - i = 4
             /\ u[i] = "writeLatest" <=> kind \in AnalysisKinds /\ n + m - i = 3
             /\ u[i] = "addSnapshot" <=> kind \in AnalysisKinds /\ n + m - i = 2
             /\ u[i] = "countAnalysis" <=> kind \in AnalysisKinds /\ n + m - i = 1
  <2>1. CASE i \in 1 .. n
    <3>1. u[i] \notin {"appendAnalysis", "writeLatest", "addSnapshot", "countAnalysis"}
      BY <1>1, <2>1 DEF Early, n
    <3>2. kind \in AnalysisKinds => n + m - i >= 5
      BY <1>1, <1>2, <2>1
    <3> QED BY <1>1, <3>1, <3>2
  <2>2. CASE i - n \in 1 .. m /\ u[i] = t[i - n]
    <3>1. n + m - i = m - (i - n)
      BY <1>1
    <3> QED BY <2>2, <3>1 DEF Closing, m
  <2> QED BY <1>1, <2>1, <2>2
<1> QED BY <1>1, <1>2, <1>3 DEF Closing, u

\* The pieces the programs are put together from.
LEMMA PiecesGood ==
    /\ Good(<<"check">>) /\ Early(<<"check">>)
    /\ Good(<<"readState", "check">>) /\ Early(<<"readState", "check">>)
    /\ Good(<<"check", "writeSuccessors">>) /\ Early(<<"check", "writeSuccessors">>)
    /\ Good(<<"list", "unlink", "removeDir">>) /\ Early(<<"list", "unlink", "removeDir">>)
    /\ Good(<<"readState", "checkSave", "saveState">>)
    /\ Early(<<"readState", "checkSave", "saveState">>)
    /\ Good(<<"readProject", "readIntake", "rewriteProject", "writeProfile">>)
    /\ Early(<<"readProject", "readIntake", "rewriteProject", "writeProfile">>)
    /\ Good(<<"readProject", "readIntake", "rewriteProject", "writeProfile", "mergePatch">>)
    /\ Early(<<"readProject", "readIntake", "rewriteProject", "writeProfile", "mergePatch">>)
    /\ Good(AnalysisSteps) /\ Len(AnalysisSteps) = 7
<1> USE DEF Good, Early, ReadFirst, Rereads, IntakeWrites, IntakeReads, ProjectWrites,
            ProjectReads, Steps
<1>1. Good(<<"check">>) /\ Early(<<"check">>)
  OBVIOUS
<1>2. Good(<<"readState", "check">>) /\ Early(<<"readState", "check">>)
  OBVIOUS
<1>3. Good(<<"check", "writeSuccessors">>) /\ Early(<<"check", "writeSuccessors">>)
  OBVIOUS
<1>4. Good(<<"list", "unlink", "removeDir">>) /\ Early(<<"list", "unlink", "removeDir">>)
  OBVIOUS
<1>5. /\ Good(<<"readState", "checkSave", "saveState">>)
      /\ Early(<<"readState", "checkSave", "saveState">>)
  OBVIOUS
<1>6. /\ Good(<<"readProject", "readIntake", "rewriteProject", "writeProfile">>)
      /\ Early(<<"readProject", "readIntake", "rewriteProject", "writeProfile">>)
  OBVIOUS
<1>7. /\ Good(<<"readProject", "readIntake", "rewriteProject", "writeProfile", "mergePatch">>)
      /\ Early(<<"readProject", "readIntake", "rewriteProject", "writeProfile", "mergePatch">>)
  OBVIOUS
<1>8. Good(AnalysisSteps) /\ Len(AnalysisSteps) = 7
  BY DEF AnalysisSteps
<1> QED BY <1>1, <1>2, <1>3, <1>4, <1>5, <1>6, <1>7, <1>8

LEMMA PatchesConcat ==
    ASSUME NEW s \in Seq(Steps), NEW t \in Seq(Steps), Patches(s) \/ Patches(t)
    PROVE  Patches(s \o t)
<1>1. CASE Patches(s)
  <2>1. PICK i \in 1 .. Len(s) : s[i] \in {"mergePatch", "saveState"}
    BY <1>1 DEF Patches
  <2>2. (s \o t)[i] = s[i] /\ i \in 1 .. Len(s \o t)
    BY ConcatItems
  <2> QED BY <2>1, <2>2 DEF Patches
<1>2. CASE Patches(t)
  <2>1. PICK i \in 1 .. Len(t) : t[i] \in {"mergePatch", "saveState"}
    BY <1>2 DEF Patches
  <2>2. (s \o t)[Len(s) + i] = t[i] /\ Len(s) + i \in 1 .. Len(s \o t)
    BY ConcatItems
  <2> QED BY <2>1, <2>2 DEF Patches
<1> QED BY <1>1, <1>2

LEMMA SameItems ==
    ASSUME NEW s \in Seq(Steps), NEW t \in Seq(Steps), Len(s) = Len(t),
           \A i \in 1 .. Len(s) : s[i] = t[i]
    PROVE  s = t
BY SeqEqual

LEMMA UpdateWritten ==
    ASSUME NEW fields
    PROVE  UpdateSteps(fields) =
             IF fields = {}
             THEN <<"readProject", "readIntake", "rewriteProject", "writeProfile">>
             ELSE <<"readProject", "readIntake", "rewriteProject", "writeProfile", "mergePatch">>
<1> DEFINE four == <<"readProject", "readIntake", "rewriteProject", "writeProfile">>
           five == <<"readProject", "readIntake", "rewriteProject", "writeProfile", "mergePatch">>
           last == <<"mergePatch">>
<1>1. /\ four \in Seq(Steps) /\ five \in Seq(Steps) /\ last \in Seq(Steps)
      /\ Len(four) = 4 /\ Len(five) = 5 /\ Len(last) = 1 /\ last[1] = five[5]
  BY DEF Steps
<1>2. UpdateSteps(fields) = four \o (IF fields = {} THEN <<>> ELSE last)
  BY DEF UpdateSteps
<1>5. \A i \in 1 .. 4 : four[i] = five[i]
  BY <1>1
<1> HIDE DEF four, five, last
<1>3. CASE fields = {}
  BY <1>1, <1>2, <1>3, ConcatEmptySeq DEF four
<1>4. CASE fields # {}
  <2>1. /\ four \o last \in Seq(Steps) /\ Len(four \o last) = 5
        /\ \A i \in 1 .. 4 : (four \o last)[i] = four[i]
        /\ (four \o last)[4 + 1] = last[1]
    <3>1. /\ four \o last \in Seq(Steps) /\ Len(four \o last) = Len(four) + Len(last)
          /\ \A i \in 1 .. Len(four) : (four \o last)[i] = four[i]
          /\ \A i \in 1 .. Len(last) : (four \o last)[Len(four) + i] = last[i]
      BY <1>1, ConcatItems, Zenon
    <3> QED BY <1>1, <3>1
  <2>2. \A i \in 1 .. 5 : (four \o last)[i] = five[i]
    BY <1>1, <1>5, <2>1
  <2>3. four \o last = five
    BY <1>1, <2>1, <2>2, SameItems
  <2> QED BY <1>2, <1>4, <2>3 DEF five
<1> QED BY <1>3, <1>4

LEMMA DeleteWritten ==
    ASSUME NEW i, i.kind = "delete"
    PROVE  Program(i) = <<"check", "list", "unlink", "removeDir">>
<1> DEFINE first == <<"check">>
           rest == <<"list", "unlink", "removeDir">>
           whole == <<"check", "list", "unlink", "removeDir">>
<1>1. /\ first \in Seq(Steps) /\ rest \in Seq(Steps) /\ whole \in Seq(Steps)
      /\ Len(first) = 1 /\ Len(rest) = 3 /\ Len(whole) = 4 /\ whole[1] = first[1]
      /\ \A j \in 1 .. 3 : whole[1 + j] = rest[j]
  BY DEF Steps
<1>2. Program(i) = first \o rest
  BY DEF Program
<1> HIDE DEF first, rest, whole
<1>3. /\ first \o rest \in Seq(Steps) /\ Len(first \o rest) = 4
      /\ (first \o rest)[1] = first[1]
      /\ \A j \in 1 .. 3 : (first \o rest)[1 + j] = rest[j]
  <2>1. /\ first \o rest \in Seq(Steps) /\ Len(first \o rest) = Len(first) + Len(rest)
        /\ \A j \in 1 .. Len(first) : (first \o rest)[j] = first[j]
        /\ \A j \in 1 .. Len(rest) : (first \o rest)[Len(first) + j] = rest[j]
    BY <1>1, ConcatItems, Zenon
  <2> QED BY <1>1, <2>1
<1>4. \A j \in 1 .. 4 : (first \o rest)[j] = whole[j]
  <2> SUFFICES ASSUME NEW j \in 1 .. 4 PROVE (first \o rest)[j] = whole[j]
    OBVIOUS
  <2>1. j = 1 \/ (j - 1 \in 1 .. 3 /\ 1 + (j - 1) = j)
    OBVIOUS
  <2> QED BY <1>1, <1>3, <2>1
<1>5. first \o rest = whole
  BY <1>1, <1>3, <1>4, SameItems
<1> QED BY <1>2, <1>5 DEF whole

LEMMA ProgramSound ==
    ASSUME NEW i \in Inputs
    PROVE  /\ Sound(Program(i), i.kind)
           /\ ReadFirst(Program(i), IntakeWrites, IntakeReads)
           /\ ReadFirst(Program(i), ProjectWrites, ProjectReads)
           /\ i.fields # {} => Patches(Program(i))
           /\ i.kind \in AnalysisKinds => Len(Program(i)) >= 5
           /\ Head(Program(i)) = "check"
           /\ i.kind = "delete" => Program(i) = <<"check", "list", "unlink", "removeDir">>
<1> DEFINE Fine(s) == /\ Good(s) /\ Closing(s, i.kind)
                      /\ i.kind \in AnalysisKinds => Len(s) >= 5
                      /\ i.fields # {} => Patches(s)
           four == <<"readProject", "readIntake", "rewriteProject", "writeProfile">>
           five == <<"readProject", "readIntake", "rewriteProject", "writeProfile", "mergePatch">>
<1>1. ASSUME NEW p, NEW s, Good(p), Early(p), Good(s), Closing(s, i.kind),
             i.kind \in AnalysisKinds => Len(s) >= 5,
             i.fields # {} => Patches(p) \/ Patches(s)
      PROVE  Fine(p \o s)
  <2>1. p \in Seq(Steps) /\ s \in Seq(Steps)
    BY <1>1 DEF Good
  <2> QED BY <1>1, <2>1, GoodConcat, ClosingConcat, PatchesConcat
<1>2. ASSUME NEW s, Good(s), Early(s), i.kind \notin AnalysisKinds PROVE Closing(s, i.kind)
  BY <1>2 DEF Early, Closing
<1>3. ASSUME NEW s, Fine(s), Program(i) = <<"check">> \o s
      PROVE  Fine(Program(i)) /\ Head(Program(i)) = "check"
  <2>1. Fine(<<"check">> \o s)
    BY <1>1, <1>3, PiecesGood
  <2>2. <<"check">> \in Seq(Steps) /\ s \in Seq(Steps)
    BY <1>3, PiecesGood DEF Good
  <2>3. Head(<<"check">> \o s) = "check"
    BY <2>2
  <2> QED BY <1>3, <2>1, <2>3
<1>4. UpdateSteps(i.fields) = IF i.fields = {} THEN four ELSE five
  BY UpdateWritten
<1>5. /\ Good(UpdateSteps(i.fields)) /\ Early(UpdateSteps(i.fields))
      /\ i.fields # {} => Patches(UpdateSteps(i.fields))
  <2>1. Patches(five)
    BY DEF Patches
  <2> QED BY <1>4, <2>1, PiecesGood
<1>6. /\ i.kind \in AnalysisKinds => Closing(AnalysisSteps, i.kind)
      /\ Good(AnalysisSteps) /\ Len(AnalysisSteps) >= 5
  BY PiecesGood DEF Closing, AnalysisSteps
<1>7. i.kind \notin {"update", "complete", "run"} => i.fields = {}
  BY DEF Inputs
<1> HIDE DEF Fine, four, five
<1>8. Fine(Program(i)) /\ Head(Program(i)) = "check"
  <2>1. CASE i.kind = "update"
    <3>1. Program(i) = <<"check">> \o UpdateSteps(i.fields)
      BY <2>1 DEF Program
    <3>2. Fine(UpdateSteps(i.fields))
      BY <1>2, <1>5, <2>1 DEF Fine, AnalysisKinds
    <3> QED BY <1>3, <3>1, <3>2
  <2>2. CASE i.kind = "complete"
    <3>1. Program(i) = <<"check">> \o <<"readState", "checkSave", "saveState">>
      BY <2>2 DEF Program
    <3>2. Patches(<<"readState", "checkSave", "saveState">>)
      BY DEF Patches
    <3>3. Fine(<<"readState", "checkSave", "saveState">>)
      BY <1>2, <2>2, <3>2, PiecesGood DEF Fine, AnalysisKinds
    <3> QED BY <1>3, <3>1, <3>3
  <2>3. CASE i.kind = "append"
    <3>1. Program(i) = <<"check">> \o AnalysisSteps
      BY <2>3 DEF Program
    <3>2. Fine(AnalysisSteps)
      BY <1>6, <1>7, <2>3 DEF Fine, AnalysisKinds
    <3> QED BY <1>3, <3>1, <3>2
  <2>4. CASE i.kind = "analyze"
    <3>1. Program(i) = <<"check">> \o (<<"readState", "check">> \o AnalysisSteps)
      BY <2>4 DEF Program
    <3>2. Fine(<<"readState", "check">> \o AnalysisSteps)
      BY <1>1, <1>6, <1>7, <2>4, PiecesGood DEF AnalysisKinds
    <3> QED BY <1>3, <3>1, <3>2
  <2>5. CASE i.kind = "run"
    <3>1. Program(i) = <<"check">> \o (UpdateSteps(i.fields) \o AnalysisSteps)
      BY <2>5 DEF Program
    <3>2. Fine(UpdateSteps(i.fields) \o AnalysisSteps)
      BY <1>1, <1>5, <1>6, <2>5 DEF AnalysisKinds
    <3> QED BY <1>3, <3>1, <3>2
  <2>6. CASE i.kind = "successors"
    <3>1. Program(i) = <<"check">> \o <<"check", "writeSuccessors">>
      BY <2>6 DEF Program
    <3>2. Fine(<<"check", "writeSuccessors">>)
      BY <1>2, <1>7, <2>6, PiecesGood DEF Fine, AnalysisKinds
    <3> QED BY <1>3, <3>1, <3>2
  <2>7. CASE i.kind = "delete"
    <3>1. Program(i) = <<"check">> \o <<"list", "unlink", "removeDir">>
      BY <2>7 DEF Program
    <3>2. Fine(<<"list", "unlink", "removeDir">>)
      BY <1>2, <1>7, <2>7, PiecesGood DEF Fine, AnalysisKinds
    <3> QED BY <1>3, <3>1, <3>2
  <2> QED BY <2>1, <2>2, <2>3, <2>4, <2>5, <2>6, <2>7 DEF Inputs, Kinds
<1>9. i.kind = "delete" => Program(i) = <<"check", "list", "unlink", "removeDir">>
  BY DeleteWritten
<1> QED BY <1>8, <1>9 DEF Fine, Good, Sound
-----------------------------------------------------------------------------
(* One step of a request in a project nobody deletes.                      *)

\* The request did its next step and went on, or ended with 200.
GoesOn(r) ==
    LET step == Head(todo[r]) IN
    /\ todo'[r] = Tail(todo[r])
    /\ status'[r] = IF todo'[r] = <<>> THEN "ok" ELSE "running"
    /\ {"project", "intake"} \subseteq files'
    /\ intake' = IF step \in {"mergePatch", "saveState"} THEN Merge(seen[r].intake, r)
                 ELSE IF step = "addSnapshot" /\ seen[r].hasIntake /\ input[r].scored
                 THEN WithSnapshot(seen[r].intake, r)
                 ELSE intake
    /\ project' = IF step = "rewriteProject" THEN seen[r].project
                  ELSE IF step = "countAnalysis"
                  THEN [count |-> seen[r].project.count + 1, latest |-> r]
                  ELSE project
    /\ analyses' = IF step = "appendAnalysis" THEN analyses \cup {r} ELSE analyses
    /\ latest' = IF step = "writeLatest" THEN r ELSE latest
    /\ \/ todo'[r] = <<>> /\ seen'[r] = NothingSeen
       \/ /\ seen'[r].intake = IF step \in IntakeReads THEN intake ELSE seen[r].intake
          /\ seen'[r].hasIntake = (step \in IntakeReads \/ seen[r].hasIntake)
          /\ seen'[r].project = IF step \in ProjectReads THEN project ELSE seen[r].project

\* The request ended with an error and left the files as they are.
GivesUp(r) ==
    /\ status'[r] = "error" /\ todo'[r] = <<>> /\ seen'[r] = NothingSeen
    /\ UNCHANGED diskVars

\* Only this request moved.
Moves(r) ==
    /\ Running(r) /\ status'[r] # "idle"
    /\ input' = input /\ met' = met
    /\ \A q \in Requests \ {r} :
          status'[q] = status[q] /\ todo'[q] = todo[q] /\ seen'[q] = seen[q]

\* The request was made, with this input.
Starts(r, i) ==
    /\ status[r] = "idle" /\ status'[r] = "running"
    /\ input'[r] = i /\ todo'[r] = Program(i)
    /\ \A q \in Requests \ {r} :
          status'[q] = status[q] /\ todo'[q] = todo[q] /\ input'[q] = input[q]
    /\ seen' = seen /\ UNCHANGED diskVars
    /\ met \subseteq met' /\ met' \subseteq Requests
    /\ r \notin met' => \A q \in Requests : ~Running(q)
    /\ \A q \in Requests : Running(q) => q \in met'

Onward ==
    Deletes = {} =>
        /\ {"project", "intake"} \subseteq files
        /\ \A r \in Requests :
              /\ Running(r) => Sound(todo[r], input[r].kind)
              /\ status[r] = "ok" => todo[r] = <<>>

LEMMA StepMet ==
    ASSUME NEW r \in Requests, Step(r)
    PROVE  met' = met
BY DEF Step, Check, CheckSave, ReadProject, ReadIntake, ReadState, RewriteProject,
       WriteProfile, WriteSuccessors, MergePatch, SaveState, WriteMerged, AppendAnalysis,
       WriteLatest, AddSnapshot, CountAnalysis, List, Unlink, RemoveDir,
       Continue, Proceed, EndInError

LEMMA StepMoves ==
    ASSUME TypeInv, NEW r \in Requests, Step(r)
    PROVE  Moves(r)
BY StepFrame, StepMet DEF Moves

LEMMA FailGivesUp ==
    ASSUME TypeInv, NEW r \in Requests, Fail(r)
    PROVE  Moves(r) /\ GivesUp(r)
BY DEF Fail, EndInError, Moves, GivesUp, TypeInv, MemoryOK, RequestsOK

LEMMA BeginStarts ==
    ASSUME TypeInv, NEW r \in Requests, Begin(r)
    PROVE  \E i \in Inputs : Starts(r, i)
<1>1. PICK i \in Inputs : /\ input' = [input EXCEPT ![r] = i]
                          /\ todo' = [todo EXCEPT ![r] = Program(i)]
  BY DEF Begin
<1> DEFINE active == {q \in Requests : Running(q)}
<1>2. /\ status[r] = "idle" /\ status' = [status EXCEPT ![r] = "running"]
      /\ met' = IF active = {} THEN met ELSE met \cup active \cup {r}
      /\ seen' = seen /\ UNCHANGED diskVars
  BY DEF Begin
<1>3. /\ met \subseteq met' /\ met' \subseteq Requests
      /\ r \notin met' => \A q \in Requests : ~Running(q)
      /\ \A q \in Requests : Running(q) => q \in met'
  BY <1>2 DEF TypeInv, MemoryOK, RequestsOK
<1>4. /\ status'[r] = "running" /\ input'[r] = i /\ todo'[r] = Program(i)
      /\ \A q \in Requests \ {r} :
            status'[q] = status[q] /\ todo'[q] = todo[q] /\ input'[q] = input[q]
  BY <1>1, <1>2 DEF TypeInv, MemoryOK, RequestsOK
<1> QED BY <1>2, <1>3, <1>4 DEF Starts

\* What is to be shown of a request that goes on past one step.
LEMMA Further ==
    ASSUME TypeInv, NEW r \in Requests, NEW view, Continue(r, Tail(todo[r]), view)
    PROVE  /\ todo'[r] = Tail(todo[r])
           /\ status'[r] = IF todo'[r] = <<>> THEN "ok" ELSE "running"
           /\ (todo'[r] = <<>> /\ seen'[r] = NothingSeen) \/ seen'[r] = view
BY DEF Continue, TypeInv, MemoryOK, RequestsOK

LEMMA PlainStep ==
    ASSUME TypeInv, Logged, Deletes = {}, {"project", "intake"} \subseteq files,
           NEW r \in Requests, Step(r)
    PROVE  GoesOn(r) \/ GivesUp(r)
<1> DEFINE step == Head(todo[r])
<1>1. seen[r] \in Views /\ dir /\ "project" \in files /\ "intake" \in files
  BY DEF TypeInv, MemoryOK, RequestsOK, DiskOK
<1>2. /\ step \notin {"list", "unlink"} /\ Tail(todo[r]) \in Seq(Steps)
      /\ <<>> \o Tail(todo[r]) = Tail(todo[r])
  BY StepFrame, HeadStep, ConcatEmptySeq
<1>3. EndInError(r) /\ UNCHANGED diskVars => GivesUp(r)
  BY DEF EndInError, GivesUp, TypeInv, MemoryOK, RequestsOK
<1>4. ASSUME Proceed(r)
      PROVE  /\ todo'[r] = Tail(todo[r])
             /\ status'[r] = IF todo'[r] = <<>> THEN "ok" ELSE "running"
             /\ (todo'[r] = <<>> /\ seen'[r] = NothingSeen) \/ seen'[r] = seen[r]
  BY <1>4, Further DEF Proceed
<1>5. ASSUME Proceed(r), step \notin IntakeReads, step \notin ProjectReads,
             {"project", "intake"} \subseteq files',
             intake' = IF step \in {"mergePatch", "saveState"} THEN Merge(seen[r].intake, r)
                       ELSE IF step = "addSnapshot" /\ seen[r].hasIntake /\ input[r].scored
                       THEN WithSnapshot(seen[r].intake, r)
                       ELSE intake,
             project' = IF step = "rewriteProject" THEN seen[r].project
                        ELSE IF step = "countAnalysis"
                        THEN [count |-> seen[r].project.count + 1, latest |-> r]
                        ELSE project,
             analyses' = IF step = "appendAnalysis" THEN analyses \cup {r} ELSE analyses,
             latest' = IF step = "writeLatest" THEN r ELSE latest
      PROVE  GoesOn(r)
  <2>1. (step \in IntakeReads \/ seen[r].hasIntake) = seen[r].hasIntake
    BY <1>1, <1>5 DEF Views
  <2> QED BY <1>4, <1>5, <2>1 DEF GoesOn
<1>6. ASSUME Check(r) PROVE GoesOn(r)
  BY <1>1, <1>5, <1>6 DEF Check, At, diskVars, IntakeReads, ProjectReads
<1>7. ASSUME ReadProject(r) PROVE GoesOn(r)
  <2> DEFINE view == [seen[r] EXCEPT !.project = project]
  <2>1. /\ step = "readProject" /\ UNCHANGED diskVars
        /\ Continue(r, Tail(todo[r]), view)
    BY <1>1, <1>7 DEF ReadProject, At
  <2>2. view.intake = seen[r].intake /\ view.hasIntake = seen[r].hasIntake
        /\ view.project = project /\ seen[r].hasIntake \in BOOLEAN
    BY <1>1 DEF Views
  <2> HIDE DEF view
  <2>3. step \notin IntakeReads /\ step \in ProjectReads
    BY <2>1 DEF IntakeReads, ProjectReads
  <2> QED BY <1>1, <2>1, <2>2, <2>3, Further DEF GoesOn, diskVars
<1>8. ASSUME ReadIntake(r) \/ ReadState(r) PROVE GoesOn(r)
  <2>1. /\ step \in {"readIntake", "readState"} /\ UNCHANGED diskVars
        /\ Continue(r, Tail(todo[r]), WithIntake(seen[r]))
    BY <1>1, <1>2, <1>8 DEF ReadIntake, ReadState, At
  <2>2. /\ WithIntake(seen[r]).intake = intake /\ WithIntake(seen[r]).hasIntake = TRUE
        /\ WithIntake(seen[r]).project = seen[r].project
    BY <1>1 DEF WithIntake, Views
  <2>3. step \in IntakeReads /\ step \notin ProjectReads
    BY <2>1 DEF IntakeReads, ProjectReads
  <2>4. /\ todo'[r] = Tail(todo[r])
        /\ status'[r] = IF todo'[r] = <<>> THEN "ok" ELSE "running"
        /\ (todo'[r] = <<>> /\ seen'[r] = NothingSeen) \/ seen'[r] = WithIntake(seen[r])
    BY <2>1, Further
  <2> QED BY <1>1, <2>1, <2>2, <2>3, <2>4 DEF GoesOn, diskVars
<1>9. ASSUME CheckSave(r) PROVE GoesOn(r)
  BY <1>1, <1>5, <1>9 DEF CheckSave, At, diskVars, IntakeReads, ProjectReads
<1>10. ASSUME RewriteProject(r) \/ WriteProfile(r) \/ WriteSuccessors(r) PROVE GoesOn(r)
  BY <1>1, <1>5, <1>10 DEF RewriteProject, WriteProfile, WriteSuccessors, Write, At,
                           IntakeReads, ProjectReads
<1>11. ASSUME MergePatch(r) \/ SaveState(r) PROVE GoesOn(r)
  BY <1>1, <1>5, <1>11 DEF MergePatch, SaveState, WriteMerged, Write, At,
                           IntakeReads, ProjectReads
<1>12. ASSUME AppendAnalysis(r) \/ WriteLatest(r) \/ CountAnalysis(r) PROVE GoesOn(r)
  BY <1>1, <1>5, <1>12 DEF AppendAnalysis, WriteLatest, CountAnalysis, Write, At,
                           IntakeReads, ProjectReads
<1>13. ASSUME AddSnapshot(r) PROVE GoesOn(r)
  BY <1>1, <1>5, <1>13 DEF AddSnapshot, Write, At, IntakeReads, ProjectReads
<1>14. ASSUME RemoveDir(r) PROVE GivesUp(r)
  BY <1>1, <1>3, <1>14 DEF RemoveDir, diskVars
<1>15. ~List(r) /\ ~Unlink(r)
  BY <1>2 DEF List, Unlink, At
<1> QED BY <1>6, <1>7, <1>8, <1>9, <1>10, <1>11, <1>12, <1>13, <1>14, <1>15 DEF Step

\* All that can happen while nobody deletes the project.
LEMMA NextCases ==
    ASSUME TypeInv, Logged, Onward, [Next]_vars, (Deletes = {})'
    PROVE  /\ Deletes = {} /\ {"project", "intake"} \subseteq files
           /\ \/ \E r \in Requests, i \in Inputs : Starts(r, i)
              \/ \E r \in Requests : Moves(r) /\ (GoesOn(r) \/ GivesUp(r))
              \/ UNCHANGED vars
<1>1. CASE \E r \in Requests : Begin(r)
  <2>1. PICK r \in Requests : Begin(r)
    BY <1>1
  <2>2. PICK i \in Inputs : Starts(r, i)
    BY <2>1, BeginStarts
  <2>3. \A q \in Deletes : q \in Deletes'
    BY <2>2 DEF Starts, Deletes, Is, Begun
  <2> QED BY <2>2, <2>3 DEF Onward
<1>2. CASE \E r \in Requests : Step(r)
  <2>1. PICK r \in Requests : Step(r)
    BY <1>2
  <2>2. Deletes = {}
    BY <2>1, StepDeletes
  <2> QED BY <2>1, <2>2, StepMoves, PlainStep DEF Onward
<1>3. CASE \E r \in Requests : Fail(r)
  <2>1. PICK r \in Requests : Moves(r) /\ GivesUp(r)
    BY <1>3, FailGivesUp
  <2>2. \A q \in Deletes : q \in Deletes'
    BY <2>1 DEF Moves, Deletes, Is, Begun, Running
  <2> QED BY <2>1, <2>2 DEF Onward
<1>4. CASE UNCHANGED vars
  <2>1. Deletes' = Deletes
    BY <1>4 DEF vars, requestVars, Deletes, Is, Begun
  <2> QED BY <1>4, <2>1 DEF Onward
<1> QED BY <1>1, <1>2, <1>3, <1>4 DEF Next, Done

\* The requests that move are the same ones, asking for the same.
LEMMA MovesSame ==
    ASSUME NEW r \in Requests, Moves(r)
    PROVE  /\ Deletes' = Deletes /\ Analyses' = Analyses
           /\ \A f : Patchers(f)' = Patchers(f)
           /\ \A q \in Requests : Running(q)' => Running(q)
BY DEF Moves, Deletes, Analyses, Patchers, Is, Begun, Running

LEMMA OnwardInit == Init => Onward
BY DEF Init, Onward, Running

LEMMA OnwardNext == TypeInv /\ Logged /\ Onward /\ [Next]_vars => Onward'
<1> SUFFICES ASSUME TypeInv, Logged, Onward, [Next]_vars, (Deletes = {})'
             PROVE  /\ {"project", "intake"} \subseteq files'
                    /\ \A q \in Requests :
                          /\ Running(q)' => Sound(todo'[q], input'[q].kind)
                          /\ status'[q] = "ok" => todo'[q] = <<>>
  BY DEF Onward, Sound, Rereads, Closing
<1>1. /\ Deletes = {} /\ {"project", "intake"} \subseteq files
      /\ \A q \in Requests : /\ Running(q) => Sound(todo[q], input[q].kind)
                             /\ status[q] = "ok" => todo[q] = <<>>
  BY NextCases DEF Onward
<1>2. ASSUME NEW r \in Requests, NEW i \in Inputs, Starts(r, i)
      PROVE  /\ {"project", "intake"} \subseteq files'
             /\ \A q \in Requests :
                   /\ Running(q)' => Sound(todo'[q], input'[q].kind)
                   /\ status'[q] = "ok" => todo'[q] = <<>>
  <2>1. Sound(Program(i), i.kind)
    BY ProgramSound
  <2> QED BY <1>1, <1>2, <2>1 DEF Starts, diskVars, Running
<1>3. ASSUME NEW r \in Requests, Moves(r), GoesOn(r) \/ GivesUp(r)
      PROVE  /\ {"project", "intake"} \subseteq files'
             /\ \A q \in Requests :
                   /\ Running(q)' => Sound(todo'[q], input'[q].kind)
                   /\ status'[q] = "ok" => todo'[q] = <<>>
  <2>1. todo[r] \in Seq(Steps) /\ todo[r] # <<>> /\ Sound(todo[r], input[r].kind)
    BY <1>1, <1>3 DEF Moves, TypeInv, MemoryOK, RequestsOK
  <2>2. Sound(Tail(todo[r]), input[r].kind)
    BY <2>1, SoundTail
  <2>3. {"project", "intake"} \subseteq files'
    BY <1>1, <1>3 DEF GoesOn, GivesUp, diskVars
  <2>4. ASSUME NEW q \in Requests
        PROVE  /\ Running(q)' => Sound(todo'[q], input'[q].kind)
               /\ status'[q] = "ok" => todo'[q] = <<>>
    <3>1. CASE q = r
      BY <1>3, <2>2, <3>1 DEF Moves, GoesOn, GivesUp, Running
    <3>2. CASE q # r
      BY <1>1, <1>3, <3>2 DEF Moves, Running
    <3> QED BY <3>1, <3>2
  <2> QED BY <2>3, <2>4
<1>4. CASE UNCHANGED vars
  BY <1>1, <1>4 DEF vars, diskVars, requestVars, Running
<1> QED BY <1>2, <1>3, <1>4, NextCases

\* Who is running and met nobody runs alone.
Alone ==
    \A r \in Requests \ met : Running(r) => \A q \in Requests \ {r} : ~Running(q)

LEMMA AloneInit == Init => Alone
BY DEF Init, Alone, Running

LEMMA AloneNext == TypeInv /\ Alone /\ [Next]_vars => Alone'
<1> SUFFICES ASSUME TypeInv, Alone, [Next]_vars,
                    NEW p \in Requests \ met', Running(p)', NEW q \in Requests \ {p}
             PROVE  ~Running(q)'
  BY DEF Alone
<1>1. ASSUME NEW r \in Requests, NEW i, Starts(r, i) PROVE ~Running(q)'
  BY <1>1 DEF Starts, Running
<1>2. ASSUME NEW r \in Requests, Moves(r) PROVE ~Running(q)'
  <2>1. Running(p) /\ p \notin met /\ (Running(q)' => Running(q))
    BY <1>2, MovesSame DEF Moves
  <2> QED BY <2>1 DEF Alone
<1>3. CASE UNCHANGED vars
  BY <1>3 DEF vars, requestVars, Running, Alone
<1> QED BY <1>1, <1>2, <1>3, BeginStarts, StepMoves, FailGivesUp DEF Next, Done

-----------------------------------------------------------------------------
(* A deletion that met nobody.                                             *)

\* A deletion is where its program says.
DeleteSteps == {<<"check", "list", "unlink", "removeDir">>, <<"list", "unlink", "removeDir">>,
                <<"unlink", "removeDir">>, <<"removeDir">>}
Deleting ==
    \A r \in Requests : Running(r) /\ input[r].kind = "delete" => todo[r] \in DeleteSteps

LEMMA TailIs ==
    ASSUME NEW s \in Seq(Steps), NEW t \in Seq(Steps), Len(s) = Len(t) + 1,
           \A i \in 1 .. Len(t) : s[i + 1] = t[i]
    PROVE  s # <<>> /\ Tail(s) = t
<1>1. Len(t) \in Nat /\ s # <<>>
  BY LenProperties, EmptySeq
<1>2. /\ Tail(s) \in Seq(Steps) /\ Len(Tail(s)) = Len(t)
      /\ \A i \in 1 .. Len(t) : Tail(s)[i] = t[i]
  BY <1>1, TailItems
<1> QED BY <1>2, SameItems

LEMMA DeleteHead ==
    ASSUME NEW s \in DeleteSteps
    PROVE  /\ Head(s) \in {"check", "list", "unlink", "removeDir"}
           /\ Head(s) # "removeDir" => Tail(s) \in DeleteSteps /\ Tail(s) # <<>> /\ s # <<>>
           /\ Head(s) = "removeDir" => Tail(s) = <<>>
<1> DEFINE all == <<"check", "list", "unlink", "removeDir">>
           three == <<"list", "unlink", "removeDir">>
           two == <<"unlink", "removeDir">>
           one == <<"removeDir">>
<1>1. /\ all \in Seq(Steps) /\ three \in Seq(Steps) /\ two \in Seq(Steps) /\ one \in Seq(Steps)
      /\ Len(all) = 4 /\ Len(three) = 3 /\ Len(two) = 2 /\ Len(one) = 1
  BY DEF Steps
<1>2. /\ Head(all) = "check" /\ Head(three) = "list" /\ Head(two) = "unlink"
      /\ Head(one) = "removeDir"
  OBVIOUS
<1>3. /\ \A i \in 1 .. 3 : all[i + 1] = three[i]
      /\ \A i \in 1 .. 2 : three[i + 1] = two[i]
      /\ \A i \in 1 .. 1 : two[i + 1] = one[i]
  OBVIOUS
<1>4. s \in {all, three, two, one} /\ DeleteSteps = {all, three, two, one}
  BY DEF DeleteSteps
<1> HIDE DEF all, three, two, one
<1>5. all # <<>> /\ Tail(all) = three
  <2>1. Len(all) = Len(three) + 1 /\ \A i \in 1 .. Len(three) : all[i + 1] = three[i]
    BY <1>1, <1>3
  <2> QED BY <1>1, <2>1, TailIs, Zenon
<1>6. three # <<>> /\ Tail(three) = two
  <2>1. Len(three) = Len(two) + 1 /\ \A i \in 1 .. Len(two) : three[i + 1] = two[i]
    BY <1>1, <1>3
  <2> QED BY <1>1, <2>1, TailIs, Zenon
<1>7. two # <<>> /\ Tail(two) = one
  <2>1. Len(two) = Len(one) + 1 /\ \A i \in 1 .. Len(one) : two[i + 1] = one[i]
    BY <1>1, <1>3
  <2> QED BY <1>1, <2>1, TailIs, Zenon
<1>8. Tail(one) = <<>>
  BY DEF one
<1>9. one # <<>>
  BY DEF one
<1>10. CASE s = all
  BY <1>2, <1>4, <1>5, <1>6, <1>10
<1>11. CASE s = three
  BY <1>2, <1>4, <1>6, <1>7, <1>11
<1>12. CASE s = two
  BY <1>2, <1>4, <1>7, <1>9, <1>12
<1>13. CASE s = one
  BY <1>2, <1>4, <1>8, <1>13
<1> QED BY <1>4, <1>10, <1>11, <1>12, <1>13

\* Whoever is running then has not looked for the project yet.
Gone ==
    \A r \in Deletes \ met : status[r] = "ok" =>
        /\ ~dir /\ files = {}
        /\ \A q \in Requests : Running(q) => Head(todo[q]) = "check"

LEMMA GoneInit == Init => Deleting /\ Gone
BY DEF Init, Deleting, Gone, Deletes, Is, Begun, Running

LEMMA DeletingNext == TypeInv /\ Deleting /\ [Next]_vars => Deleting'
<1> SUFFICES ASSUME TypeInv, Deleting, [Next]_vars,
                    NEW q \in Requests, Running(q)', input'[q].kind = "delete"
             PROVE  todo'[q] \in DeleteSteps
  BY DEF Deleting
<1>1. ASSUME NEW r \in Requests, NEW i \in Inputs, Starts(r, i)
      PROVE  todo'[q] \in DeleteSteps
  <2>1. CASE q = r
    BY <1>1, <2>1, ProgramSound DEF Starts, DeleteSteps
  <2>2. CASE q # r
    BY <1>1, <2>2 DEF Starts, Running, Deleting
  <2> QED BY <2>1, <2>2
<1>2. ASSUME NEW r \in Requests, Step(r)
      PROVE  todo'[q] \in DeleteSteps
  <2>1. Moves(r)
    BY <1>2, StepMoves
  <2>2. CASE q # r
    BY <2>1, <2>2 DEF Moves, Running, Deleting
  <2>3. CASE q = r
    <3>1. todo[r] \in DeleteSteps
      BY <2>1, <2>3 DEF Moves, Deleting
    <3>2. /\ Head(todo[r]) \in {"check", "list", "unlink", "removeDir"}
          /\ Head(todo[r]) # "removeDir" => Tail(todo[r]) \in DeleteSteps
          /\ Head(todo[r]) = "removeDir" => Tail(todo[r]) = <<>>
      BY <3>1, DeleteHead
    <3>3. status'[r] = "running"
      BY <2>3 DEF Running
    <3>4. ~EndInError(r)
      BY <3>3 DEF EndInError, TypeInv, MemoryOK, RequestsOK
    <3>5. ASSUME NEW steps, NEW view, Continue(r, steps, view)
          PROVE  todo'[r] = steps /\ steps # <<>>
      BY <3>3, <3>5 DEF Continue, TypeInv, MemoryOK, RequestsOK
    <3>6. Proceed(r) => todo'[r] = Tail(todo[r]) /\ Tail(todo[r]) # <<>>
      BY <3>5 DEF Proceed
    <3>7. CASE Check(r) \/ RemoveDir(r)
      BY <2>3, <3>2, <3>4, <3>6, <3>7 DEF Check, RemoveDir, At
    <3>8. CASE List(r)
      BY <2>3, <3>2, <3>4, <3>5, <3>8 DEF List, At, DeleteSteps
    <3>9. CASE Unlink(r)
      BY <2>3, <3>1, <3>2, <3>4, <3>5, <3>9 DEF Unlink, At
    <3> QED BY <1>2, <3>2, <3>7, <3>8, <3>9
            DEF Step, At, ReadProject, ReadIntake, ReadState, CheckSave, RewriteProject,
                WriteProfile, WriteSuccessors, MergePatch, SaveState, AppendAnalysis,
                WriteLatest, AddSnapshot, CountAnalysis
  <2> QED BY <2>2, <2>3
<1>3. ASSUME NEW r \in Requests, Fail(r)
      PROVE  todo'[q] \in DeleteSteps
  <2>1. Moves(r) /\ GivesUp(r)
    BY <1>3, FailGivesUp
  <2> QED BY <2>1 DEF Moves, GivesUp, Running, Deleting
<1>4. CASE UNCHANGED vars
  BY <1>4 DEF vars, requestVars, Running, Deleting
<1> QED BY <1>1, <1>2, <1>3, <1>4, BeginStarts DEF Next, Done

LEMMA GoneNext == TypeInv /\ Alone /\ Deleting /\ Gone /\ [Next]_vars => Gone'
<1> SUFFICES ASSUME TypeInv, Alone, Deleting, Gone, [Next]_vars,
                    NEW d \in Deletes', d \notin met', status'[d] = "ok"
             PROVE  /\ ~dir' /\ files' = {}
                    /\ \A q \in Requests : Running(q)' => Head(todo'[q]) = "check"
  BY DEF Gone
<1> DEFINE Goal == /\ ~dir' /\ files' = {}
                   /\ \A q \in Requests : Running(q)' => Head(todo'[q]) = "check"
<1>1. d \in Requests
  BY DEF Deletes
<1>2. ASSUME NEW r \in Requests, NEW i \in Inputs, Starts(r, i) PROVE Goal
  <2>1. d # r /\ d \in Deletes /\ d \notin met /\ status[d] = "ok"
    BY <1>1, <1>2 DEF Starts, Deletes, Is, Begun
  <2>2. Head(Program(i)) = "check"
    BY ProgramSound
  <2> QED BY <1>2, <2>1, <2>2 DEF Gone, Starts, diskVars, Running
<1>3. ASSUME NEW r \in Requests, Step(r), d # r PROVE Goal
  <2>1. Moves(r) /\ Deletes' = Deletes
    BY <1>3, StepMoves, MovesSame
  <2>2. d \notin met /\ status[d] = "ok" /\ d \in Deletes
    BY <1>1, <1>3, <2>1 DEF Moves
  <2>3. ~dir /\ files = {} /\ Head(todo[r]) = "check"
    BY <2>1, <2>2 DEF Gone, Moves
  <2>4. EndInError(r) /\ UNCHANGED diskVars
    BY <1>3, <2>3
       DEF Step, Check, At, ReadProject, ReadIntake, ReadState, CheckSave, RewriteProject,
           WriteProfile, WriteSuccessors, MergePatch, SaveState, AppendAnalysis,
           WriteLatest, AddSnapshot, CountAnalysis, List, Unlink, RemoveDir
  <2>5. ~Running(r)'
    BY <2>4 DEF EndInError, Running, TypeInv, MemoryOK, RequestsOK
  <2> QED BY <2>1, <2>2, <2>3, <2>4, <2>5 DEF Gone, Moves, Running, diskVars
<1>4. ASSUME NEW r \in Requests, Step(r), d = r PROVE Goal
  <2>1. Moves(r) /\ Deletes' = Deletes
    BY <1>4, StepMoves, MovesSame
  <2>2. todo[r] \in DeleteSteps
    BY <1>4, <2>1 DEF Moves, Deleting, Deletes, Is
  <2>3. /\ Head(todo[r]) \in {"check", "list", "unlink", "removeDir"}
        /\ Head(todo[r]) # "removeDir" => Tail(todo[r]) # <<>> /\ todo[r] # <<>>
    BY <2>2, DeleteHead
  <2>4. ASSUME NEW steps, NEW view, Continue(r, steps, view) PROVE steps = <<>>
    BY <1>4, <2>4 DEF Continue, TypeInv, MemoryOK, RequestsOK
  <2>5. ~EndInError(r)
    BY <1>4 DEF EndInError, TypeInv, MemoryOK, RequestsOK
  <2>6. Proceed(r) => Tail(todo[r]) = <<>>
    BY <2>4 DEF Proceed
  <2>7. <<"removeDir">> # <<>>
    OBVIOUS
  <2>8. ~Check(r) /\ ~List(r) /\ ~Unlink(r)
    BY <2>3, <2>4, <2>5, <2>6, <2>7 DEF Check, List, Unlink, At
  <2>9. RemoveDir(r)
    BY <1>4, <2>3, <2>8
       DEF Step, At, ReadProject, ReadIntake, ReadState, CheckSave, RewriteProject,
           WriteProfile, WriteSuccessors, MergePatch, SaveState, AppendAnalysis,
           WriteLatest, AddSnapshot, CountAnalysis
  <2>10. ~dir' /\ files' = {}
    BY <2>5, <2>9 DEF RemoveDir
  <2>11. \A q \in Requests : ~Running(q)'
    BY <1>4, <2>1 DEF Moves, Alone, Running
  <2> QED BY <2>10, <2>11
<1>5. ASSUME NEW r \in Requests, Fail(r) PROVE Goal
  <2>1. Moves(r) /\ GivesUp(r) /\ Deletes' = Deletes
    BY <1>5, FailGivesUp, MovesSame
  <2>2. d # r /\ d \notin met /\ status[d] = "ok" /\ d \in Deletes
    BY <1>1, <2>1 DEF Moves, GivesUp
  <2> QED BY <2>1, <2>2 DEF Gone, Moves, GivesUp, Running, diskVars
<1>6. CASE UNCHANGED vars
  BY <1>6 DEF vars, diskVars, requestVars, Gone, Deletes, Is, Begun, Running
<1> QED BY <1>2, <1>3, <1>4, <1>5, <1>6, BeginStarts DEF Next, Done

\* A project whose deletion was answered, and met nobody, is gone for good,
\* whatever requests come after delete_project.
THEOREM DeletedAloneStays == Spec => []DeletedAloneIsGone
<1> DEFINE Inv == TypeInv /\ Alone /\ Deleting /\ Gone
<1>1. Init => Inv
  BY TypeInvInit, AloneInit, GoneInit
<1>2. Inv /\ [Next]_vars => Inv'
  BY TypeInvNext, AloneNext, DeletingNext, GoneNext
<1>3. Inv => DeletedAloneIsGone
  BY DEF Gone, DeletedAloneIsGone
<1> QED BY <1>1, <1>2, <1>3, PTL DEF Spec

-----------------------------------------------------------------------------
(* The answers of a request that met nobody.                               *)

LEMMA MergeHolds ==
    ASSUME NEW state \in States, NEW r \in Requests
    PROVE  /\ Merge(state, r).snapshots = state.snapshots
           /\ \A f \in Fields : Merge(state, r).answers[f] =
                 IF f \in input[r].fields THEN r ELSE state.answers[f]
           /\ WithSnapshot(state, r).answers = state.answers
<1>1. /\ Merge(state, r).snapshots = state.snapshots
      /\ \A f \in Fields : Merge(state, r).answers[f] =
            IF f \in input[r].fields THEN r ELSE state.answers[f]
  BY DEF Merge, States
<1> DEFINE all == Append(state.snapshots, r)
           n == Len(all)
           first == IF n > SnapshotCap THEN n - SnapshotCap + 1 ELSE 1
           kept == SubSeq(all, first, n)
<1>2. WithSnapshot(state, r) = [state EXCEPT !.snapshots = kept]
  BY DEF WithSnapshot
<1> HIDE DEF kept
<1>3. WithSnapshot(state, r).answers = state.answers
  BY <1>2 DEF States
<1> QED BY <1>1, <1>3

\* Whatever a writer of the intake state holds says what the state itself says
\* of this answer.
Answered(r, f) ==
    /\ intake.answers[f] = r
    /\ \A q \in Requests : Running(q) =>
          ReadFirst(todo[q], IntakeWrites, IntakeReads) \/ seen[q].intake.answers[f] = r

AnswersStand ==
    Deletes = {} =>
        \A r \in Requests \ met, f \in Fields :
            Patchers(f) = {r} /\ status[r] # "error" /\ ~Patches(todo[r]) => Answered(r, f)

LEMMA AnswersInit == Init => AnswersStand
BY DEF Init, AnswersStand, Patchers, Begun

\* What a move leaves of an answer that no one else gives.
LEMMA AnswerMoves ==
    ASSUME TypeInv, Onward, Deletes = {}, NEW p \in Requests, Moves(p), GoesOn(p) \/ GivesUp(p),
           NEW r \in Requests, NEW f \in Fields, Patchers(f) = {r}, Answered(r, f)
    PROVE  Answered(r, f)'
<1> DEFINE s == todo[p]
<1>1. /\ s \in Seq(Steps) /\ s # <<>> /\ Running(p) /\ seen[p].intake \in States
      /\ p # r => f \notin input[p].fields
      /\ p = r => f \in input[p].fields
  BY DEF TypeInv, MemoryOK, RequestsOK, Moves, Patchers, Begun, Running, Views
<1>2. ReadFirst(s, IntakeWrites, IntakeReads) \/ seen[p].intake.answers[f] = r
  BY <1>1 DEF Answered
<1>3. Head(s) \in IntakeReads \/ Head(s) \notin IntakeWrites \/ seen[p].intake.answers[f] = r
  BY <1>1, <1>2, ReadFirstTail
<1>4. CASE GivesUp(p)
  <2>1. intake' = intake /\ ~Running(p)'
    BY <1>4 DEF GivesUp, diskVars, Running
  <2> QED BY <2>1 DEF Answered, Moves, Running
<1>5. CASE GoesOn(p)
  <2>1. IntakeReads \cap IntakeWrites = {}
    BY DEF IntakeReads, IntakeWrites
  <2>2. intake'.answers[f] = r
    <3>1. CASE Head(s) \in {"mergePatch", "saveState"}
      <4>1. intake' = Merge(seen[p].intake, p) /\ seen[p].intake.answers[f] = r
        BY <1>3, <1>5, <2>1, <3>1 DEF GoesOn, IntakeWrites
      <4> QED BY <1>1, <4>1, MergeHolds
    <3>2. CASE Head(s) = "addSnapshot" /\ seen[p].hasIntake /\ input[p].scored
      <4>1. intake' = WithSnapshot(seen[p].intake, p) /\ seen[p].intake.answers[f] = r
        BY <1>3, <1>5, <2>1, <3>2 DEF GoesOn, IntakeWrites
      <4> QED BY <1>1, <4>1, MergeHolds
    <3>3. CASE /\ Head(s) \notin {"mergePatch", "saveState"}
               /\ ~(Head(s) = "addSnapshot" /\ seen[p].hasIntake /\ input[p].scored)
      <4>1. intake' = intake
        BY <1>5, <3>3 DEF GoesOn
      <4> QED BY <4>1 DEF Answered
    <3> QED BY <3>1, <3>2, <3>3
  <2>3. Running(p)' => \/ ReadFirst(todo'[p], IntakeWrites, IntakeReads)
                       \/ seen'[p].intake.answers[f] = r
    <3> SUFFICES ASSUME Running(p)'
                 PROVE  \/ ReadFirst(todo'[p], IntakeWrites, IntakeReads)
                        \/ seen'[p].intake.answers[f] = r
      OBVIOUS
    <3>1. /\ todo'[p] = Tail(s)
          /\ seen'[p].intake = IF Head(s) \in IntakeReads THEN intake ELSE seen[p].intake
      BY <1>5 DEF GoesOn, Running
    <3>2. CASE Head(s) \in IntakeReads
      BY <3>1, <3>2 DEF Answered
    <3>3. CASE Head(s) \notin IntakeReads
      BY <1>1, <1>2, <3>1, <3>3, ReadFirstTail
    <3> QED BY <3>2, <3>3
  <2> QED BY <2>2, <2>3 DEF Answered, Moves, Running
<1> QED BY <1>4, <1>5

LEMMA AnswersNext ==
    TypeInv /\ Logged /\ Onward /\ Alone /\ AnswersStand /\ [Next]_vars => AnswersStand'
<1> SUFFICES ASSUME TypeInv, Logged, Onward, Alone, AnswersStand, [Next]_vars, (Deletes = {})',
                    NEW r \in Requests \ met', NEW f \in Fields, (Patchers(f) = {r})',
                    status'[r] # "error", ~Patches(todo'[r])
             PROVE  Answered(r, f)'
  BY DEF AnswersStand, Patches
<1>1. Deletes = {}
  BY NextCases
<1>2. ASSUME NEW p \in Requests, NEW i \in Inputs, Starts(p, i)
      PROVE  Answered(r, f)'
  <2>1. /\ i.fields # {} => Patches(Program(i))
        /\ ReadFirst(Program(i), IntakeWrites, IntakeReads)
    BY ProgramSound
  <2>2. p # r
    BY <1>2, <2>1 DEF Starts, Patchers
  <2>3. \A q \in Requests : q \in Patchers(f) <=> q \in Patchers(f)' /\ q # p
    BY <1>2 DEF Starts, Patchers, Begun
  <2>4. Patchers(f) \subseteq Requests /\ r \in Patchers(f)'
    BY DEF Patchers
  <2>5. Patchers(f) = {r}
    BY <2>2, <2>3, <2>4
  <2>6. r \notin met /\ status[r] # "error" /\ ~Patches(todo[r])
    BY <1>2, <2>2 DEF Starts
  <2>7. Answered(r, f)
    BY <1>1, <2>5, <2>6 DEF AnswersStand
  <2> QED BY <1>2, <2>1, <2>7 DEF Answered, Starts, Running, diskVars
<1>3. ASSUME NEW p \in Requests, Moves(p), GoesOn(p) \/ GivesUp(p)
      PROVE  Answered(r, f)'
  <2>1. Patchers(f) = {r} /\ r \notin met
    BY <1>3, MovesSame DEF Moves
  <2>2. status[r] # "error"
    BY <1>3 DEF Moves, Running
  <2>3. CASE ~Patches(todo[r])
    <3>1. Answered(r, f)
      BY <1>1, <2>1, <2>2, <2>3 DEF AnswersStand
    <3> QED BY <1>1, <1>3, <2>1, <3>1, AnswerMoves
  <2>4. CASE Patches(todo[r])
    <3>1. p = r
      BY <1>3, <2>4 DEF Moves
    <3>2. /\ todo[r] \in Seq(Steps) /\ todo[r] # <<>> /\ seen[r].intake \in States
          /\ Sound(todo[r], input[r].kind) /\ f \in input[r].fields
      BY <1>1, <1>3, <2>1, <3>1 DEF Moves, TypeInv, MemoryOK, RequestsOK, Onward, Views, Patchers
    <3>3. GoesOn(r) /\ todo'[r] = Tail(todo[r])
      BY <1>3, <3>1 DEF GivesUp, GoesOn
    <3>4. Head(todo[r]) \in {"mergePatch", "saveState"}
      BY <2>4, <3>2, <3>3, PatchesTail
    <3>5. intake'.answers[f] = r
      <4>1. intake' = Merge(seen[r].intake, r)
        BY <3>3, <3>4 DEF GoesOn
      <4> QED BY <3>2, <4>1, MergeHolds
    <3>6. ReadFirst(todo'[r], IntakeWrites, IntakeReads)
      BY <3>2, <3>3, <3>4, SoundTail DEF IntakeWrites
    <3>7. \A q \in Requests \ {r} : ~Running(q)'
      BY <1>3, <2>1, <3>1 DEF Alone, Moves, Running
    <3> QED BY <3>5, <3>6, <3>7 DEF Answered
  <2> QED BY <2>3, <2>4
<1>4. CASE UNCHANGED vars
  <2>1. Patchers(f) = {r} /\ r \notin met /\ status[r] # "error" /\ ~Patches(todo[r])
    BY <1>4 DEF vars, requestVars, Patchers, Begun
  <2> QED BY <1>1, <1>4, <2>1 DEF vars, diskVars, requestVars, AnswersStand, Answered, Running
<1> QED BY <1>2, <1>3, <1>4, NextCases

\* An answer that was acknowledged stays until another request gives the same
\* field one, if the request that gave it met nobody, whatever the requests after
\* it write back of what they read.
THEOREM AnswersAreKept == Spec => []AnswersKept
<1> DEFINE Inv == TypeInv /\ Logged /\ Onward /\ Alone /\ AnswersStand
<1>1. Init => Inv
  BY TypeInvInit, LoggedInit, OnwardInit, AloneInit, AnswersInit
<1>2. Inv /\ [Next]_vars => Inv'
  BY TypeInvNext, LoggedNext, OnwardNext, AloneNext, AnswersNext
<1>3. Inv => AnswersKept
  <2> SUFFICES ASSUME Inv, Deletes = {}, NEW r \in Requests \ met, status[r] = "ok",
                      NEW f \in input[r].fields
               PROVE  intake.answers[f] = r \/ Patchers(f) # {r}
    BY DEF AnswersKept
  <2>1. f \in Fields
    BY DEF TypeInv, MemoryOK, RequestsOK, Inputs, NoInput
  <2>2. todo[r] = <<>>
    BY DEF Onward
  <2>3. ~Patches(todo[r])
    BY <2>2, EmptySeq DEF Patches
  <2> QED BY <2>1, <2>3 DEF AnswersStand, Answered
<1> QED BY <1>1, <1>2, <1>3, PTL DEF Spec

-----------------------------------------------------------------------------
(* The counts, when every analysis met nobody.                             *)

\* Every analysis so far has met nobody, and has not stopped half way.
Clean == Deletes = {} /\ \A r \in Analyses : r \notin met /\ status[r] # "error"

\* It appended its entry and has not counted it.
Between(r) == Running(r) /\ Len(todo[r]) \in 2 .. 4

\* The books agree but while an analysis is between its append and its count,
\* and whoever may still write project.json holds what it says.
Booked ==
    Clean =>
        /\ \A q \in Requests : Running(q) =>
              ReadFirst(todo[q], ProjectWrites, ProjectReads) \/ seen[q].project = project
        /\ \/ project.count = Cardinality(analyses) /\ project.latest = latest
           \/ \E r \in Analyses : Between(r)
        /\ \A r \in Analyses : Between(r) =>
              /\ project.count + 1 = Cardinality(analyses)
              /\ Len(todo[r]) < 4 => latest = r

LEMMA BookedInit == Init => Booked
<1> SUFFICES ASSUME Init PROVE Booked
  OBVIOUS
<1>1. /\ project.count = Cardinality(analyses) /\ project.latest = latest
  BY FS_EmptySet DEF Init, NoProject
<1>2. \A q \in Requests : ~Running(q)
  BY DEF Init, Running
<1>3. \A r \in Analyses : ~Between(r)
  BY <1>2 DEF Between, Analyses
<1> QED BY <1>1, <1>2, <1>3, Zenon DEF Booked

\* Only an analysis in its last steps changes what the books say.
LEMMA BooksSame ==
    ASSUME TypeInv, Onward, Deletes = {}, NEW p \in Requests, Moves(p), GoesOn(p),
           seen[p].project = project \/ Head(todo[p]) # "rewriteProject",
           p \notin Analyses \/ Len(todo[p]) \notin 2 .. 5
    PROVE  /\ project' = project /\ analyses' = analyses /\ latest' = latest
           /\ p \in Analyses => ~Between(p) /\ ~Between(p)'
<1> DEFINE s == todo[p]
<1>1. s \in Seq(Steps) /\ s # <<>> /\ Running(p) /\ Sound(s, input[p].kind)
  BY DEF TypeInv, MemoryOK, RequestsOK, Moves, Onward
<1>2. p \in Analyses <=> input[p].kind \in AnalysisKinds
  BY <1>1 DEF Analyses, Is, Begun, Running, AnalysisKinds
<1>3. Head(s) \notin {"appendAnalysis", "writeLatest", "addSnapshot", "countAnalysis"}
  BY <1>1, <1>2, SoundTail
<1>4. project' = project /\ analyses' = analyses /\ latest' = latest
  BY <1>3 DEF GoesOn
<1>5. Len(s) \in Nat /\ Len(s) >= 1 /\ todo'[p] = Tail(s) /\ Len(Tail(s)) = Len(s) - 1
  BY <1>1, TailItems DEF GoesOn
<1>6. p \in Analyses => Len(s) \notin 2 .. 4 /\ Len(todo'[p]) \notin 2 .. 4
  BY <1>5
<1> QED BY <1>4, <1>6 DEF Between

LEMMA BookedNext ==
    TypeInv /\ Logged /\ Onward /\ Alone /\ Booked /\ [Next]_vars => Booked'
<1> SUFFICES ASSUME TypeInv, Logged, Onward, Alone, Booked, [Next]_vars, Clean'
             PROVE  /\ \A q \in Requests : Running(q)' =>
                          \/ ReadFirst(todo'[q], ProjectWrites, ProjectReads)
                          \/ seen'[q].project = project'
                    /\ \/ project'.count = Cardinality(analyses') /\ project'.latest = latest'
                       \/ \E r \in Analyses' : Between(r)'
                    /\ \A r \in Analyses' : Between(r)' =>
                          /\ project'.count + 1 = Cardinality(analyses')
                          /\ Len(todo'[r]) < 4 => latest' = r
  BY DEF Booked, ReadFirst
<1> DEFINE Copies == \A q \in Requests : Running(q)' =>
                        \/ ReadFirst(todo'[q], ProjectWrites, ProjectReads)
                        \/ seen'[q].project = project'
           Agreed == \/ project'.count = Cardinality(analyses') /\ project'.latest = latest'
                     \/ \E r \in Analyses' : Between(r)'
           Behind == \A r \in Analyses' : Between(r)' =>
                        /\ project'.count + 1 = Cardinality(analyses')
                        /\ Len(todo'[r]) < 4 => latest' = r
<1>1. Deletes = {} /\ Analyses \subseteq Requests /\ analyses \in SUBSET Requests
  BY NextCases DEF Clean, Analyses, TypeInv, DiskOK
<1>2. ASSUME NEW p \in Requests, NEW i \in Inputs, Starts(p, i)
      PROVE  Copies /\ Agreed /\ Behind
  <2>1. /\ ReadFirst(Program(i), ProjectWrites, ProjectReads)
        /\ i.kind \in AnalysisKinds => Len(Program(i)) >= 5
        /\ Program(i) \in Seq(Steps)
    BY ProgramSound, ProgramOrderly
  <2>2. /\ p \notin Analyses
        /\ \A q \in Requests \ {p} : q \in Analyses' <=> q \in Analyses
        /\ p \in Analyses' <=> i.kind \in AnalysisKinds
    BY <1>2 DEF Starts, Analyses, Is, Begun, AnalysisKinds
  <2>3. Clean
    BY <1>1, <1>2, <2>2 DEF Clean, Starts
  <2>4. Copies
    BY <1>2, <2>1, <2>3 DEF Booked, Starts, Running, diskVars
  <2>5. \A r \in Analyses : Between(r)' <=> Between(r)
    BY <1>1, <1>2, <2>2 DEF Starts, Between, Running
  <2>6. p \in Analyses' => ~Between(p)'
    <3>1. p \in Analyses' => Len(todo'[p]) \notin 2 .. 4
      <4>1. Len(Program(i)) \in Nat /\ todo'[p] = Program(i)
        BY <1>2, <2>1, LenProperties, Zenon DEF Starts
      <4>2. p \in Analyses' => Len(Program(i)) >= 5
        BY <2>1, <2>2
      <4>3. \A n \in Nat : n >= 5 => n \notin 2 .. 4
        OBVIOUS
      <4> QED BY <4>1, <4>2, <4>3, Zenon
    <3> QED BY <3>1 DEF Between
  <2>7. Agreed
    BY <1>1, <1>2, <2>2, <2>3, <2>5 DEF Booked, Starts, diskVars
  <2>8. Behind
    <3> SUFFICES ASSUME NEW r \in Analyses', Between(r)'
                 PROVE  /\ project'.count + 1 = Cardinality(analyses')
                        /\ Len(todo'[r]) < 4 => latest' = r
      OBVIOUS
    <3>1. r \in Requests /\ r # p
      BY <2>6 DEF Analyses
    <3>2. r \in Analyses /\ Between(r) /\ todo'[r] = todo[r]
      BY <1>2, <2>2, <2>5, <3>1 DEF Starts
    <3> QED BY <1>2, <2>3, <3>2 DEF Booked, Starts, diskVars
  <2> QED BY <2>4, <2>7, <2>8
<1>3. ASSUME NEW p \in Requests, Moves(p), GoesOn(p) \/ GivesUp(p)
      PROVE  Copies /\ Agreed /\ Behind
  <2> DEFINE s == todo[p]
  <2>1. /\ s \in Seq(Steps) /\ s # <<>> /\ Running(p) /\ Sound(s, input[p].kind)
        /\ seen[p].project \in Projects /\ project \in Projects
    BY <1>1, <1>3 DEF Moves, TypeInv, MemoryOK, RequestsOK, DiskOK, Onward, Views
  <2>2. Analyses' = Analyses /\ (p \in Analyses <=> input[p].kind \in AnalysisKinds)
    BY <1>3, <2>1, MovesSame DEF Analyses, Is, Begun, Running, AnalysisKinds
  <2>3. Clean
    BY <1>1, <1>3, <2>1, <2>2 DEF Clean, Moves, Running
  <2>4. p \in Analyses => \A q \in Requests \ {p} : ~Running(q) /\ ~Running(q)'
    BY <1>3, <2>1, <2>3 DEF Clean, Alone, Moves, Running
  <2>5. /\ \A q \in Requests : Running(q) =>
              ReadFirst(todo[q], ProjectWrites, ProjectReads) \/ seen[q].project = project
        /\ \/ project.count = Cardinality(analyses) /\ project.latest = latest
           \/ \E r \in Analyses : Between(r)
        /\ \A r \in Analyses : Between(r) =>
              /\ project.count + 1 = Cardinality(analyses)
              /\ Len(todo[r]) < 4 => latest = r
    BY <2>3 DEF Booked
  <2>6. \A r \in Analyses \ {p} : Between(r)' <=> Between(r)
    BY <1>1, <1>3 DEF Moves, Between, Running
  <2>7. CASE GivesUp(p)
    <3>1. p \notin Analyses /\ ~Running(p)' /\ UNCHANGED <<project, analyses, latest>>
      BY <2>2, <2>7 DEF GivesUp, Clean, diskVars, Running
    <3>2. Copies
      BY <1>3, <2>5, <3>1 DEF Moves, Running
    <3>3. Agreed
      BY <2>2, <2>5, <2>6, <3>1
    <3>4. Behind
      BY <1>1, <1>3, <2>2, <2>5, <2>6, <3>1 DEF Moves
    <3> QED BY <3>2, <3>3, <3>4
  <2>8. CASE GoesOn(p)
    <3>1. ProjectReads \cap ProjectWrites = {}
      BY DEF ProjectReads, ProjectWrites
    <3>2. Head(s) \in ProjectWrites => seen[p].project = project
      BY <2>1, <2>5, <3>1, ReadFirstTail
    <3>3. /\ Len(s) \in Nat /\ Len(s) >= 1 /\ todo'[p] = Tail(s) /\ Len(todo'[p]) = Len(s) - 1
          /\ Running(p)' <=> todo'[p] # <<>>
      BY <2>1, <2>8, TailItems DEF GoesOn, Running
    <3>4. Len(s) \in 2 .. 5 => Running(p)'
      <4>1. todo'[p] = <<>> => Len(todo'[p]) = 0
        OBVIOUS
      <4>2. Len(s) \in 2 .. 5 => Len(todo'[p]) # 0
        <5>1. Len(todo'[p]) = Len(s) - 1
          BY <3>3
        <5>2. \A n \in 2 .. 5 : n - 1 # 0
          OBVIOUS
        <5> QED BY <5>1, <5>2, Zenon
      <4> QED BY <3>3, <4>1, <4>2, Zenon
    <3>5. ASSUME project' = project
          PROVE  Copies
      <4>1. Running(p)' => \/ ReadFirst(todo'[p], ProjectWrites, ProjectReads)
                           \/ seen'[p].project = project'
        <5>1. Running(p)' => seen'[p].project =
                 IF Head(s) \in ProjectReads THEN project ELSE seen[p].project
          BY <2>8, <3>3 DEF GoesOn
        <5>2. CASE Head(s) \in ProjectReads
          BY <3>5, <5>1, <5>2
        <5>3. CASE Head(s) \notin ProjectReads
          BY <2>1, <2>5, <3>3, <3>5, <5>1, <5>3, ReadFirstTail
        <5> QED BY <5>2, <5>3
      <4> QED BY <1>3, <2>5, <3>5, <4>1 DEF Moves, Running
    <3>6. CASE p \notin Analyses \/ Len(s) \notin 2 .. 5
      <4>1. seen[p].project = project \/ Head(s) # "rewriteProject"
        BY <3>2 DEF ProjectWrites
      <4>2. /\ project' = project /\ analyses' = analyses /\ latest' = latest
            /\ p \in Analyses => ~Between(p) /\ ~Between(p)'
        BY <1>1, <1>3, <2>8, <3>6, <4>1, BooksSame
      <4>3. \A r \in Analyses : Between(r)' <=> Between(r)
        BY <2>6, <4>2
      <4>4. Agreed
        BY <2>2, <2>5, <4>2, <4>3
      <4>5. Behind
        <5> SUFFICES ASSUME NEW r \in Analyses, Between(r)'
                     PROVE  /\ project'.count + 1 = Cardinality(analyses')
                            /\ Len(todo'[r]) < 4 => latest' = r
          BY <2>2
        <5>1. r # p /\ Between(r) /\ todo'[r] = todo[r]
          BY <1>1, <1>3, <4>2, <4>3 DEF Moves
        <5> QED BY <2>5, <4>2, <5>1
      <4> QED BY <3>5, <4>2, <4>4, <4>5
    <3>7. ASSUME p \in Analyses, Len(s) = 5 PROVE Copies /\ Agreed /\ Behind
      <4>1. Head(s) = "appendAnalysis"
        BY <2>1, <2>2, <3>7, SoundTail
      <4>2. p \notin analyses /\ analyses' = analyses \cup {p} /\ project' = project
        BY <1>1, <2>1, <2>8, <4>1, HeadStep DEF GoesOn
      <4>3. \A r \in Analyses : ~Between(r)
        BY <1>1, <2>4, <3>7 DEF Between
      <4>4. project.count = Cardinality(analyses)
        BY <2>5, <4>3
      <4>5. Cardinality(analyses') = Cardinality(analyses) + 1
        BY <1>1, <4>2, LogFinite, FS_AddElement
      <4>6. Between(p)' /\ Len(todo'[p]) = 4
        BY <3>3, <3>4, <3>7 DEF Between
      <4>7. \A r \in Analyses' : Between(r)' => r = p
        BY <1>1, <2>2, <2>4, <3>7 DEF Between
      <4>8. Copies
        BY <3>5, <4>2
      <4>10. project'.count + 1 = Cardinality(analyses') /\ ~ (Len(todo'[p]) < 4)
        BY <4>2, <4>4, <4>5, <4>6
      <4>9. Behind
        BY <4>7, <4>10
      <4> QED BY <2>2, <3>7, <4>6, <4>8, <4>9
    <3>8. ASSUME p \in Analyses, Len(s) \in 3 .. 4 PROVE Copies /\ Agreed /\ Behind
      <4>1. Head(s) = IF Len(s) = 4 THEN "writeLatest" ELSE "addSnapshot"
        BY <2>1, <2>2, <3>8, SoundTail
      <4>2. /\ analyses' = analyses /\ project' = project
            /\ latest' = IF Len(s) = 4 THEN p ELSE latest
        BY <2>8, <4>1 DEF GoesOn
      <4>3. Between(p) /\ Between(p)'
        BY <2>1, <3>3, <3>4, <3>8 DEF Between
      <4>4. \A r \in Analyses' : Between(r)' => r = p
        BY <1>1, <2>2, <2>4, <3>8 DEF Between
      <4>5. Copies
        BY <3>5, <4>2
      <4>6. latest' = p /\ project'.count + 1 = Cardinality(analyses')
        <5>1. project.count + 1 = Cardinality(analyses) /\ (Len(s) < 4 => latest = p)
          BY <2>5, <3>8, <4>3, Zenon
        <5> QED BY <3>8, <4>2, <5>1
      <4>7. Behind
        BY <4>4, <4>6
      <4> QED BY <2>2, <3>8, <4>3, <4>5, <4>7
    <3>9. ASSUME p \in Analyses, Len(s) = 2 PROVE Copies /\ Agreed /\ Behind
      <4>1. Head(s) = "countAnalysis"
        BY <2>1, <2>2, <3>9, SoundTail
      <4>2. /\ analyses' = analyses /\ latest' = latest
            /\ project' = [count |-> project.count + 1, latest |-> p]
        BY <2>8, <3>2, <4>1 DEF GoesOn, ProjectWrites
      <4>3. Between(p)
        BY <2>1, <3>9 DEF Between
      <4>4. project'.count = Cardinality(analyses') /\ project'.latest = latest'
        <5>1. project.count + 1 = Cardinality(analyses) /\ (Len(s) < 4 => latest = p)
          BY <2>5, <3>9, <4>3, Zenon
        <5> QED BY <3>9, <4>2, <5>1
      <4>8. Len(todo'[p]) = 1
        BY <3>3, <3>9
      <4>5. \A r \in Analyses' : ~Between(r)'
        BY <1>1, <2>2, <2>4, <3>9, <4>8 DEF Between
      <4>6. ReadFirst(todo'[p], ProjectWrites, ProjectReads)
        BY <2>1, <3>3, <4>1, SoundTail DEF ProjectWrites
      <4>7. Copies
        BY <2>4, <3>9, <4>6
      <4> QED BY <4>4, <4>5, <4>7
    <3> QED BY <3>3, <3>6, <3>7, <3>8, <3>9
  <2> QED BY <1>3, <2>7, <2>8
<1>4. CASE UNCHANGED vars
  BY <1>4 DEF vars, diskVars, requestVars, Booked, Clean, Deletes, Analyses, Is, Begun,
              Between, Running
<1>5. (Deletes = {})'
  BY DEF Clean
<1> QED BY <1>2, <1>3, <1>4, <1>5, NextCases

\* When every analysis was acknowledged and met nobody, the files that
\* append_analysis writes tell the same, however the updates between the
\* analyses overlapped and wherever they stopped.
THEOREM BooksStayEven == Spec => []BooksAgree
<1> DEFINE Inv == TypeInv /\ Logged /\ Onward /\ Alone /\ Booked
<1>1. Init => Inv
  BY TypeInvInit, LoggedInit, OnwardInit, AloneInit, BookedInit
<1>2. Inv /\ [Next]_vars => Inv'
  BY TypeInvNext, LoggedNext, OnwardNext, AloneNext, BookedNext
<1>3. Inv => BooksAgree
  <2> SUFFICES ASSUME Inv, Deletes = {},
                      \A r \in Analyses : status[r] = "ok" /\ r \notin met
               PROVE  project.count = Cardinality(analyses) /\ project.latest = latest
    BY DEF BooksAgree
  <2>1. Clean
    BY DEF Clean
  <2>2. \A r \in Analyses : ~Between(r)
    BY DEF Between, Running
  <2> QED BY <2>1, <2>2 DEF Booked
<1> QED BY <1>1, <1>2, <1>3, PTL DEF Spec

-----------------------------------------------------------------------------
(* The snapshot of an analysis that met nobody.                            *)

Distinct(l) == \A i, j \in 1 .. Len(l) : l[i] = l[j] => i = j
Neat(l, T) == Distinct(l) /\ \A i \in 1 .. Len(l) : l[i] \in T
Listed(l, r) == \E i \in 1 .. Len(l) : l[i] = r

\* The list after append_snapshot: the new snapshot is the last one, and if the
\* d oldest ones are gone the list is full.
LEMMA SnapshotItems ==
    ASSUME NEW state \in States, NEW r \in Requests
    PROVE  \E k \in Seq(Requests), d \in 0 .. Len(state.snapshots) :
              /\ WithSnapshot(state, r).snapshots = k
              /\ Len(k) = Len(state.snapshots) + 1 - d
              /\ d > 0 => Len(k) = SnapshotCap
              /\ k[Len(k)] = r
              /\ \A i \in 1 .. Len(k) - 1 : k[i] = state.snapshots[i + d]
<1> DEFINE l == state.snapshots
           m == Len(l)
           all == Append(l, r)
           n == Len(all)
           first == IF n > SnapshotCap THEN n - SnapshotCap + 1 ELSE 1
           kept == SubSeq(all, first, n)
           d == first - 1
<1>1. l \in Seq(Requests)
  BY DEF States
<1>2. m \in Nat
  BY <1>1, LenProperties
<1>3. all \in Seq(Requests) /\ n = m + 1 /\ all[m + 1] = r /\ \A i \in 1 .. m : all[i] = l[i]
  BY <1>1, AppendProperties
<1>4. \A i \in 1 .. n : all[i] \in Requests
  BY <1>3, ElementOfSeq
<1>5. /\ first \in 1 .. n /\ d \in 0 .. m /\ n - first + 1 = m + 1 - d
      /\ d > 0 => m + 1 - d = SnapshotCap
  <2> HIDE DEF n, m
  <2> QED BY <1>2, <1>3, StoreAssumption
<1>6. WithSnapshot(state, r).snapshots = kept
  <2>1. WithSnapshot(state, r) = [state EXCEPT !.snapshots = kept]
    BY DEF WithSnapshot
  <2> HIDE DEF kept
  <2> QED BY <2>1 DEF States
<1> HIDE DEF l, m, all, n, first, d
<1>7. /\ kept \in Seq(Requests) /\ Len(kept) = n - first + 1
      /\ \A i \in 1 .. n - first + 1 : kept[i] = all[first + i - 1]
  <2>1. first \in Int /\ n \in Int /\ first <= n /\ \A i \in first .. n : all[i] \in Requests
    BY <1>2, <1>3, <1>4, <1>5
  <2> QED BY <2>1, SubSeqProperties DEF kept
<1> HIDE DEF kept
<1>8. Len(kept) = m + 1 - d /\ first = d + 1
  BY <1>2, <1>3, <1>5, <1>7 DEF d
<1>9. kept[Len(kept)] = r
  <2>1. Len(kept) \in 1 .. n - first + 1 /\ first + Len(kept) - 1 = m + 1
    BY <1>2, <1>3, <1>5, <1>7, <1>8
  <2> QED BY <1>3, <1>7, <2>1
<1>10. ASSUME NEW i \in 1 .. Len(kept) - 1 PROVE kept[i] = l[i + d]
  <2>1. i \in 1 .. n - first + 1 /\ first + i - 1 = i + d /\ i + d \in 1 .. m
    BY <1>2, <1>3, <1>5, <1>7, <1>8
  <2> QED BY <1>3, <1>7, <2>1
<1>11. d > 0 => Len(kept) = SnapshotCap
  BY <1>5, <1>8
<1> QED BY <1>5, <1>6, <1>7, <1>8, <1>9, <1>10, <1>11 DEF l, m

LEMMA NeatGrows ==
    ASSUME NEW l, NEW T, NEW U, T \subseteq U, Neat(l, T)
    PROVE  Neat(l, U)
BY DEF Neat

LEMMA NeatEmpty == \A T : Neat(<<>>, T)
BY EmptySeq DEF Neat, Distinct

LEMMA NeatAdd ==
    ASSUME NEW state \in States, NEW r \in Requests, NEW T,
           Neat(state.snapshots, T), r \notin T
    PROVE  /\ Neat(WithSnapshot(state, r).snapshots, T \cup {r})
           /\ Listed(WithSnapshot(state, r).snapshots, r)
<1> DEFINE l == state.snapshots
           m == Len(l)
<1>1. PICK k \in Seq(Requests), d \in 0 .. m :
         /\ WithSnapshot(state, r).snapshots = k
         /\ Len(k) = m + 1 - d
         /\ k[Len(k)] = r
         /\ \A i \in 1 .. Len(k) - 1 : k[i] = l[i + d]
  BY SnapshotItems
<1>2. m \in Nat /\ Len(k) \in Nat /\ Len(k) >= 1
  <2>1. m \in Nat
    BY LenProperties DEF States
  <2> HIDE DEF m
  <2> QED BY <1>1, <2>1
<1>3. Distinct(l) /\ \A i \in 1 .. m : l[i] \in T
  BY DEF Neat
<1> DEFINE n == Len(k)
<1>4. n = m + 1 - d
  BY <1>1
<1> HIDE DEF l, m, n
<1>5. \A i \in 1 .. n - 1 : i + d \in 1 .. m /\ k[i] = l[i + d] /\ k[i] \in T
  BY <1>1, <1>2, <1>3, <1>4 DEF n
<1>6. \A i \in 1 .. n : i \in 1 .. n - 1 \/ (i = n /\ k[i] = r)
  BY <1>1, <1>2 DEF n
<1>7. ASSUME NEW i \in 1 .. n, NEW j \in 1 .. n, k[i] = k[j] PROVE i = j
  <2>1. CASE i \in 1 .. n - 1 /\ j \in 1 .. n - 1
    <3>1. l[i + d] = l[j + d] /\ i + d \in 1 .. m /\ j + d \in 1 .. m
      BY <1>5, <1>7, <2>1
    <3>2. i + d = j + d
      BY <1>3, <3>1 DEF Distinct, m
    <3> QED BY <1>2, <3>2
  <2>2. CASE i = n \/ j = n
    BY <1>5, <1>6, <1>7, <2>2
  <2> QED BY <1>6, <2>1, <2>2
<1>8. \A i \in 1 .. n : k[i] \in T \cup {r}
  BY <1>5, <1>6
<1>9. n \in 1 .. n /\ k[n] = r
  BY <1>1, <1>2 DEF n
<1> QED BY <1>1, <1>7, <1>8, <1>9 DEF Neat, Distinct, Listed, n

\* A neat list has no more items than what it is drawn from.
LEMMA NeatCount ==
    ASSUME NEW l \in Seq(Requests), NEW T \in SUBSET Requests, Neat(l, T)
    PROVE  Len(l) <= Cardinality(T)
<1>1. Len(l) \in Nat
  BY LenProperties
<1> DEFINE D == 1 .. Len(l)
           f == [i \in D |-> l[i]]
<1>2. f \in [D -> T] /\ \A i, j \in D : f[i] = f[j] => i = j
  BY DEF Neat, Distinct
<1>3. f \in Injection(D, T)
  BY <1>2 DEF Injection, IsInjective
<1>4. IsFiniteSet(T)
  BY LogFinite
<1>5. Cardinality(D) = Len(l)
  <2> DEFINE n == Len(l)
  <2>1. n \in Nat
    BY <1>1
  <2>2. Cardinality(D) = Cardinality(1 .. n)
    OBVIOUS
  <2> HIDE DEF n, D, f
  <2>3. Cardinality(1 .. n) = n
    BY <2>1, FS_Interval
  <2> QED BY <2>2, <2>3 DEF n
<1> HIDE DEF f, D
<1>6. Cardinality(D) <= Cardinality(T)
  BY <1>3, <1>4, FS_Injection
<1> QED BY <1>5, <1>6

\* A snapshot leaves the list only when SnapshotCap others are in it.
LEMMA ListedStays ==
    ASSUME NEW state \in States, NEW r \in Requests, NEW T \in SUBSET Requests,
           Neat(state.snapshots, T), r \in T,
           NEW x \in Requests, x # r, Listed(state.snapshots, x),
           Neat(WithSnapshot(state, r).snapshots, T)
    PROVE  \/ Listed(WithSnapshot(state, r).snapshots, x)
           \/ Cardinality(T \ {x}) >= SnapshotCap
<1> DEFINE l == state.snapshots
           m == Len(l)
<1>1. PICK k \in Seq(Requests), d \in 0 .. m :
         /\ WithSnapshot(state, r).snapshots = k
         /\ Len(k) = m + 1 - d
         /\ d > 0 => Len(k) = SnapshotCap
         /\ k[Len(k)] = r
         /\ \A i \in 1 .. Len(k) - 1 : k[i] = l[i + d]
  BY SnapshotItems
<1>2. m \in Nat
  BY LenProperties DEF States
<1>3. PICK j \in 1 .. m : l[j] = x
  BY DEF Listed
<1>4. Distinct(l)
  BY DEF Neat
<1> DEFINE n == Len(k)
<1>5. n = m + 1 - d
  BY <1>1
<1> HIDE DEF l, m, n
<1>6. CASE j > d
  <2>1. j - d \in 1 .. n - 1 /\ j - d \in 1 .. n /\ (j - d) + d = j
    BY <1>2, <1>5, <1>6
  <2>2. k[j - d] = x
    BY <1>1, <1>3, <2>1 DEF n
  <2> QED BY <1>1, <2>1, <2>2 DEF Listed, n
<1>7. CASE j <= d
  <2>1. n = SnapshotCap
    BY <1>1, <1>2, <1>7 DEF n
  <2>2. ASSUME NEW i \in 1 .. n PROVE k[i] # x
    <3>1. CASE i = n
      BY <1>1, <3>1 DEF n
    <3>2. CASE i \in 1 .. n - 1
      <4>1. k[i] = l[i + d] /\ i + d \in 1 .. m /\ i + d # j
        BY <1>1, <1>2, <1>5, <1>7, <3>2 DEF n
      <4> QED BY <1>3, <1>4, <4>1 DEF Distinct, m
    <3> QED BY <1>2, <1>5, <3>1, <3>2
  <2>3. Neat(k, T \ {x})
    BY <1>1, <2>2 DEF Neat, n
  <2>4. n <= Cardinality(T \ {x})
    <3>1. T \ {x} \in SUBSET Requests
      OBVIOUS
    <3> QED BY <2>3, <3>1, NeatCount DEF n
  <2> QED BY <2>1, <2>4
<1> QED BY <1>2, <1>3, <1>6, <1>7

Scored == {r \in Analyses : input[r].scored}

\* The analyses that are past their snapshot, or ended before it.
Snapped == {r \in Scored : Len(todo[r]) < 3}

\* Snapshots are of different analyses, each past its own, in the intake state
\* and in every copy of it.
Pictured ==
    Deletes = {} =>
        /\ Neat(intake.snapshots, Snapped)
        /\ \A q \in Requests : Neat(seen[q].intake.snapshots, Snapped)
        /\ \A q \in Requests : Running(q) =>
              ReadFirst(todo[q], IntakeWrites, IntakeReads) \/ seen[q].hasIntake

\* The snapshot of r is there, and in whatever may still be written back, or
\* enough others were taken to push it out.
Shown(r) ==
    \/ Cardinality(Scored \ {r}) >= SnapshotCap
    \/ /\ Listed(intake.snapshots, r)
       /\ \A q \in Requests : Running(q) =>
             \/ ReadFirst(todo[q], IntakeWrites, IntakeReads)
             \/ Listed(seen[q].intake.snapshots, r)

SnapshotsStand ==
    Deletes = {} =>
        \A r \in Scored \ met : status[r] # "error" /\ Len(todo[r]) < 3 => Shown(r)

LEMMA SnapshotsInit == Init => Pictured /\ SnapshotsStand
<1> SUFFICES ASSUME Init PROVE Pictured /\ SnapshotsStand
  OBVIOUS
<1>1. /\ intake.snapshots = <<>> /\ \A q \in Requests : seen[q].intake.snapshots = <<>>
      /\ \A q \in Requests : ~Running(q)
  BY BlankTypes DEF Init, Running
<1>2. Scored = {}
  BY DEF Init, Scored, Analyses, Is, Begun
<1> QED BY <1>1, <1>2, NeatEmpty DEF Pictured, SnapshotsStand

\* A request that starts is no analysis yet, and leaves the others alone.
LEMMA StartsScored ==
    ASSUME NEW p \in Requests, NEW i, Starts(p, i)
    PROVE  /\ Scored \subseteq Scored' /\ Scored' \subseteq Scored \cup {p} /\ p \notin Scored
           /\ Snapped \subseteq Snapped'
BY DEF Starts, Scored, Snapped, Analyses, Is, Begun

LEMMA MovesScored ==
    ASSUME TypeInv, NEW p \in Requests, Moves(p), GoesOn(p) \/ GivesUp(p)
    PROVE  Scored' = Scored /\ Snapped \subseteq Snapped'
<1>1. Scored' = Scored
  BY MovesSame DEF Scored, Moves
<1>2. Len(todo[p]) < 3 => Len(todo'[p]) < 3
  <2>1. CASE GivesUp(p)
    BY <2>1 DEF GivesUp
  <2>2. CASE GoesOn(p)
    <3>1. todo[p] \in Seq(Steps) /\ todo[p] # <<>>
      BY DEF Moves, TypeInv, MemoryOK, RequestsOK
    <3>2. Len(todo[p]) \in Nat /\ Len(todo'[p]) = Len(todo[p]) - 1
      BY <2>2, <3>1, TailItems DEF GoesOn
    <3> QED BY <3>2
  <2> QED BY <2>1, <2>2
<1>3. \A q \in Requests \ {p} : todo'[q] = todo[q]
  BY DEF Moves
<1> QED BY <1>1, <1>2, <1>3 DEF Snapped, Scored, Analyses

\* What a step may write back or read anew.
LEMMA StepCopies ==
    ASSUME TypeInv, Onward, Pictured, Deletes = {}, NEW p \in Requests, Moves(p), GoesOn(p)
    PROVE  /\ todo[p] \in Seq(Steps) /\ todo[p] # <<>> /\ seen[p].intake \in States
           /\ Head(todo[p]) \in IntakeWrites =>
                 ~ReadFirst(todo[p], IntakeWrites, IntakeReads)
           /\ \/ intake' = intake
              \/ /\ Head(todo[p]) \in IntakeWrites
                 /\ intake'.snapshots = seen[p].intake.snapshots
              \/ /\ Head(todo[p]) = "addSnapshot" /\ Head(todo[p]) \in IntakeWrites
                 /\ p \in Scored
                 /\ intake' = WithSnapshot(seen[p].intake, p)
           /\ Running(p)' =>
                 \/ ReadFirst(todo'[p], IntakeWrites, IntakeReads)
                 \/ Head(todo[p]) \in IntakeReads /\ seen'[p].intake = intake
                 \/ ~ReadFirst(todo[p], IntakeWrites, IntakeReads)
                       /\ seen'[p].intake = seen[p].intake
<1> DEFINE s == todo[p]
<1>1. /\ s \in Seq(Steps) /\ s # <<>> /\ Running(p) /\ seen[p].intake \in States
      /\ Sound(s, input[p].kind)
  BY DEF TypeInv, MemoryOK, RequestsOK, Moves, Views, Onward
<1>2. IntakeReads \cap IntakeWrites = {}
  BY DEF IntakeReads, IntakeWrites
<1>3. Head(s) \in IntakeWrites => ~ReadFirst(s, IntakeWrites, IntakeReads)
  BY <1>1, <1>2, ReadFirstTail
<1>4. \/ intake' = intake
      \/ Head(s) \in IntakeWrites /\ intake'.snapshots = seen[p].intake.snapshots
      \/ /\ Head(s) = "addSnapshot" /\ Head(s) \in IntakeWrites /\ p \in Scored
         /\ intake' = WithSnapshot(seen[p].intake, p)
  <2>1. CASE Head(s) \in {"mergePatch", "saveState"}
    <3>1. intake' = Merge(seen[p].intake, p) /\ Head(s) \in IntakeWrites
      BY <2>1 DEF GoesOn, IntakeWrites
    <3> QED BY <1>1, <3>1, MergeHolds
  <2>2. CASE Head(s) = "addSnapshot" /\ seen[p].hasIntake /\ input[p].scored
    <3>1. intake' = WithSnapshot(seen[p].intake, p) /\ Head(s) \in IntakeWrites
      BY <2>2 DEF GoesOn, IntakeWrites
    <3>2. input[p].kind \in AnalysisKinds
      BY <1>1, <2>2, SoundTail
    <3>3. p \in Scored
      BY <1>1, <2>2, <3>2 DEF Scored, Analyses, Is, Begun, Running, AnalysisKinds
    <3> QED BY <2>2, <3>1, <3>3
  <2>3. CASE /\ Head(s) \notin {"mergePatch", "saveState"}
             /\ ~(Head(s) = "addSnapshot" /\ seen[p].hasIntake /\ input[p].scored)
    BY <2>3 DEF GoesOn
  <2> QED BY <2>1, <2>2, <2>3
<1>5. ASSUME Running(p)', ~ReadFirst(todo'[p], IntakeWrites, IntakeReads)
      PROVE  \/ Head(s) \in IntakeReads /\ seen'[p].intake = intake
             \/ ~ReadFirst(s, IntakeWrites, IntakeReads) /\ seen'[p].intake = seen[p].intake
  <2>1. /\ todo'[p] = Tail(s)
        /\ seen'[p].intake = IF Head(s) \in IntakeReads THEN intake ELSE seen[p].intake
    BY <1>5 DEF GoesOn, Running
  <2>2. CASE Head(s) \in IntakeReads
    BY <2>1, <2>2
  <2>3. CASE Head(s) \notin IntakeReads
    BY <1>1, <1>5, <2>1, <2>3, ReadFirstTail
  <2> QED BY <2>2, <2>3
<1> QED BY <1>1, <1>3, <1>4, <1>5

LEMMA PicturedNext ==
    TypeInv /\ Logged /\ Onward /\ Pictured /\ [Next]_vars => Pictured'
<1> SUFFICES ASSUME TypeInv, Logged, Onward, Pictured, [Next]_vars, (Deletes = {})'
             PROVE  /\ Neat(intake'.snapshots, Snapped')
                    /\ \A q \in Requests : Neat(seen'[q].intake.snapshots, Snapped')
                    /\ \A q \in Requests : Running(q)' =>
                          \/ ReadFirst(todo'[q], IntakeWrites, IntakeReads)
                          \/ seen'[q].hasIntake
  BY DEF Pictured, Neat, Distinct, ReadFirst
<1> DEFINE Goal ==
              /\ Neat(intake'.snapshots, Snapped')
              /\ \A q \in Requests : Neat(seen'[q].intake.snapshots, Snapped')
              /\ \A q \in Requests : Running(q)' =>
                    \/ ReadFirst(todo'[q], IntakeWrites, IntakeReads)
                    \/ seen'[q].hasIntake
<1>1. /\ Deletes = {}
      /\ Neat(intake.snapshots, Snapped)
      /\ \A q \in Requests : Neat(seen[q].intake.snapshots, Snapped)
      /\ \A q \in Requests : Running(q) =>
            ReadFirst(todo[q], IntakeWrites, IntakeReads) \/ seen[q].hasIntake
  BY NextCases DEF Pictured
<1>2. ASSUME NEW p \in Requests, NEW i \in Inputs, Starts(p, i)
      PROVE  Goal
  <2>1. Snapped \subseteq Snapped' /\ ReadFirst(Program(i), IntakeWrites, IntakeReads)
    BY <1>2, StartsScored, ProgramSound
  <2>2. /\ Neat(intake'.snapshots, Snapped')
        /\ \A q \in Requests : Neat(seen'[q].intake.snapshots, Snapped')
    BY <1>1, <1>2, <2>1, NeatGrows DEF Starts, diskVars
  <2> QED BY <1>1, <1>2, <2>1, <2>2 DEF Starts, Running
<1>3. ASSUME NEW p \in Requests, Moves(p), GivesUp(p)
      PROVE  Goal
  <2>1. Snapped \subseteq Snapped'
    BY <1>3, MovesScored
  <2>2. intake' = intake /\ seen'[p].intake.snapshots = <<>> /\ ~Running(p)'
    BY <1>3, BlankTypes DEF GivesUp, diskVars, Running
  <2>3. Neat(intake'.snapshots, Snapped')
    BY <1>1, <2>1, <2>2, NeatGrows
  <2>4. \A q \in Requests : Neat(seen'[q].intake.snapshots, Snapped')
    BY <1>1, <1>3, <2>1, <2>2, NeatGrows, NeatEmpty DEF Moves
  <2> QED BY <1>1, <1>3, <2>2, <2>3, <2>4 DEF Moves, Running
<1>4. ASSUME NEW p \in Requests, Moves(p), GoesOn(p)
      PROVE  Goal
  <2>1. Snapped \subseteq Snapped' /\ Scored' = Scored
    BY <1>4, MovesScored
  <2>2. /\ todo[p] \in Seq(Steps) /\ todo[p] # <<>> /\ seen[p].intake \in States
        /\ Sound(todo[p], input[p].kind)
    BY <1>1, <1>4 DEF TypeInv, MemoryOK, RequestsOK, Moves, Views, Onward
  <2>3. Neat(intake'.snapshots, Snapped')
    <3>1. CASE intake' = intake
      BY <1>1, <2>1, <3>1, NeatGrows
    <3>2. CASE intake'.snapshots = seen[p].intake.snapshots
      BY <1>1, <2>1, <3>2, NeatGrows
    <3>3. CASE /\ Head(todo[p]) = "addSnapshot" /\ p \in Scored
               /\ intake' = WithSnapshot(seen[p].intake, p)
      <4>1. Len(todo[p]) = 3
        BY <2>2, <3>3, SoundTail
      <4>2. Len(todo'[p]) = 2
        BY <1>4, <2>2, <4>1, TailItems DEF GoesOn
      <4>3. p \notin Snapped /\ p \in Snapped'
        <5>1. ~(Len(todo[p]) < 3) /\ Len(todo'[p]) < 3
          BY <4>1, <4>2
        <5>2. p \in Scored /\ p \in Scored'
          BY <2>1, <3>3
        <5> QED BY <5>1, <5>2, Zenon DEF Snapped
      <4>4. Neat(intake'.snapshots, Snapped \cup {p})
        BY <1>1, <2>2, <3>3, <4>3, NeatAdd
      <4> QED BY <2>1, <4>3, <4>4, NeatGrows
    <3> QED BY <1>1, <1>4, <3>1, <3>2, <3>3, StepCopies
  <2>4. ASSUME NEW q \in Requests PROVE Neat(seen'[q].intake.snapshots, Snapped')
    <3>1. CASE q # p
      BY <1>1, <1>4, <2>1, <3>1, NeatGrows DEF Moves
    <3>2. CASE q = p
      <4>1. \/ seen'[p].intake.snapshots = <<>>
            \/ seen'[p].intake = intake
            \/ seen'[p].intake = seen[p].intake
        BY <1>4, BlankTypes DEF GoesOn
      <4>2. Neat(intake.snapshots, Snapped') /\ Neat(seen[p].intake.snapshots, Snapped')
        BY <1>1, <2>1, NeatGrows
      <4> QED BY <3>2, <4>1, <4>2, NeatEmpty
    <3> QED BY <3>1, <3>2
  <2>5. ASSUME NEW q \in Requests, Running(q)'
        PROVE  ReadFirst(todo'[q], IntakeWrites, IntakeReads) \/ seen'[q].hasIntake
    <3>1. CASE q # p
      BY <1>1, <1>4, <2>5, <3>1 DEF Moves, Running
    <3>2. CASE q = p
      <4>1. /\ todo'[p] = Tail(todo[p])
            /\ seen'[p].hasIntake = (Head(todo[p]) \in IntakeReads \/ seen[p].hasIntake)
        BY <1>4, <2>5, <3>2 DEF GoesOn, Running
      <4>2. CASE Head(todo[p]) \in IntakeReads
        BY <3>2, <4>1, <4>2
      <4>3. CASE Head(todo[p]) \notin IntakeReads
        <5>1. ReadFirst(todo[p], IntakeWrites, IntakeReads) \/ seen[p].hasIntake
          BY <1>1, <1>4 DEF Moves
        <5>2. ReadFirst(todo[p], IntakeWrites, IntakeReads) =>
                 ReadFirst(todo'[p], IntakeWrites, IntakeReads)
          BY <2>2, <4>1, <4>3, ReadFirstTail
        <5> QED BY <3>2, <4>1, <5>1, <5>2, Zenon
      <4> QED BY <4>2, <4>3
    <3> QED BY <3>1, <3>2
  <2> QED BY <2>3, <2>4, <2>5
<1>5. CASE UNCHANGED vars
  <2>1. Snapped' = Snapped
    BY <1>5 DEF vars, requestVars, Snapped, Scored, Analyses, Is, Begun
  <2> QED BY <1>1, <1>5, <2>1 DEF vars, diskVars, requestVars, Running
<1> QED BY <1>2, <1>3, <1>4, <1>5, NextCases

\* What a move leaves of a snapshot, its own append apart.
LEMMA ShownMoves ==
    ASSUME TypeInv, Onward, Pictured, Pictured', Deletes = {}, (Deletes = {})',
           NEW p \in Requests, Moves(p), GoesOn(p) \/ GivesUp(p),
           NEW r \in Requests, r # p \/ Head(todo[p]) # "addSnapshot", Shown(r)
    PROVE  Shown(r)'
<1>1. Scored' = Scored /\ Snapped \subseteq Snapped'
  BY MovesScored
<1>2. CASE Cardinality(Scored \ {r}) >= SnapshotCap
  BY <1>1, <1>2 DEF Shown
<1>3. CASE /\ Listed(intake.snapshots, r)
           /\ \A q \in Requests : Running(q) =>
                 \/ ReadFirst(todo[q], IntakeWrites, IntakeReads)
                 \/ Listed(seen[q].intake.snapshots, r)
  <2>1. CASE GivesUp(p)
    <3>1. intake' = intake /\ ~Running(p)'
      BY <2>1 DEF GivesUp, diskVars, Running
    <3> QED BY <1>3, <3>1 DEF Shown, Moves, Running
  <2>2. CASE GoesOn(p)
    <3>1. ~ReadFirst(todo[p], IntakeWrites, IntakeReads) => Listed(seen[p].intake.snapshots, r)
      BY <1>3 DEF Moves
    <3>2. Running(p)' => \/ ReadFirst(todo'[p], IntakeWrites, IntakeReads)
                         \/ Listed(seen'[p].intake.snapshots, r)
      BY <1>3, <2>2, <3>1, StepCopies
    <3>3. \A q \in Requests : Running(q)' =>
             \/ ReadFirst(todo'[q], IntakeWrites, IntakeReads)
             \/ Listed(seen'[q].intake.snapshots, r)
      BY <1>3, <3>2 DEF Moves, Running
    <3>4. Listed(intake'.snapshots, r) \/ Cardinality(Scored \ {r}) >= SnapshotCap
      <4>1. CASE intake' = intake
        BY <1>3, <4>1
      <4>2. CASE Head(todo[p]) \in IntakeWrites /\ intake'.snapshots = seen[p].intake.snapshots
        BY <2>2, <3>1, <4>2, StepCopies
      <4>3. CASE /\ Head(todo[p]) = "addSnapshot" /\ Head(todo[p]) \in IntakeWrites
                 /\ p \in Scored /\ intake' = WithSnapshot(seen[p].intake, p)
        <5>1. Listed(seen[p].intake.snapshots, r) /\ seen[p].intake \in States /\ r # p
          BY <2>2, <3>1, <4>3, StepCopies
        <5>2. /\ Snapped \subseteq Scored /\ Snapped' \subseteq Scored
              /\ Scored \in SUBSET Requests
          BY <1>1 DEF Snapped, Scored, Analyses
        <5>3. /\ Neat(seen[p].intake.snapshots, Scored)
              /\ Neat(intake'.snapshots, Scored)
          <6>1. Neat(seen[p].intake.snapshots, Snapped) /\ Neat(intake'.snapshots, Snapped')
            BY DEF Pictured, Neat, Distinct
          <6> QED BY <5>2, <6>1, NeatGrows
        <5> QED BY <4>3, <5>1, <5>2, <5>3, ListedStays
      <4> QED BY <2>2, <4>1, <4>2, <4>3, StepCopies
    <3> QED BY <1>1, <3>3, <3>4 DEF Shown, Listed, ReadFirst
  <2> QED BY <2>1, <2>2
<1> QED BY <1>2, <1>3 DEF Shown

LEMMA SnapshotsNext ==
    TypeInv /\ Logged /\ Onward /\ Alone /\ Pictured /\ Pictured' /\ SnapshotsStand
        /\ [Next]_vars => SnapshotsStand'
<1> SUFFICES ASSUME TypeInv, Logged, Onward, Alone, Pictured, Pictured', SnapshotsStand,
                    [Next]_vars, (Deletes = {})',
                    NEW r \in Scored', r \notin met', status'[r] # "error", Len(todo'[r]) < 3
             PROVE  Shown(r)'
  BY DEF SnapshotsStand
<1>1. Deletes = {} /\ r \in Requests
  BY NextCases DEF Scored, Analyses
<1>2. ASSUME NEW p \in Requests, NEW i \in Inputs, Starts(p, i)
      PROVE  Shown(r)'
  <2>1. /\ ReadFirst(Program(i), IntakeWrites, IntakeReads)
        /\ Program(i) \in Seq(Steps)
        /\ i.kind \in AnalysisKinds => Len(Program(i)) >= 5
    BY ProgramSound, ProgramOrderly
  <2>2. r # p
    <3>1. ASSUME r = p PROVE FALSE
      <4>1. todo'[r] = Program(i) /\ i.kind \in AnalysisKinds
        BY <1>2, <3>1 DEF Starts, Scored, Analyses, Is, AnalysisKinds
      <4>2. Len(Program(i)) \in Nat /\ Len(Program(i)) >= 5 /\ Len(Program(i)) < 3
        BY <2>1, <4>1, LenProperties
      <4> QED BY <4>2
    <3> QED BY <3>1
  <2>3. /\ Scored \subseteq Scored' /\ r \in Scored
        /\ r \notin met /\ status[r] # "error" /\ Len(todo[r]) < 3
    BY <1>1, <1>2, <2>2, StartsScored DEF Starts
  <2>4. Shown(r)
    BY <1>1, <2>3 DEF SnapshotsStand
  <2>5. Cardinality(Scored \ {r}) >= SnapshotCap => Cardinality(Scored' \ {r}) >= SnapshotCap
    <3>1. Scored \ {r} \subseteq Scored' \ {r} /\ Scored' \ {r} \in SUBSET Requests
      BY <2>3 DEF Scored, Analyses
    <3>2. Cardinality(Scored \ {r}) <= Cardinality(Scored' \ {r})
      BY <3>1, LogFinite, FS_Subset
    <3>3. Cardinality(Scored \ {r}) \in Nat /\ Cardinality(Scored' \ {r}) \in Nat
      BY <3>1, LogFinite
    <3> QED BY <3>2, <3>3, StoreAssumption
  <2> QED BY <1>2, <2>1, <2>4, <2>5 DEF Shown, Starts, diskVars, Running
<1>3. ASSUME NEW p \in Requests, Moves(p), GoesOn(p) \/ GivesUp(p)
      PROVE  Shown(r)'
  <2>1. r \in Scored /\ r \notin met
    BY <1>3, MovesScored DEF Moves
  <2>2. status[r] # "error"
    BY <1>1, <1>3 DEF Moves, Running
  <2>3. CASE Len(todo[r]) < 3
    <3>1. Shown(r)
      BY <1>1, <2>1, <2>2, <2>3 DEF SnapshotsStand
    <3>2. r # p \/ Head(todo[p]) # "addSnapshot"
      <4>1. ASSUME r = p, Head(todo[p]) = "addSnapshot" PROVE FALSE
        <5>1. todo[p] \in Seq(Steps) /\ todo[p] # <<>> /\ Sound(todo[p], input[p].kind)
          BY <1>1, <1>3 DEF TypeInv, MemoryOK, RequestsOK, Moves, Onward
        <5>2. Len(todo[p]) = 3
          BY <4>1, <5>1, SoundTail
        <5> QED BY <2>3, <4>1, <5>2
      <4> QED BY <4>1
    <3> QED BY <1>1, <1>3, <3>1, <3>2, ShownMoves
  <2>4. CASE ~(Len(todo[r]) < 3)
    <3>1. p = r
      BY <1>1, <1>3, <2>4 DEF Moves
    <3>2. GoesOn(r) /\ Running(r)
      BY <1>3, <3>1 DEF GivesUp, Moves
    <3>3. /\ todo[r] \in Seq(Steps) /\ todo[r] # <<>> /\ Sound(todo[r], input[r].kind)
          /\ seen[r].intake \in States
      BY <1>1, <3>2 DEF TypeInv, MemoryOK, RequestsOK, Onward, Views
    <3>4. Len(todo[r]) = 3
      <4>1. Len(todo[r]) \in Nat /\ Len(todo'[r]) = Len(todo[r]) - 1
        BY <3>2, <3>3, TailItems DEF GoesOn
      <4>2. Len(todo[r]) - 1 < 3
        <5>1. Len(todo'[r]) < 3
          OBVIOUS
        <5> QED BY <4>1, <5>1, Zenon
      <4>3. \A n \in Nat : ~(n < 3) /\ n - 1 < 3 => n = 3
        OBVIOUS
      <4> QED BY <2>4, <4>1, <4>2, <4>3, Zenon
    <3>5. input[r].kind \in AnalysisKinds /\ input[r].scored
      BY <2>1 DEF Scored, Analyses, Is, AnalysisKinds
    <3>6. Head(todo[r]) = "addSnapshot" /\ Head(todo[r]) \in IntakeWrites
      BY <3>3, <3>4, <3>5, SoundTail DEF IntakeWrites
    <3>7. seen[r].hasIntake
      BY <1>1, <1>3, <3>1, <3>2, <3>6, StepCopies DEF Pictured
    <3>8. intake' = WithSnapshot(seen[r].intake, r)
      BY <3>2, <3>5, <3>6, <3>7 DEF GoesOn
    <3>9. r \notin Snapped /\ Neat(seen[r].intake.snapshots, Snapped)
      BY <1>1, <2>4 DEF Pictured, Snapped
    <3>10. Listed(intake'.snapshots, r)
      BY <1>1, <3>3, <3>8, <3>9, NeatAdd
    <3>11. ReadFirst(todo'[r], IntakeWrites, IntakeReads)
      BY <3>2, <3>3, <3>6, SoundTail DEF GoesOn
    <3>12. \A q \in Requests \ {r} : ~Running(q)'
      BY <1>1, <1>3, <2>1, <3>1, <3>2 DEF Alone, Moves, Running
    <3> QED BY <3>10, <3>11, <3>12 DEF Shown, Listed, ReadFirst
  <2> QED BY <2>3, <2>4
<1>4. CASE UNCHANGED vars
  <2>1. Scored' = Scored
    BY <1>4 DEF vars, requestVars, Scored, Analyses, Is, Begun
  <2>2. Shown(r)
    BY <1>1, <1>4, <2>1 DEF vars, requestVars, SnapshotsStand
  <2> QED BY <1>4, <2>1, <2>2 DEF vars, diskVars, requestVars, Shown, Running
<1> QED BY <1>2, <1>3, <1>4, NextCases

\* The readiness snapshot of an acknowledged analysis that met nobody stays until
\* SnapshotCap other scored analyses were asked for, whatever append_snapshot and
\* merge_intake_patch write back later.
THEOREM SnapshotsAreKept == Spec => []SnapshotsKept
<1> DEFINE Inv == TypeInv /\ Logged /\ Onward /\ Alone /\ Pictured /\ SnapshotsStand
<1>1. Init => Inv
  BY TypeInvInit, LoggedInit, OnwardInit, AloneInit, SnapshotsInit
<1>2. Inv /\ [Next]_vars => Inv'
  BY TypeInvNext, LoggedNext, OnwardNext, AloneNext, PicturedNext, SnapshotsNext
<1>3. Inv => SnapshotsKept
  <2> SUFFICES ASSUME Inv, Deletes = {}, NEW r \in Scored, r \notin met, status[r] = "ok"
               PROVE  \/ \E i \in 1 .. Len(intake.snapshots) : intake.snapshots[i] = r
                      \/ Cardinality(Scored \ {r}) >= SnapshotCap
    BY DEF SnapshotsKept, Scored
  <2>1. todo[r] = <<>> /\ Len(<<>>) < 3
    BY DEF Onward, Scored, Analyses
  <2>2. Len(todo[r]) < 3
    BY <2>1
  <2> QED BY <2>2 DEF SnapshotsStand, Shown, Listed
<1> QED BY <1>1, <1>2, <1>3, PTL DEF Spec

=============================================================================
