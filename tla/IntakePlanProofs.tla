-------------------------- MODULE IntakePlanProofs --------------------------
(***************************************************************************)
(* What the intake tells the owner, for every record it can hold: the      *)
(* plan's percentage, next question and section agree, the score stays in  *)
(* its range, and a click in the action plan lowers no driver.  The types  *)
(* of the whole intake rest on the range of the score, and are proved here *)
(* too.                                                                    *)
(***************************************************************************)
EXTENDS IntakePageProofs, FiniteSetTheorems, SequenceTheorems

-----------------------------------------------------------------------------
(* The plan *)

LEMMA SettledStatus ==
    ASSUME NEW f, Settled(f), NEW n \in FieldNames PROVE f[n].status \in FieldStatuses
<1>1. NormalizeField(f[n]) = f[n]
  BY DEF Settled, Stable
<1>2. NormalizeField(f[n]).status \in FieldStatuses
  BY DEF NormalizeField, FieldStatuses
<1> QED
  BY <1>1, <1>2

SectionNames ==
    {"business", "owner", "financialClarity", "operationalTransferability",
     "processDocumentation", "familyAlignment", "emotionalReadiness", "protectedInterests",
     "successorPreferences"}

LEMMA SectionsListed == DOMAIN SectionFields = SectionNames
  BY DEF SectionFields, SectionNames

LEMMA SectionsNamed ==
    /\ DOMAIN SectionOrder = 1..9
    /\ Len(SectionOrder) = 9
    /\ \A i \in 1..9 : SectionOrder[i] \in DOMAIN SectionFields
    /\ \A s \in DOMAIN SectionFields : \E i \in 1..9 : s = SectionOrder[i]
  BY DEF SectionOrder, SectionFields

LEMMA SectionLists ==
    ASSUME NEW s \in DOMAIN SectionFields
    PROVE  /\ SectionFields[s] \in Seq(ToSet(SectionFields[s]))
           /\ Len(SectionFields[s]) \in 1..7
<1>0. DOMAIN SectionFields = SectionNames
  BY SectionsListed
<1>1. CASE s = "business"
  BY <1>1 DEF SectionFields, ToSet
<1>2. CASE s = "owner"
  BY <1>2 DEF SectionFields, ToSet
<1>3. CASE s = "financialClarity"
  BY <1>3 DEF SectionFields, ToSet
<1>4. CASE s = "operationalTransferability"
  BY <1>4 DEF SectionFields, ToSet
<1>5. CASE s = "processDocumentation"
  BY <1>5 DEF SectionFields, ToSet
<1>6. CASE s = "familyAlignment"
  BY <1>6 DEF SectionFields, ToSet
<1>7. CASE s = "emotionalReadiness"
  BY <1>7 DEF SectionFields, ToSet
<1>8. CASE s = "protectedInterests"
  BY <1>8 DEF SectionFields, ToSet
<1>9. CASE s = "successorPreferences"
  BY <1>9 DEF SectionFields, ToSet
<1> QED
  BY <1>0, <1>1, <1>2, <1>3, <1>4, <1>5, <1>6, <1>7, <1>8, <1>9 DEF SectionNames

LEMMA AppendOne ==
    ASSUME NEW S, NEW s \in Seq(S), NEW x \in S
    PROVE  /\ Append(s, x) \in Seq(S) /\ Len(Append(s, x)) = Len(s) + 1
           /\ ToSet(s) \subseteq ToSet(Append(s, x)) /\ x \in ToSet(Append(s, x))
  BY DEF ToSet

\* The questions of a section: what they are, and how many.
LEMMA QuestionsNamed ==
    ASSUME NEW s \in DOMAIN SectionFields
    PROVE  /\ Questions(s) \in Seq(FieldNames)
           /\ Len(Questions(s)) \in 1..8
           /\ ToSet(SectionFields[s]) \subseteq ToSet(Questions(s))
           /\ s = "protectedInterests" => "nonNegotiables" \in ToSet(Questions(s))
<1>1. ToSet(SectionFields[s]) \subseteq FieldNames /\ "nonNegotiables" \in FieldNames
  BY DEF FieldNames
<1>2. SectionFields[s] \in Seq(FieldNames) /\ Len(SectionFields[s]) \in 1..7
  BY <1>1, SectionLists
<1>3. CASE s = "protectedInterests"
  <2>1. Questions(s) = Append(SectionFields[s], "nonNegotiables")
    BY <1>3 DEF Questions
  <2>2. Len(Questions(s)) = Len(SectionFields[s]) + 1
    BY <1>1, <1>2, <2>1, AppendOne
  <2>3. Len(Questions(s)) \in 1..8
    <3>1. \A n \in 1..7 : n + 1 \in 1..8
      OBVIOUS
    <3> QED
      BY <1>2, <2>2, <3>1, Zenon
  <2> QED
    BY <1>1, <1>2, <2>1, <2>3, AppendOne
<1>4. CASE s # "protectedInterests"
  BY <1>2, <1>4 DEF Questions
<1> QED
  BY <1>3, <1>4

LEMMA EveryFieldAsked ==
    ASSUME NEW n \in FieldNames
    PROVE  \E i \in 1..9 : n \in ToSet(Questions(SectionOrder[i]))
<1>1. \E s \in DOMAIN SectionFields : n \in ToSet(Questions(s))
  <2>1. "protectedInterests" \in DOMAIN SectionFields
    BY DEF SectionFields
  <2>2. CASE n = "nonNegotiables"
    BY <2>1, <2>2, QuestionsNamed
  <2>3. CASE n # "nonNegotiables"
    BY <2>3, QuestionsNamed DEF FieldNames
  <2> QED
    BY <2>2, <2>3
<1> QED
  BY <1>1, SectionsNamed

\* The places of the plan, and the questions there.
LEMMA PlacesNamed ==
    /\ \A p \in Places : /\ p[1] \in 1..9 /\ p[2] \in 1..8
                         /\ p[2] \in DOMAIN Questions(SectionOrder[p[1]])
                         /\ QuestionAt(p) \in FieldNames
                         /\ QuestionAt(p) \in ToSet(Questions(SectionOrder[p[1]]))
    /\ \A i \in 1..9 : \A q \in ToSet(Questions(SectionOrder[i])) :
          \E j \in 1..8 : <<i, j>> \in Places /\ QuestionAt(<<i, j>>) = q
<1>1. ASSUME NEW i \in 1..9
      PROVE  /\ Questions(SectionOrder[i]) \in Seq(FieldNames)
             /\ DOMAIN Questions(SectionOrder[i]) \subseteq 1..8
  <2>1. SectionOrder[i] \in DOMAIN SectionFields
    BY SectionsNamed
  <2>2. /\ Questions(SectionOrder[i]) \in Seq(FieldNames)
        /\ Len(Questions(SectionOrder[i])) \in 1..8
    BY <2>1, QuestionsNamed
  <2> QED
    BY <2>2
<1>2. ASSUME NEW p \in Places
      PROVE  /\ p[1] \in 1..9
             /\ p[2] \in DOMAIN Questions(SectionOrder[p[1]])
  BY SectionsNamed DEF Places
<1>3. ASSUME NEW i \in 1..9, NEW q \in ToSet(Questions(SectionOrder[i]))
      PROVE  \E j \in 1..8 : <<i, j>> \in Places /\ QuestionAt(<<i, j>>) = q
  <2>1. PICK j \in DOMAIN Questions(SectionOrder[i]) : q = Questions(SectionOrder[i])[j]
    BY DEF ToSet
  <2>2. <<i, j>> \in Places
    BY SectionsNamed DEF Places
  <2> QED
    BY <1>1, <2>1, <2>2 DEF QuestionAt
<1>4. ASSUME NEW p \in Places
      PROVE  /\ p[2] \in 1..8 /\ QuestionAt(p) \in FieldNames
             /\ QuestionAt(p) \in ToSet(Questions(SectionOrder[p[1]]))
  <2>1. /\ Questions(SectionOrder[p[1]]) \in Seq(FieldNames)
        /\ DOMAIN Questions(SectionOrder[p[1]]) \subseteq 1..8
        /\ p[2] \in DOMAIN Questions(SectionOrder[p[1]])
    BY <1>1, <1>2
  <2> QED
    BY <2>1 DEF QuestionAt, ToSet
<1> QED
  BY <1>2, <1>3, <1>4
\* There is a field and there are fewer than two hundred.
LEMMA FieldsCounted == IsFiniteSet(FieldNames) /\ TotalFields \in 1..72
<1> DEFINE D == (1..9) \X (1..8)
           f == [p \in D |-> IF p \in Places THEN QuestionAt(p) ELSE "nonNegotiables"]
<1>1. "nonNegotiables" \in FieldNames
  BY DEF FieldNames
<1>2. IsFiniteSet(D) /\ Cardinality(D) = 72
  <2>1. /\ IsFiniteSet(1..9) /\ Cardinality(1..9) = 9
        /\ IsFiniteSet(1..8) /\ Cardinality(1..8) = 8
    <3>1. \A n \in Nat \ {0} : IsFiniteSet(1..n) /\ Cardinality(1..n) = n
      BY FS_Interval
    <3>2. 8 \in Nat \ {0} /\ 9 \in Nat \ {0}
      OBVIOUS
    <3> QED
      BY <3>1, <3>2, Zenon
  <2>2. IsFiniteSet(D) /\ Cardinality(D) = Cardinality(1..9) * Cardinality(1..8)
    BY <2>1, FS_Product, Zenon
  <2> QED
    BY <2>1, <2>2
<1>3. f \in [D -> FieldNames]
  BY <1>1, PlacesNamed
<1>4. ASSUME NEW n \in FieldNames PROVE \E p \in D : f[p] = n
  <2>1. PICK i \in 1..9 : n \in ToSet(Questions(SectionOrder[i]))
    BY EveryFieldAsked
  <2>2. PICK j \in 1..8 : <<i, j>> \in Places /\ QuestionAt(<<i, j>>) = n
    BY <2>1, PlacesNamed
  <2> QED
    BY <2>2
<1>5. f \in Surjection(D, FieldNames)
  BY <1>3, <1>4 DEF Surjection
<1> HIDE DEF D, f
<1>6. IsFiniteSet(FieldNames) /\ Cardinality(FieldNames) <= Cardinality(D)
  BY <1>2, <1>5, FS_Surjection
<1>7. Cardinality(FieldNames) \in Nat /\ Cardinality(FieldNames) # 0
  BY <1>1, <1>6, FS_EmptySet, FS_CardinalityType
<1> QED
  BY <1>2, <1>6, <1>7 DEF TotalFields

LEMMA Quotient ==
    ASSUME NEW a \in Nat, NEW b \in Nat \ {0}, a < 100 * b PROVE a \div b < 100
  OBVIOUS

LEMMA Percent ==
    ASSUME NEW t \in 1..72, NEW c \in 0..t
    PROVE  (200 * c + t) \div (2 * t) = 100 <=> c = t
<1>1. ASSUME c = t PROVE (200 * c + t) \div (2 * t) = 100
  BY <1>1
<1>2. ASSUME c < t PROVE (200 * c + t) \div (2 * t) < 100
  <2>1. /\ 200 * c + t < 100 * (2 * t)
        /\ 200 * c + t \in Nat /\ 2 * t \in Nat \ {0}
    BY <1>2
  <2> QED
    BY <2>1, Quotient, Zenon
<1> QED
  BY <1>1, <1>2

\* The percentage is full when every field is complete, and only then.
LEMMA FullPercentage ==
    ASSUME NEW f
    PROVE  CompletionPct(f) = 100 <=> \A n \in FieldNames : f[n].status \in CompleteStatuses
<1> DEFINE C == {n \in FieldNames : f[n].status \in CompleteStatuses}
<1>1. /\ IsFiniteSet(C) /\ Cardinality(C) <= Cardinality(FieldNames)
      /\ Cardinality(FieldNames) = Cardinality(C) => FieldNames = C
  BY FieldsCounted, FS_Subset
<1>2. Cardinality(C) \in 0..TotalFields
  BY <1>1, FS_CardinalityType, FieldsCounted DEF TotalFields
<1>3. CompletionPct(f) = (200 * Cardinality(C) + TotalFields) \div (2 * TotalFields)
  BY DEF CompletionPct, PercentOf, CompleteFields
<1>4. CompletionPct(f) = 100 <=> Cardinality(C) = TotalFields
  BY <1>2, <1>3, FieldsCounted, Percent
<1> QED
  BY <1>1, <1>4 DEF TotalFields
-----------------------------------------------------------------------------
(* The next question and the section to resume at *)

LEMMA SmallLeast ==
    ASSUME NEW S \in SUBSET (1..9), S # {} PROVE \E i \in S : \A j \in S : i <= j
<1>0. PICK x \in S : x \in 1..9
  OBVIOUS
<1>1. \/ 1 \in S \/ 2 \in S \/ 3 \in S \/ 4 \in S \/ 5 \in S \/ 6 \in S
      \/ 7 \in S \/ 8 \in S \/ 9 \in S
  <2>1. x \in {1, 2, 3, 4, 5, 6, 7, 8, 9}
    BY <1>0
  <2> QED
    BY <2>1
<1> QED
  BY <1>1

LEMMA FirstPlace ==
    ASSUME NEW O \in SUBSET Places, O # {}
    PROVE  \E p \in O : \A r \in O : NotAfter(p, r)
<1> DEFINE I == {p[1] : p \in O}
<1>1. \A p \in O : p[1] \in 1..9 /\ p[2] \in 1..8
  BY PlacesNamed
<1>2. PICK i \in I : \A k \in I : i <= k
  <2>1. I \in SUBSET (1..9) /\ I # {}
    BY <1>1
  <2> QED
    BY <2>1, SmallLeast
<1> DEFINE J == {p[2] : p \in {q \in O : q[1] = i}}
<1>3. PICK j \in J : \A k \in J : j <= k
  <2>1. J \in SUBSET (1..9) /\ J # {}
    BY <1>1, <1>2
  <2> QED
    BY <2>1, SmallLeast
<1>4. PICK p \in O : p[1] = i /\ p[2] = j
  BY <1>3
<1>5. ASSUME NEW r \in O PROVE NotAfter(p, r)
  <2>1. i <= r[1] /\ (r[1] = i => j <= r[2])
    BY <1>2, <1>3
  <2> QED
    BY <1>1, <1>4, <2>1 DEF NotAfter
<1> QED
  BY <1>4, <1>5

OpenPlaces(f) ==
    {p \in Places : /\ Shown(f, SectionOrder[p[1]], QuestionAt(p))
                    /\ f[QuestionAt(p)].status = "unknown"}

LEMMA NoSuchField == NoQuestion \notin FieldNames
<1>1. DOMAIN SectionFields = SectionNames
  BY SectionsListed
<1>2. \A s \in DOMAIN SectionFields : "none" \notin ToSet(SectionFields[s])
  BY <1>1 DEF SectionFields, ToSet
<1> QED
  BY <1>2 DEF FieldNames, NoQuestion

\* The next question stands at the first open place.
LEMMA NextQuestionFirst ==
    ASSUME NEW f
    PROVE  /\ Done(f) <=> OpenPlaces(f) = {}
           /\ ~Done(f) => \E p \in OpenPlaces(f) :
                /\ NextQuestion(f) = QuestionAt(p)
                /\ \A r \in OpenPlaces(f) : NotAfter(p, r)
<1> DEFINE O == OpenPlaces(f)
           first == CHOOSE p \in O : \A r \in O : NotAfter(p, r)
<1>1. NextQuestion(f) = IF O = {} THEN NoQuestion ELSE QuestionAt(first)
  BY DEF NextQuestion, OpenPlaces
<1>2. O \in SUBSET Places
  BY DEF OpenPlaces
<1> HIDE DEF O
<1>3. O # {} => first \in O /\ \A r \in O : NotAfter(first, r)
  BY <1>2, FirstPlace
<1> HIDE DEF first
<1>4. O # {} => QuestionAt(first) # NoQuestion
  BY <1>2, <1>3, PlacesNamed, NoSuchField
<1> QED
  BY <1>1, <1>3, <1>4 DEF Done, O

LEMMA ResumeFirst ==
    ASSUME NEW f
    PROVE  LET open == {i \in 1..9 : ~SectionComplete(f, SectionOrder[i])}
           IN  /\ Resume(f) \in 1..9
               /\ open # {} => Resume(f) \in open /\ \A j \in open : Resume(f) <= j
<1> DEFINE S == {i \in 1..9 : ~SectionComplete(f, SectionOrder[i])}
<1>1. Resume(f) = IF S = {} THEN 1 ELSE CHOOSE i \in S : \A j \in S : i <= j
  BY SectionsNamed DEF Resume
<1>2. S # {} => \E i \in S : \A j \in S : i <= j
  BY SmallLeast
<1>3. S \subseteq 1..9 /\ 1 \in 1..9
  OBVIOUS
<1> HIDE DEF S
<1>4. S # {} => Resume(f) \in S /\ \A j \in S : Resume(f) <= j
  BY <1>1, <1>2
<1>5. Resume(f) \in 1..9
  BY <1>1, <1>3, <1>4
<1> QED
  BY <1>4, <1>5 DEF S

\* What the three numbers and names say of one record agrees.
LEMMA RecordAgrees ==
    ASSUME NEW f, Settled(f)
    PROVE  /\ CompletionPct(f) = 100 => Done(f)
           /\ Done(f) =>
                 \/ CompletionPct(f) = 100
                 \/ Collapsed(f)
                 \/ \E n \in FieldNames : f[n].status = "pending_document"
           /\ ~Done(f) => NextQuestion(f) \in Asked(f, SectionOrder[Resume(f)])
<1>1. CompletionPct(f) = 100 => Done(f)
  <2>1. ASSUME CompletionPct(f) = 100 PROVE OpenPlaces(f) = {}
    BY <2>1, FullPercentage, PlacesNamed DEF OpenPlaces, CompleteStatuses
  <2> QED
    BY <2>1, NextQuestionFirst
<1>2. ASSUME Done(f), ~Collapsed(f), NEW n \in FieldNames PROVE f[n].status # "unknown"
  <2>1. PICK i \in 1..9 : n \in ToSet(Questions(SectionOrder[i]))
    BY EveryFieldAsked
  <2>2. PICK j \in 1..8 : <<i, j>> \in Places /\ QuestionAt(<<i, j>>) = n
    BY <2>1, PlacesNamed
  <2>3. <<i, j>> \notin OpenPlaces(f)
    BY <1>2, NextQuestionFirst
  <2>4. Shown(f, SectionOrder[i], n)
    BY <1>2 DEF Shown
  <2> QED
    BY <2>2, <2>3, <2>4 DEF OpenPlaces
<1>3. ASSUME Done(f), ~Collapsed(f), \A n \in FieldNames : f[n].status # "pending_document"
      PROVE  CompletionPct(f) = 100
  <2>1. \A n \in FieldNames : f[n].status \in CompleteStatuses
    BY <1>2, <1>3, SettledStatus DEF FieldStatuses, CompleteStatuses
  <2> QED
    BY <2>1, FullPercentage
<1>4. ASSUME ~Done(f) PROVE NextQuestion(f) \in Asked(f, SectionOrder[Resume(f)])
  <2> DEFINE S == {i \in 1..9 : ~SectionComplete(f, SectionOrder[i])}
  <2>1. PICK p \in OpenPlaces(f) : /\ NextQuestion(f) = QuestionAt(p)
                                   /\ \A r \in OpenPlaces(f) : NotAfter(p, r)
    BY <1>4, NextQuestionFirst
  <2>2. /\ p \in Places /\ p[1] \in 1..9
        /\ QuestionAt(p) \in Asked(f, SectionOrder[p[1]])
        /\ f[QuestionAt(p)].status = "unknown"
    BY PlacesNamed DEF OpenPlaces, Asked
  <2>3. p[1] \in S
    BY <2>2 DEF SectionComplete, CompleteStatuses
  <2>4. Resume(f) \in S /\ Resume(f) <= p[1]
    BY <2>3, ResumeFirst
  <2>5. PICK q \in Asked(f, SectionOrder[Resume(f)]) :
            f[q].status \notin CompleteStatuses \cup {"pending_document"}
    BY <2>4 DEF SectionComplete
  <2>6. q \in ToSet(Questions(SectionOrder[Resume(f)])) /\ Shown(f, SectionOrder[Resume(f)], q)
    BY DEF Asked
  <2>7. PICK j \in 1..8 : /\ <<Resume(f), j>> \in Places
                          /\ QuestionAt(<<Resume(f), j>>) = q
    BY <2>4, <2>6, PlacesNamed
  <2>8. f[q].status = "unknown"
    BY <2>5, <2>7, PlacesNamed, SettledStatus DEF FieldStatuses, CompleteStatuses
  <2>9. <<Resume(f), j>> \in OpenPlaces(f)
    BY <2>6, <2>7, <2>8 DEF OpenPlaces
  <2>10. p[1] <= Resume(f)
    BY <2>1, <2>2, <2>4, <2>9 DEF NotAfter
  <2>11. p[1] = Resume(f)
    BY <2>2, <2>4, <2>10
  <2> QED
    BY <2>1, <2>2, <2>11
<1> QED
  BY <1>1, <1>3, <1>4

\* The completion shown to the owner, the end of the questions, the next
\* question and the section the page resumes at never contradict each other,
\* whatever record the saves have left (branching.py 243-288,
\* intake_state.py 201-244, page.jsx 149-151).
THEOREM PlanIsCoherent == Spec => []PlanAgrees
<1>1. Frame => PlanAgrees
  BY RecordAgrees DEF Frame, Shape, PlanAgrees
<1> QED
  BY <1>1, OneContinueAtATime, PTL
-----------------------------------------------------------------------------
(* The readiness score *)

LEMMA MarksCount == \A v \in Marks : Cardinality(v) \in Nat
  BY FS_CardinalityType DEF Marks

LEMMA ClampBounds == ASSUME NEW n \in Int PROVE Clamp(n) \in 0..100
  BY DEF Clamp

LEMMA Points ==
    /\ \A v : \A yes, no \in Int : ByYesNo(v, yes, no) \in Int
    /\ \A v : \A points :
          (\A c \in DOMAIN points : points[c] \in Int) => ByChoice(v, points) \in Int
    /\ \A b : \A n \in Int : When(b, n) \in Int
  BY DEF ByYesNo, ByChoice, When

LEMMA FinancialBounds == ASSUME NEW f PROVE Financial(f) \in 0..100
<1>1. ByChoice(f["revenueTrend"].value, [growing |-> 10, declining |-> -10]) \in Int
  BY Points
<1>2. /\ ByYesNo(f["booksUpToDate"].value, 20, -10) \in Int
      /\ ByYesNo(f["financialsDocumented"].value, 20, 0) \in Int
      /\ ByYesNo(f["profitabilityClear"].value, 10, 0) \in Int
      /\ ByYesNo(f["ownerCompNormalized"].value, 10, 0) \in Int
  BY Points
<1> QED
  BY <1>1, <1>2, ClampBounds DEF Financial

LEMMA OperationalBounds == ASSUME NEW f PROVE Operational(f) \in 0..100
<1>1. /\ ByChoice(f["keyPersonRisk"].value, [low |-> 30, high |-> -30]) \in Int
      /\ ByChoice(f["managementDepth"].value, [solid |-> 20, thin |-> -10, none |-> -30]) \in Int
  BY Points
<1>2. /\ ByYesNo(f["systemsDocumented"].value, 10, 0) \in Int
      /\ When(Cardinality(f["functionsDependentOnOwner"].value) >= 4, -20) \in Int
  BY Points
<1> QED
  BY <1>1, <1>2, ClampBounds DEF Operational

LEMMA ProcessBounds ==
    ASSUME NEW f, f["documentedAreas"].value \in Marks PROVE Process(f) \in 0..100
<1>1. ByChoice(f["tribalKnowledgeRisk"].value, [low |-> 20, high |-> -20]) \in Int
  BY Points
<1>2. ByYesNo(f["sopsExist"].value, 20, -20) \in Int
  BY Points
<1>3. Cardinality(f["documentedAreas"].value) \in Nat
  BY MarksCount
<1> QED
  BY <1>1, <1>2, <1>3, ClampBounds DEF Process

LEMMA FamilyBounds == ASSUME NEW f PROVE Family(f) \in 0..100
<1>1. /\ ByChoice(f["alignmentLevel"].value,
                   [aligned |-> 30, partial |-> 5, misaligned |-> -30]) \in Int
      /\ ByChoice(f["conflictRisk"].value, [low |-> 10, high |-> -20]) \in Int
  BY Points
<1>2. ByYesNo(f["expectationsKnown"].value, 10, 0) \in Int
  BY Points
<1> QED
  BY <1>1, <1>2, ClampBounds DEF Family

LEMMA EmotionalBounds == ASSUME NEW f PROVE Emotional(f) \in 0..100
<1> DEFINE letGo == f["readinessToLetGo"].value
           identity == f["identityTiedToBusiness"].value
<1>1. (IF IsNumber(letGo) THEN 12 * (Number(letGo) - 3) ELSE 0) \in Int
  BY DEF IsNumber, Number
<1>2. /\ When(IsNumber(identity) /\ Number(identity) >= 4, -10) \in Int
      /\ When(f["primaryMotivation"].value # {}, 10) \in Int
      /\ When(f["topConcerns"].value # {}, 5) \in Int
  BY Points
<1> QED
  BY <1>1, <1>2, ClampBounds DEF Emotional

LEMMA DriverOfBounds ==
    ASSUME NEW f, f["documentedAreas"].value \in Marks, NEW d \in Drivers
    PROVE  DriverOf(d, f) \in 0..100
  BY FinancialBounds, OperationalBounds, ProcessBounds, FamilyBounds, EmotionalBounds
     DEF DriverOf, Drivers

LEMMA DriverBounds ==
    ASSUME NEW f, f["documentedAreas"].value \in Marks, NEW d \in Drivers
    PROVE  DriverScore(d, f) \in 0..50
<1>1. DriverOf(d, f) \in 0..100
  BY DriverOfBounds
<1>2. \A t \in 0..100 : Tenths(t) \in 0..50
  BY DEF Tenths
<1> QED
  BY <1>1, <1>2 DEF DriverScore

LEMMA Weights == \A s \in 0..50 : Weight[s + 1] \in Nat \ {0}
<1>1. \A i \in 1..51 : Weight[i] \in Nat \ {0}
  BY DEF Weight
<1> QED
  BY <1>1

LEMMA MeanBound ==
    ASSUME NEW s \in 0..50, NEW w \in Nat \ {0}
    PROVE  2 * s * w \in Nat /\ 2 * s * w <= 100 * w
<1>1. s * w \in Nat /\ s * w <= 50 * w
  OBVIOUS
<1> QED
  BY <1>1

LEMMA SumBounds ==
    ASSUME NEW w, NEW x,
           \A d \in Drivers : w[d] \in Nat \ {0} /\ x[d] \in Nat /\ x[d] <= 100 * w[d]
    PROVE  /\ OverDrivers(w) \in Nat \ {0} /\ OverDrivers(x) \in Nat
           /\ OverDrivers(x) <= 100 * OverDrivers(w)
<1>1. \A a, b, c, d, e \in Nat : \A k, l, m, n, o \in Nat \ {0} :
         a <= 100 * k /\ b <= 100 * l /\ c <= 100 * m /\ d <= 100 * n /\ e <= 100 * o
            => /\ k + l + m + n + o \in Nat \ {0} /\ a + b + c + d + e \in Nat
               /\ a + b + c + d + e <= 100 * (k + l + m + n + o)
  OBVIOUS
<1>2. /\ "financial_clarity" \in Drivers /\ "operational_transferability" \in Drivers
      /\ "process_documentation" \in Drivers /\ "family_alignment" \in Drivers
      /\ "owner_emotional_readiness" \in Drivers
  BY DEF Drivers
<1> QED
  BY <1>1, <1>2 DEF OverDrivers

\* The unified score is a number from 0 to 100.
LEMMA UnifiedBounds ==
    ASSUME NEW scores, \A d \in Drivers : scores[d] \in 0..50
    PROVE  UnifiedReadinessScore(scores) \in 0..100
<1> DEFINE w == [d \in Drivers |-> Weight[scores[d] + 1]]
           x == [d \in Drivers |-> 2 * scores[d] * w[d]]
<1>1. \A d \in Drivers : w[d] \in Nat \ {0} /\ x[d] \in Nat /\ x[d] <= 100 * w[d]
  BY Weights, MeanBound
<1> DEFINE W == OverDrivers(w)
           X == OverDrivers(x)
<1>2. UnifiedReadinessScore(scores) = (2 * X + W) \div (2 * W)
  BY DEF UnifiedReadinessScore
<1> HIDE DEF w, x
<1>3. W \in Nat \ {0} /\ X \in Nat /\ X <= 100 * W
  BY <1>1, SumBounds, Zenon
<1> HIDE DEF W, X
<1>4. 2 * X + W \in Nat /\ 2 * W \in Nat \ {0} /\ 2 * X + W < 101 * (2 * W)
  BY <1>3
<1>5. \A a \in Nat : \A b \in Nat \ {0} : a < 101 * b => a \div b \in 0..100
  OBVIOUS
<1> QED
  BY <1>2, <1>4, <1>5, Zenon

LEMMA OverallBounds ==
    ASSUME NEW f, f["documentedAreas"].value \in Marks PROVE Overall(f) \in 0..100
<1> DEFINE scores == [d \in Drivers |-> DriverScore(d, f)]
<1>1. \A d \in Drivers : scores[d] \in 0..50
  BY DriverBounds
<1> QED
  BY <1>1, UnifiedBounds DEF Overall
-----------------------------------------------------------------------------
(* The types *)

LEMMA MarksMade ==
    /\ {} \in Marks
    /\ \A m \in OwnMarks : {m} \in Marks
  BY FS_EmptySet, FS_Singleton DEF Marks

\* Every field is seeded by one of the rules.
SeededFields ==
    SameKey \cup DOMAIN OtherKey \cup DOMAIN BooleanKey
    \cup {"category", "employeeBand", "revenueBand", "customerConcentration", "isFounder",
          "role", "profitabilityClear", "keyPersonRisk", "tribalKnowledgeRisk",
          "expectationsKnown", "alignmentLevel", "employeeConcerns",
          "customerContinuityConcerns"}

LEMMA EveryFieldSeeded == FieldNames \subseteq SeededFields
<1>1. DOMAIN SectionFields = SectionNames
  BY SectionsListed
<1>2. ToSet(SectionFields["business"]) \subseteq SeededFields
  BY DEF SectionFields, ToSet, SeededFields, SameKey, OtherKey, BooleanKey
<1>3. ToSet(SectionFields["owner"]) \subseteq SeededFields
  BY DEF SectionFields, ToSet, SeededFields, SameKey, OtherKey, BooleanKey
<1>4. ToSet(SectionFields["financialClarity"]) \subseteq SeededFields
  BY DEF SectionFields, ToSet, SeededFields, SameKey, OtherKey, BooleanKey
<1>5. ToSet(SectionFields["operationalTransferability"]) \subseteq SeededFields
  BY DEF SectionFields, ToSet, SeededFields, SameKey, OtherKey, BooleanKey
<1>6. ToSet(SectionFields["processDocumentation"]) \subseteq SeededFields
  BY DEF SectionFields, ToSet, SeededFields, SameKey, OtherKey, BooleanKey
<1>7. ToSet(SectionFields["familyAlignment"]) \subseteq SeededFields
  BY DEF SectionFields, ToSet, SeededFields, SameKey, OtherKey, BooleanKey
<1>8. ToSet(SectionFields["emotionalReadiness"]) \subseteq SeededFields
  BY DEF SectionFields, ToSet, SeededFields, SameKey, OtherKey, BooleanKey
<1>9. ToSet(SectionFields["protectedInterests"]) \subseteq SeededFields
  BY DEF SectionFields, ToSet, SeededFields, SameKey, OtherKey, BooleanKey
<1>10. ToSet(SectionFields["successorPreferences"]) \subseteq SeededFields
  BY DEF SectionFields, ToSet, SeededFields, SameKey, OtherKey, BooleanKey
<1>11. "nonNegotiables" \in SeededFields
  BY DEF SeededFields, OtherKey
<1> QED
  BY <1>1, <1>2, <1>3, <1>4, <1>5, <1>6,
     <1>7, <1>8, <1>9, <1>10, <1>11 DEF FieldNames, SectionNames

LEMMA EmptySeed == ASSUME NEW n \in FieldNames PROVE SeedValue(n, NoProfile) \in Marks
<1>1. \A key : Given(NoProfile, key) = {}
  BY DEF Given, NoProfile
<1>2. /\ {"True"} \in Marks /\ {"False"} \in Marks /\ {"owner"} \in Marks
      /\ {"founder-led business"} \in Marks /\ {} \in Marks
  BY MarksMade DEF OwnMarks
<1>3. "isFounder" \notin DOMAIN NoProfile
  BY DEF NoProfile
<1>4. BoolFromText({}) = {} /\ ConcentrationFromText({}) = {} /\ RiskFromText({}) = {}
  BY DEF BoolFromText, ConcentrationFromText, RiskFromText
<1>5. n \in SeededFields
  BY EveryFieldSeeded
<1> QED
  BY <1>1, <1>2, <1>3, <1>4, <1>5 DEF SeedValue, Either, Boolean, SeededFields

LEMMA EmptyTyped == EmptyState \in [FieldNames -> Normal]
<1>1. ASSUME NEW n \in FieldNames PROVE Seed(n, NoProfile) \in Normal
  <2>1. SeedValue(n, NoProfile) \in Marks /\ SeedStatus(n, NoProfile) \in FieldStatuses
    BY EmptySeed DEF SeedStatus, FieldStatuses
  <2> QED
    BY <2>1 DEF Seed, Field, Normal, Answer, FieldStatuses, Deferrable
<1>2. \A n : n \notin DOMAIN NoProfile
  BY DEF NoProfile
<1> QED
  BY <1>1, <1>2 DEF EmptyState, MigrateProfile

LEMMA PatchTyped ==
    ASSUME NEW f \in [FieldNames -> Normal], NEW p, Partial(p, Patch)
    PROVE  MergeIntakePatch(f, p) \in [FieldNames -> Normal]
<1>1. Settled(f)
  BY NormalStable DEF Settled
<1>2. \A a \in Patch : NormalizeField(a) \in Normal
  BY MarksMade DEF NormalizeField, Patch, Normal, Answer, FieldStatuses, Deferrable
<1>3. \A n \in FieldNames : MergeIntakePatch(f, p)[n] \in Normal
  BY <1>1, <1>2, MergePatches DEF Partial
<1>4. MergeIntakePatch(f, p)
        = [n \in FieldNames |-> MergeIntakePatch(f, p)[n]]
  BY DEF MergeIntakePatch
<1> QED
  BY <1>3, <1>4

LEMMA NoDraftsTyped == \A R : Partial(NoDrafts, R)
  BY NoDraftsEmpty DEF Partial

LEMMA WithTyped ==
    ASSUME NEW R, NEW f, Partial(f, R), NEW q \in FieldNames, NEW v \in R
    PROVE  Partial(With(f, q, v), R)
  BY DEF Partial, With

LEMMA OnlyTyped ==
    ASSUME NEW R, NEW f, Partial(f, R), NEW qs PROVE Partial(Only(f, qs), R)
  BY DEF Partial, Only

LEMMA AnswersTyped == \A a \in Answers : a.question \in FieldNames /\ Draft(a) \in Patch
  BY PageAssumption DEF Draft, Patch

LEMMA GoodValues ==
    ASSUME NEW r \in Clicks
    PROVE  /\ r.field \in FieldNames
           /\ [value |-> r.goodValue, status |-> "answered"] \in Patch
           /\ Partial([n \in {r.field} |-> [value |-> r.goodValue, status |-> "answered"]], Patch)
<1>1. r.goodValue \in {{"True"}, {"low"}, {"solid"}, {"aligned"}, {"4"}}
  <2>1. r \in Rules /\ r.goodValue # {}
    BY PageAssumption DEF QuickSteps
  <2> QED
    BY <2>1 DEF Rules, Step
<1>2. r.goodValue \in Marks
  BY <1>1, MarksMade DEF OwnMarks
<1> QED
  BY <1>2, ClicksAsk DEF Patch, FieldStatuses, Partial

CallTyped(c) ==
    /\ c.kind \in {"auto", "save", "orphan"} /\ c.stage \in {"sent", "served", "failed"}
    /\ Partial(c.patch, Patch) /\ (c.stage = "served" => c.reply \in [FieldNames -> Normal])

ServerTyped == exists \in BOOLEAN /\ fields \in [FieldNames -> Normal] /\ snapshots \in Seq(0..100)
PageTyped ==
    /\ step \in {"trust", "intake", "report"} /\ at \in 1..9
    /\ busy \in {"no", "begin", "begin again", "save", "reflect", "finish"}
    /\ gate \in BOOLEAN /\ reflection \in BOOLEAN /\ saveState \in {"idle", "saving", "saved"}
    /\ staged \in Answers \cup {NoAnswer}
    /\ seen \in [FieldNames -> Normal] /\ offered \subseteq Rules
    /\ Partial(drafts, Patch)
HistoryTyped ==
    /\ Partial(word, Patch) /\ Partial(newest, Nat)
    /\ exposed \subseteq FieldNames /\ clicked \subseteq Clicks
CallsTyped == \A c \in calls : CallTyped(c)

LEMMA TypeParts == TypeOK <=> ServerTyped /\ PageTyped /\ HistoryTyped /\ CallsTyped
  BY SectionsNamed DEF TypeOK, ServerTyped, PageTyped, HistoryTyped, CallsTyped, CallTyped

LEMMA TypeInit == Init => TypeOK
<1> SUFFICES ASSUME Init PROVE TypeOK
  OBVIOUS
<1>1. ServerTyped
  <2>1. exists \in BOOLEAN /\ snapshots = <<>>
    BY DEF Init
  <2>2. fields \in [FieldNames -> Normal]
    BY PageAssumption, EmptyTyped DEF Init
  <2> QED
    BY <2>1, <2>2 DEF ServerTyped
<1>2. PageTyped
  <2>1. seen \in [FieldNames -> Normal]
    BY EmptyTyped DEF Init
  <2>2. Partial(drafts, Patch)
    BY NoDraftsTyped DEF Init
  <2>3. /\ step = "trust" /\ at = 1 /\ busy = "no" /\ gate = FALSE /\ reflection = FALSE
        /\ saveState = "idle" /\ staged = NoAnswer /\ offered = {}
    BY DEF Init
  <2>4. gate \in BOOLEAN /\ reflection \in BOOLEAN /\ staged \in Answers \cup {NoAnswer}
    BY <2>3, Zenon
  <2>5. /\ step \in {"trust", "intake", "report"} /\ at \in 1..9
        /\ busy \in {"no", "begin", "begin again", "save", "reflect", "finish"}
        /\ saveState \in {"idle", "saving", "saved"} /\ offered \subseteq Rules
    BY <2>3
  <2> QED
    BY <2>1, <2>2, <2>4, <2>5 DEF PageTyped
<1>3. HistoryTyped /\ CallsTyped
  BY NoDraftsTyped DEF Init, HistoryTyped, CallsTyped
<1> QED
  BY <1>1, <1>2, <1>3, TypeParts

-----------------------------------------------------------------------------
(* One step and the types *)

LEMMA SnapshotTyped ==
    ASSUME NEW S, NEW s \in Seq(S), NEW n \in S PROVE AppendSnapshot(s, n) \in Seq(S)
<1> DEFINE all == Append(s, n)
           from == IF Len(all) > MaxSnapshots THEN Len(all) - MaxSnapshots + 1 ELSE 1
<1>1. all \in Seq(S) /\ Len(all) \in Nat
  OBVIOUS
<1>2. from \in 1..Len(all) + 1
  BY <1>1 DEF MaxSnapshots
<1>3. AppendSnapshot(s, n) = SubSeq(all, from, Len(all))
  BY DEF AppendSnapshot
<1> HIDE DEF all, from
<1>4. \A i \in from .. Len(all) : all[i] \in S
  <2>1. \A i \in 1..Len(all) : all[i] \in S
    BY <1>1
  <2>2. \A m \in Nat : \A k \in 1..m + 1 : k..m \subseteq 1..m
    OBVIOUS
  <2>3. from .. Len(all) \subseteq 1..Len(all)
    BY <1>1, <1>2, <2>2, Zenon
  <2> QED
    BY <2>1, <2>3, Zenon
<1>5. from \in Int /\ Len(all) \in Int
  BY <1>1, <1>2
<1>6. SubSeq(all, from, Len(all)) \in Seq(S)
  BY <1>4, <1>5, SubSeqProperties, Zenon
<1> QED
  BY <1>3, <1>6

LEMMA ServerStep == ASSUME Frame, TypeOK, [Next]_vars PROVE ServerTyped'
<1>0. ServerTyped /\ CallsTyped
  BY TypeParts
<1>1. exists' \in BOOLEAN
  <2>1. \/ UNCHANGED exists \/ exists' = TRUE
    BY DEF Next, vars, server, page, history, Begin, Load, LoadFails, Gate, Reopen, Enter, Autosave,
           SaveAndContinue, PutIntake, CallFails, ContinueSaved, AutoSaved, SaveFailed, Reflect,
           AdvanceAfterReflection, Back, SeeReadiness, Finish, FinishFails, BackToIntake, Complete
  <2> QED
    BY <1>0, <2>1 DEF ServerTyped
<1>2. fields' \in [FieldNames -> Normal]
  <2>1. CASE UNCHANGED fields
    BY <1>0, <2>1 DEF ServerTyped
  <2>2. ASSUME NEW c \in calls, PutIntake(c) PROVE fields' \in [FieldNames -> Normal]
    BY <1>0, <2>2, PatchTyped DEF PutIntake, ServerTyped, CallsTyped, CallTyped
  <2>3. ASSUME NEW r \in Clicks, Complete(r) PROVE fields' \in [FieldNames -> Normal]
    BY <1>0, <2>3, GoodValues, PatchTyped DEF Complete, CompleteAction, ServerTyped
  <2> QED
    BY <2>1, <2>2, <2>3, WhoPatches
<1>3. snapshots' \in Seq(0..100)
  <2>1. CASE UNCHANGED snapshots
    BY <1>0, <2>1 DEF ServerTyped
  <2>2. CASE Finish
    <3>1. Overall(fields) \in 0..100
      <4>1. "documentedAreas" \in FieldNames
        <5>1. SectionFields["processDocumentation"] =
                <<"sopsExist", "documentedAreas", "tribalKnowledgeRisk">>
          BY DEF SectionFields
        <5>2. "processDocumentation" \in DOMAIN SectionFields
          BY DEF SectionFields
        <5> QED
          BY <5>1, <5>2 DEF FieldNames, ToSet
      <4> QED
        BY <1>0, <4>1, OverallBounds DEF ServerTyped, Normal, Answer
    <3>2. snapshots' = AppendSnapshot(snapshots, Overall(fields))
      BY <2>2 DEF Finish
    <3> QED
      BY <1>0, <3>1, <3>2, SnapshotTyped DEF ServerTyped
  <2>3. UNCHANGED snapshots \/ Finish
    BY DEF Next, vars, server, page, history, Begin, Load, LoadFails, Gate, Reopen, Enter, Autosave,
           SaveAndContinue, PutIntake, CallFails, ContinueSaved, AutoSaved, SaveFailed, Reflect,
           AdvanceAfterReflection, Back, SeeReadiness, FinishFails, BackToIntake, Complete
  <2> QED
    BY <2>1, <2>2, <2>3
<1> QED
  BY <1>1, <1>2, <1>3 DEF ServerTyped

LEMMA HistoryStep == ASSUME Frame, TypeOK, [Next]_vars PROVE HistoryTyped'
<1>0. HistoryTyped /\ CallsTyped /\ PageTyped
  BY TypeParts
<1>1. Partial(word', Patch)
  <2>1. CASE Load
    BY <1>0, <2>1, AnswersTyped, WithTyped DEF Load, HistoryTyped, PageTyped
  <2>2. ASSUME NEW a \in Answers, Enter(a) PROVE Partial(word', Patch)
    BY <1>0, <2>2, AnswersTyped, WithTyped DEF Enter, HistoryTyped
  <2>3. ASSUME NEW r \in Clicks, Complete(r) PROVE Partial(word', Patch)
    BY <1>0, <2>3, GoodValues, WithTyped DEF Complete, HistoryTyped
  <2>4. CASE UNCHANGED word
    BY <1>0, <2>4 DEF HistoryTyped
  <2> QED
    BY <2>1, <2>2, <2>3, <2>4
    DEF Next, vars, history, Begin, LoadFails, Gate, Reopen, Autosave, SaveAndContinue, PutIntake,
        CallFails, ContinueSaved, AutoSaved, SaveFailed, Reflect, AdvanceAfterReflection, Back,
        SeeReadiness, Finish, FinishFails, BackToIntake
<1>2. Partial(newest', Nat)
  <2>1. ASSUME NEW c \in calls, PutIntake(c) PROVE Partial(newest', Nat)
    <3>1. DOMAIN c.patch \subseteq FieldNames /\ c.id \in Nat
      BY <1>0 DEF CallsTyped, CallTyped, Partial, Frame, Shape, IsCall
    <3> QED
      BY <1>0, <2>1, <3>1 DEF PutIntake, HistoryTyped, Partial
  <2>2. CASE UNCHANGED newest
    BY <1>0, <2>2 DEF HistoryTyped
  <2> QED
    BY <2>1, <2>2
    DEF Next, vars, history, Begin, Load, LoadFails, Gate, Reopen, Enter, Autosave, SaveAndContinue,
        CallFails, ContinueSaved, AutoSaved, SaveFailed, Reflect, AdvanceAfterReflection, Back,
        SeeReadiness, Finish, FinishFails, BackToIntake, Complete
<1>3. exposed' \subseteq FieldNames
  <2>1. /\ DOMAIN drafts \subseteq FieldNames /\ DOMAIN word \subseteq FieldNames
        /\ exposed \subseteq FieldNames /\ DOMAIN newest \subseteq FieldNames
    BY <1>0 DEF HistoryTyped, PageTyped, Partial
  <2>2. CASE Reopen
    BY <2>1, <2>2 DEF Reopen
  <2>3. ASSUME NEW a \in Answers, Enter(a) PROVE exposed' \subseteq FieldNames
    BY <2>1, <2>3 DEF Enter
  <2>4. ASSUME NEW c \in calls, PutIntake(c) \/ ContinueSaved(c)
        PROVE  exposed' \subseteq FieldNames
    BY <2>1, <2>4 DEF PutIntake, ContinueSaved
  <2>5. ASSUME NEW r \in Clicks, Complete(r) PROVE exposed' \subseteq FieldNames
    BY <2>1, <2>5, GoodValues DEF Complete
  <2>6. CASE UNCHANGED exposed
    BY <2>1, <2>6
  <2> QED
    BY <2>2, <2>3, <2>4, <2>5, <2>6
    DEF Next, vars, history, Begin, Load, LoadFails, Gate, Autosave, SaveAndContinue, CallFails,
        AutoSaved, SaveFailed, Reflect, AdvanceAfterReflection, Back, SeeReadiness, Finish,
        FinishFails, BackToIntake
<1>4. clicked' \subseteq Clicks
  <2>1. clicked \subseteq Clicks
    BY <1>0 DEF HistoryTyped
  <2>2. ASSUME NEW a \in Answers, Enter(a) PROVE clicked' \subseteq Clicks
    BY <2>1, <2>2 DEF Enter
  <2>3. ASSUME NEW r \in Clicks, Complete(r) PROVE clicked' \subseteq Clicks
    BY <2>1, <2>3 DEF Complete
  <2>4. CASE UNCHANGED clicked
    BY <2>1, <2>4
  <2> QED
    BY <2>2, <2>3, <2>4
    DEF Next, vars, history, Begin, Load, LoadFails, Gate, Reopen, Autosave, SaveAndContinue,
        PutIntake, CallFails, ContinueSaved, AutoSaved, SaveFailed, Reflect,
        AdvanceAfterReflection, Back, SeeReadiness, Finish, FinishFails, BackToIntake
<1> QED
  BY <1>1, <1>2, <1>3, <1>4 DEF HistoryTyped

LEMMA CallsStep == ASSUME Frame, TypeOK, [Next]_vars PROVE CallsTyped'
<1>0. CallsTyped /\ PageTyped
  BY TypeParts
<1>1. ASSUME NEW kind \in {"auto", "save"}, NEW qs, Send(kind, Only(drafts, qs)) PROVE CallsTyped'
  <2>1. Partial(Only(drafts, qs), Patch)
    BY <1>0, OnlyTyped DEF PageTyped
  <2> QED
    BY <1>0, <1>1, <2>1 DEF Send, CallsTyped, CallTyped
<1>2. CASE Reopen
  <2>1. ASSUME NEW c \in calls, c.stage = "sent"
        PROVE  CallTyped([c EXCEPT !.kind = "orphan", !.reply = NoDrafts])
    BY <1>0, <2>1 DEF CallsTyped, CallTyped, Frame, Shape, IsCall
  <2> QED
    BY <1>2, <2>1 DEF Reopen, CallsTyped
<1>3. CASE Autosave
  BY <1>0, <1>1, <1>3 DEF Autosave, CallsTyped
<1>4. CASE SaveAndContinue
  BY <1>1, <1>4 DEF SaveAndContinue
<1>5. ASSUME NEW c \in calls, PutIntake(c) PROVE CallsTyped'
  <2>1. fields' \in [FieldNames -> Normal]
    BY ServerStep DEF ServerTyped
  <2>2. CallTyped([c EXCEPT !.stage = "served", !.reply = fields'])
    BY <1>0, <2>1 DEF CallsTyped, CallTyped, Frame, Shape, IsCall
  <2> QED
    BY <1>0, <1>5, <2>2 DEF PutIntake, CallsTyped
<1>6. ASSUME NEW c \in calls, CallFails(c) PROVE CallsTyped'
  <2>1. CallTyped([c EXCEPT !.stage = "failed", !.reply = NoDrafts])
    BY <1>0 DEF CallsTyped, CallTyped, Frame, Shape, IsCall
  <2> QED
    BY <1>0, <1>6, <2>1 DEF CallFails, CallsTyped
<1>7. ASSUME NEW c \in calls, ContinueSaved(c) \/ AutoSaved(c) \/ SaveFailed(c) PROVE CallsTyped'
  BY <1>0, <1>7 DEF ContinueSaved, AutoSaved, SaveFailed, CallsTyped
<1>8. CASE UNCHANGED calls
  BY <1>0, <1>8 DEF CallsTyped
<1> QED
  BY <1>2, <1>3, <1>4, <1>5, <1>6, <1>7, <1>8
  DEF Next, vars, Begin, Load, LoadFails, Gate, Enter, Reflect, AdvanceAfterReflection, Back,
      SeeReadiness, Finish, FinishFails, BackToIntake, Complete

LEMMA PageStep == ASSUME Frame, TypeOK, [Next]_vars PROVE PageTyped'
<1>0. PageTyped /\ CallsTyped /\ ServerTyped
  BY TypeParts
<1> USE DEF page, PageTyped, Debounce
<1>1. CASE Begin
  BY <1>0, <1>1 DEF Begin
<1>2. CASE Load
  <2>1. Partial(drafts', Patch)
    BY <1>0, <1>2, AnswersTyped, NoDraftsTyped, WithTyped DEF Load
  <2>2. at' \in 1..9 /\ seen' \in [FieldNames -> Normal]
    BY <1>0, <1>2, ResumeFirst DEF Load, ServerTyped
  <2> QED
    BY <1>0, <1>2, <2>1, <2>2 DEF Load
<1>3. CASE LoadFails
  <2>1. gate' \in BOOLEAN
    BY <1>3, Zenon DEF LoadFails
  <2> QED
    BY <1>0, <1>3, <2>1 DEF LoadFails
<1>4. CASE Gate
  BY <1>0, <1>4 DEF Gate
<1>5. CASE Reopen
  <2>1. gate' \in BOOLEAN /\ reflection' \in BOOLEAN
    BY <1>5, Zenon DEF Reopen
  <2>2. seen' \in [FieldNames -> Normal] /\ Partial(drafts', Patch)
    BY <1>5, EmptyTyped, NoDraftsTyped DEF Reopen
  <2>3. /\ step' = "trust" /\ busy' = "begin" /\ staged' = NoAnswer /\ at' = 1
        /\ saveState' = "idle" /\ offered' = {}
    BY <1>5 DEF Reopen
  <2> QED
    BY <2>1, <2>2, <2>3
<1>6. ASSUME NEW a \in Answers, Enter(a) PROVE PageTyped'
  <2>1. Partial(drafts', Patch)
    BY <1>0, <1>6, AnswersTyped, WithTyped DEF Enter
  <2> QED
    BY <1>0, <1>6, <2>1 DEF Enter
<1>7. CASE Autosave
  BY <1>0, <1>7 DEF Autosave
<1>8. CASE SaveAndContinue
  BY <1>0, <1>8 DEF SaveAndContinue
<1>9. ASSUME NEW c \in calls, PutIntake(c) \/ CallFails(c) PROVE PageTyped'
  BY <1>0, <1>9 DEF PutIntake, CallFails
<1>10. ASSUME NEW c \in calls, ContinueSaved(c) PROVE PageTyped'
  BY <1>0, <1>10, NoDraftsTyped DEF ContinueSaved, CallsTyped, CallTyped
<1>11. ASSUME NEW c \in calls, AutoSaved(c) \/ SaveFailed(c) PROVE PageTyped'
  BY <1>0, <1>11 DEF AutoSaved, SaveFailed, CallsTyped, CallTyped
<1>12. CASE Reflect
  BY <1>0, <1>12 DEF Reflect
<1>13. CASE AdvanceAfterReflection
  <2>1. reflection' \in BOOLEAN
    BY <1>13, Zenon DEF AdvanceAfterReflection
  <2>2. at' \in 1..9 /\ busy' \in {busy, "finish"}
    BY <1>0, <1>13, SectionsNamed DEF AdvanceAfterReflection
  <2>3. UNCHANGED <<step, gate, staged, seen, drafts, saveState, offered>>
    BY <1>13 DEF AdvanceAfterReflection
  <2> QED
    BY <1>0, <2>1, <2>2, <2>3
<1>14. CASE Back
  BY <1>0, <1>14 DEF Back
<1>15. CASE SeeReadiness
  BY <1>0, <1>15 DEF SeeReadiness
<1>16. CASE Finish
  BY <1>0, <1>16 DEF Finish, OpenSteps
<1>17. CASE FinishFails
  BY <1>0, <1>17 DEF FinishFails
<1>18. CASE BackToIntake
  BY <1>0, <1>18 DEF BackToIntake
<1>19. ASSUME NEW r \in Clicks, Complete(r) PROVE PageTyped'
  BY <1>0, <1>19 DEF Complete, OpenSteps
<1>20. CASE UNCHANGED vars
  BY <1>0, <1>20 DEF vars
<1> QED
  BY <1>1, <1>2, <1>3, <1>4, <1>5, <1>6, <1>7, <1>8, <1>9, <1>10, <1>11, <1>12, <1>13, <1>14,
     <1>15, <1>16, <1>17, <1>18, <1>19, <1>20 DEF Next

\* Every variable of the intake keeps its type, the stored record its normal
\* form and the scores their range, for any answers, saves and failures
\* (page.jsx 22-46, intake_state.py 118-138 and 485-492, scoring.py 316-361).
THEOREM IntakeTypeCorrect == Spec => []TypeOK
<1>1. Init => Frame /\ TypeOK
  BY FrameInit, TypeInit
<1>2. Frame /\ TypeOK /\ [Next]_vars => Frame' /\ TypeOK'
  <2> SUFFICES ASSUME Frame, TypeOK, [Next]_vars PROVE Frame' /\ TypeOK'
    OBVIOUS
  <2>1. Frame' /\ ServerTyped' /\ PageTyped' /\ HistoryTyped' /\ CallsTyped'
    BY FrameStep, ServerStep, PageStep, HistoryStep, CallsStep
  <2>2. TypeOK'
    BY <2>1, SectionsNamed
    DEF TypeOK, ServerTyped, PageTyped, HistoryTyped, CallsTyped, CallTyped
  <2> QED
    BY <2>1, <2>2
<1> QED
  BY <1>1, <1>2, PTL DEF Spec

-----------------------------------------------------------------------------
(* What a click in the action plan does to the scores *)

LEMMA TenthsGrow == \A s, t \in 0..100 : s <= t => Tenths(s) <= Tenths(t)
  BY DEF Tenths

LEMMA ClampGrows == \A m, n \in Int : m <= n => Clamp(m) <= Clamp(n)
  BY DEF Clamp

\* "Yes" is the best answer where it counts for something and "no" does not.
LEMMA YesIsBest ==
    ASSUME NEW v, NEW yes \in Nat, NEW no \in Int, no <= 0
    PROVE  ByYesNo(v, yes, no) <= yes /\ ByYesNo({"True"}, yes, no) = yes
  BY DEF ByYesNo, IsYes, IsNo

\* An answer is the same in g as in f, or the best one.
Better(f, g, n, best) == g[n].value = f[n].value \/ g[n].value = best
Same(f, g, n) == g[n].value = f[n].value

\* A best choice is worth as much as any other, whatever the points.
LEMMA ChoiceGrows ==
    ASSUME NEW f, NEW g, NEW n, NEW best, NEW points, NEW top \in Int,
           \A v : ByChoice(v, points) \in Int /\ ByChoice(v, points) <= top,
           ByChoice(best, points) = top, Better(f, g, n, best)
    PROVE  ByChoice(f[n].value, points) <= ByChoice(g[n].value, points)
<1>1. /\ ByChoice(f[n].value, points) \in Int
      /\ ByChoice(f[n].value, points) <= top
  OBVIOUS
<1>2. CASE g[n].value = f[n].value
  BY <1>1, <1>2
<1>3. CASE g[n].value = best
  BY <1>1, <1>3
<1> QED
  BY <1>2, <1>3 DEF Better

LEMMA YesGrows ==
    ASSUME NEW f, NEW g, NEW n, NEW yes \in Nat, NEW no \in Int, no <= 0,
           Better(f, g, n, {"True"})
    PROVE  ByYesNo(f[n].value, yes, no) <= ByYesNo(g[n].value, yes, no)
<1>1. /\ ByYesNo(f[n].value, yes, no) \in Int
      /\ ByYesNo(f[n].value, yes, no) <= yes /\ ByYesNo({"True"}, yes, no) = yes
  BY Points, YesIsBest
<1>2. CASE g[n].value = f[n].value
  BY <1>1, <1>2
<1>3. CASE g[n].value = {"True"}
  BY <1>1, <1>3
<1> QED
  BY <1>2, <1>3 DEF Better

LEMMA BestChoices ==
    ASSUME NEW f, NEW g, NEW n
    PROVE  /\ Better(f, g, n, {"low"}) =>
                 ByChoice(f[n].value, [low |-> 30, high |-> -30])
                    <= ByChoice(g[n].value, [low |-> 30, high |-> -30])
           /\ Better(f, g, n, {"solid"}) =>
                 ByChoice(f[n].value, [solid |-> 20, thin |-> -10, none |-> -30])
                    <= ByChoice(g[n].value, [solid |-> 20, thin |-> -10, none |-> -30])
           /\ Better(f, g, n, {"low"}) =>
                 ByChoice(f[n].value, [low |-> 20, high |-> -20])
                    <= ByChoice(g[n].value, [low |-> 20, high |-> -20])
           /\ Better(f, g, n, {"aligned"}) =>
                 ByChoice(f[n].value, [aligned |-> 30, partial |-> 5, misaligned |-> -30])
                    <= ByChoice(g[n].value, [aligned |-> 30, partial |-> 5, misaligned |-> -30])
<1>1. ASSUME Better(f, g, n, {"low"})
      PROVE  ByChoice(f[n].value, [low |-> 30, high |-> -30])
                <= ByChoice(g[n].value, [low |-> 30, high |-> -30])
  <2> DEFINE points == [low |-> 30, high |-> -30]
  <2>1. \A v : ByChoice(v, points) \in Int /\ ByChoice(v, points) <= 30
    BY DEF ByChoice
  <2>2. ByChoice({"low"}, points) = 30 /\ 30 \in Int
    BY DEF ByChoice
  <2> HIDE DEF points
  <2>3. ByChoice(f[n].value, points) <= ByChoice(g[n].value, points)
    BY <1>1, <2>1, <2>2, ChoiceGrows
  <2> QED
    BY <2>3 DEF points
<1>2. ASSUME Better(f, g, n, {"solid"})
      PROVE  ByChoice(f[n].value, [solid |-> 20, thin |-> -10, none |-> -30])
                <= ByChoice(g[n].value, [solid |-> 20, thin |-> -10, none |-> -30])
  <2> DEFINE points == [solid |-> 20, thin |-> -10, none |-> -30]
  <2>1. \A v : ByChoice(v, points) \in Int /\ ByChoice(v, points) <= 20
    BY DEF ByChoice
  <2>2. ByChoice({"solid"}, points) = 20 /\ 20 \in Int
    BY DEF ByChoice
  <2> HIDE DEF points
  <2>3. ByChoice(f[n].value, points) <= ByChoice(g[n].value, points)
    BY <1>2, <2>1, <2>2, ChoiceGrows
  <2> QED
    BY <2>3 DEF points
<1>3. ASSUME Better(f, g, n, {"low"})
      PROVE  ByChoice(f[n].value, [low |-> 20, high |-> -20])
                <= ByChoice(g[n].value, [low |-> 20, high |-> -20])
  <2> DEFINE points == [low |-> 20, high |-> -20]
  <2>1. \A v : ByChoice(v, points) \in Int /\ ByChoice(v, points) <= 20
    BY DEF ByChoice
  <2>2. ByChoice({"low"}, points) = 20 /\ 20 \in Int
    BY DEF ByChoice
  <2> HIDE DEF points
  <2>3. ByChoice(f[n].value, points) <= ByChoice(g[n].value, points)
    BY <1>3, <2>1, <2>2, ChoiceGrows
  <2> QED
    BY <2>3 DEF points
<1>4. ASSUME Better(f, g, n, {"aligned"})
      PROVE  ByChoice(f[n].value, [aligned |-> 30, partial |-> 5, misaligned |-> -30])
                <= ByChoice(g[n].value, [aligned |-> 30, partial |-> 5, misaligned |-> -30])
  <2> DEFINE points == [aligned |-> 30, partial |-> 5, misaligned |-> -30]
  <2>1. \A v : ByChoice(v, points) \in Int /\ ByChoice(v, points) <= 30
    BY DEF ByChoice
  <2>2. ByChoice({"aligned"}, points) = 30 /\ 30 \in Int
    BY DEF ByChoice
  <2> HIDE DEF points
  <2>3. ByChoice(f[n].value, points) <= ByChoice(g[n].value, points)
    BY <1>4, <2>1, <2>2, ChoiceGrows
  <2> QED
    BY <2>3 DEF points
<1> QED
  BY <1>1, <1>2, <1>3, <1>4

LEMMA NumberFour == IsNumber({"4"}) /\ Number({"4"}) = 4
<1>1. Scale[4] = "4" /\ \A i \in 1..5 : Scale[i] = "4" => i = 4
  BY DEF Scale
<1> QED
  BY <1>1 DEF IsNumber, Number

LEMMA FinancialGrows ==
    ASSUME NEW f, NEW g,
           \A n \in {"booksUpToDate", "financialsDocumented", "profitabilityClear",
                     "ownerCompNormalized"} : Better(f, g, n, {"True"}),
           Same(f, g, "revenueTrend")
    PROVE  Financial(f) <= Financial(g)
<1> DEFINE a(h) == ByYesNo(h["booksUpToDate"].value, 20, -10)
           b(h) == ByYesNo(h["financialsDocumented"].value, 20, 0)
           c(h) == ByYesNo(h["profitabilityClear"].value, 10, 0)
           d(h) == ByYesNo(h["ownerCompNormalized"].value, 10, 0)
           e(h) == ByChoice(h["revenueTrend"].value, [growing |-> 10, declining |-> -10])
<1>1. /\ a(f) \in Int /\ b(f) \in Int /\ c(f) \in Int /\ d(f) \in Int
      /\ a(g) \in Int /\ b(g) \in Int /\ c(g) \in Int /\ d(g) \in Int
  BY Points
<1>2. e(f) \in Int /\ e(g) = e(f)
  BY Points DEF Same
<1>3. a(f) <= a(g) /\ b(f) <= b(g) /\ c(f) <= c(g) /\ d(f) <= d(g)
  BY YesGrows
<1>4. /\ Financial(f) = Clamp(40 + a(f) + b(f) + c(f) + d(f) + e(f))
      /\ Financial(g) = Clamp(40 + a(g) + b(g) + c(g) + d(g) + e(g))
  BY DEF Financial
<1> HIDE DEF a, b, c, d, e
<1> QED
  BY <1>1, <1>2, <1>3, <1>4, ClampGrows

LEMMA OperationalGrows ==
    ASSUME NEW f, NEW g,
           Better(f, g, "keyPersonRisk", {"low"}), Better(f, g, "managementDepth", {"solid"}),
           Better(f, g, "systemsDocumented", {"True"}), Same(f, g, "functionsDependentOnOwner")
    PROVE  Operational(f) <= Operational(g)
<1> DEFINE a(h) == ByChoice(h["keyPersonRisk"].value, [low |-> 30, high |-> -30])
           b(h) == ByChoice(h["managementDepth"].value, [solid |-> 20, thin |-> -10, none |-> -30])
           c(h) == ByYesNo(h["systemsDocumented"].value, 10, 0)
           d(h) == When(Cardinality(h["functionsDependentOnOwner"].value) >= 4, -20)
<1>1. /\ a(f) \in Int /\ b(f) \in Int /\ a(g) \in Int /\ b(g) \in Int
  BY Points
<1>2. c(f) \in Int /\ c(g) \in Int /\ d(f) \in Int /\ d(g) = d(f)
  BY Points DEF Same
<1>3. a(f) <= a(g)
  BY BestChoices, Zenon
<1>4. b(f) <= b(g)
  BY BestChoices, Zenon
<1>5. c(f) <= c(g)
  BY YesGrows
<1>6. /\ Operational(f) = Clamp(60 + a(f) + b(f) + c(f) + d(f))
      /\ Operational(g) = Clamp(60 + a(g) + b(g) + c(g) + d(g))
  BY DEF Operational
<1> HIDE DEF a, b, c, d
<1> QED
  BY <1>1, <1>2, <1>3, <1>4, <1>5, <1>6, ClampGrows

LEMMA ProcessGrows ==
    ASSUME NEW f, NEW g, f["documentedAreas"].value \in Marks,
           Better(f, g, "sopsExist", {"True"}), Better(f, g, "tribalKnowledgeRisk", {"low"}),
           Same(f, g, "documentedAreas")
    PROVE  Process(f) <= Process(g)
<1> DEFINE a(h) == ByYesNo(h["sopsExist"].value, 20, -20)
           b(h) == ByChoice(h["tribalKnowledgeRisk"].value, [low |-> 20, high |-> -20])
           areas(h) == Cardinality(h["documentedAreas"].value)
           c(h) == IF areas(h) > 5 THEN 20 ELSE 4 * areas(h)
<1>1. /\ a(f) \in Int /\ b(f) \in Int /\ a(g) \in Int /\ b(g) \in Int
  BY Points
<1>2. areas(f) \in Nat /\ areas(g) = areas(f)
  BY MarksCount DEF Same
<1>3. c(f) \in Int /\ c(g) = c(f)
  BY <1>2
<1>4. a(f) <= a(g)
  BY YesGrows
<1>5. b(f) <= b(g)
  BY BestChoices, Zenon
<1>6. /\ Process(f) = Clamp(50 + a(f) + b(f) + c(f))
      /\ Process(g) = Clamp(50 + a(g) + b(g) + c(g))
  BY DEF Process
<1> HIDE DEF a, b, c
<1> QED
  BY <1>1, <1>3, <1>4, <1>5, <1>6, ClampGrows

LEMMA FamilyGrows ==
    ASSUME NEW f, NEW g,
           Better(f, g, "alignmentLevel", {"aligned"}),
           Better(f, g, "expectationsKnown", {"True"}), Same(f, g, "conflictRisk")
    PROVE  Family(f) <= Family(g)
<1> DEFINE a(h) == ByChoice(h["alignmentLevel"].value,
                            [aligned |-> 30, partial |-> 5, misaligned |-> -30])
           b(h) == ByYesNo(h["expectationsKnown"].value, 10, 0)
           c(h) == ByChoice(h["conflictRisk"].value, [low |-> 10, high |-> -20])
<1>1. a(f) \in Int /\ a(g) \in Int
  BY Points
<1>2. b(f) \in Int /\ b(g) \in Int
  BY Points
<1>3. c(f) \in Int /\ c(g) = c(f)
  BY Points DEF Same
<1>4. a(f) <= a(g)
  BY BestChoices, Zenon
<1>5. b(f) <= b(g)
  BY YesGrows
<1>6. /\ Family(f) = Clamp(60 + a(f) + b(f) + c(f))
      /\ Family(g) = Clamp(60 + a(g) + b(g) + c(g))
  BY DEF Family
<1> HIDE DEF a, b, c
<1> QED
  BY <1>1, <1>2, <1>3, <1>4, <1>5, <1>6, ClampGrows

\* "4" is no better than a "5" that was there.
LEMMA EmotionalGrows ==
    ASSUME NEW f, NEW g,
           \/ Same(f, g, "readinessToLetGo")
           \/ /\ g["readinessToLetGo"].value = {"4"}
              /\ ~(/\ IsNumber(f["readinessToLetGo"].value)
                   /\ Number(f["readinessToLetGo"].value) >= 4),
           Same(f, g, "identityTiedToBusiness"), Same(f, g, "primaryMotivation"),
           Same(f, g, "topConcerns")
    PROVE  Emotional(f) <= Emotional(g)
<1> DEFINE letGo(h) == h["readinessToLetGo"].value
           identity(h) == h["identityTiedToBusiness"].value
           a(h) == IF IsNumber(letGo(h)) THEN 12 * (Number(letGo(h)) - 3) ELSE 0
           b(h) == When(IsNumber(identity(h)) /\ Number(identity(h)) >= 4, -10)
           c(h) == When(h["primaryMotivation"].value # {}, 10)
           d(h) == When(h["topConcerns"].value # {}, 5)
<1>1. \A v : IsNumber(v) => Number(v) \in 1..5
  BY DEF IsNumber, Number
<1>2. a(f) \in Int /\ a(g) \in Int /\ a(f) <= a(g)
  <2>1. a(f) \in Int /\ a(g) \in Int
    BY <1>1
  <2>2. CASE letGo(g) = letGo(f)
    BY <2>1, <2>2
  <2>3. CASE letGo(g) = {"4"} /\ ~(IsNumber(letGo(f)) /\ Number(letGo(f)) >= 4)
    <3>1. a(g) = 12
      BY <2>3, NumberFour
    <3>2. a(f) <= 0
      BY <1>1, <2>3
    <3> QED
      BY <2>1, <3>1, <3>2
  <2> QED
    BY <2>2, <2>3 DEF Same
<1>3. /\ b(f) \in Int /\ c(f) \in Int /\ d(f) \in Int
      /\ b(g) = b(f) /\ c(g) = c(f) /\ d(g) = d(f)
  BY Points DEF Same
<1>4. /\ Emotional(f) = Clamp(50 + a(f) + b(f) + c(f) + d(f))
      /\ Emotional(g) = Clamp(50 + a(g) + b(g) + c(g) + d(g))
  BY DEF Emotional
<1> HIDE DEF a, b, c, d
<1> QED
  BY <1>2, <1>3, <1>4, ClampGrows

\* The one-click steps, by their drivers.
LEMMA ClickedSteps ==
    ASSUME NEW r \in Clicks
    PROVE  \/ /\ r.driver = "financial_clarity" /\ r.goodValue = {"True"}
              /\ r.field \in {"booksUpToDate", "financialsDocumented", "profitabilityClear",
                             "ownerCompNormalized"}
           \/ /\ r.driver = "operational_transferability"
              /\ \/ r.field = "keyPersonRisk" /\ r.goodValue = {"low"}
                 \/ r.field = "managementDepth" /\ r.goodValue = {"solid"}
                 \/ r.field = "systemsDocumented" /\ r.goodValue = {"True"}
           \/ /\ r.driver = "process_documentation"
              /\ \/ r.field = "sopsExist" /\ r.goodValue = {"True"}
                 \/ r.field = "tribalKnowledgeRisk" /\ r.goodValue = {"low"}
           \/ /\ r.driver = "family_alignment"
              /\ \/ r.field = "alignmentLevel" /\ r.goodValue = {"aligned"}
                 \/ r.field = "expectationsKnown" /\ r.goodValue = {"True"}
           \/ /\ r.driver = "owner_emotional_readiness"
              /\ r.field = "readinessToLetGo" /\ r.goodValue = {"4"}
<1>1. r \in Rules /\ r.goodValue # {}
  BY PageAssumption DEF QuickSteps
<1> QED
  BY <1>1 DEF Rules, Step

LEMMA ScoredFields ==
    {"revenueTrend", "functionsDependentOnOwner", "documentedAreas", "conflictRisk",
     "identityTiedToBusiness", "primaryMotivation", "topConcerns"} \subseteq FieldNames
<1>1. DOMAIN SectionFields = SectionNames
  BY SectionsListed
<1>2. "revenueTrend" \in ToSet(SectionFields["financialClarity"])
  BY DEF SectionFields, ToSet
<1>3. "functionsDependentOnOwner" \in ToSet(SectionFields["operationalTransferability"])
  BY DEF SectionFields, ToSet
<1>4. "documentedAreas" \in ToSet(SectionFields["processDocumentation"])
  BY DEF SectionFields, ToSet
<1>5. "conflictRisk" \in ToSet(SectionFields["familyAlignment"])
  BY DEF SectionFields, ToSet
<1>6. "identityTiedToBusiness" \in ToSet(SectionFields["owner"])
  BY DEF SectionFields, ToSet
<1>7. /\ "primaryMotivation" \in ToSet(SectionFields["emotionalReadiness"])
      /\ "topConcerns" \in ToSet(SectionFields["emotionalReadiness"])
  BY DEF SectionFields, ToSet
<1> QED
  BY <1>1, <1>2, <1>3, <1>4, <1>5, <1>6, <1>7 DEF FieldNames, SectionNames

LEMMA ClickChanges ==
    ASSUME NEW f, Settled(f), NEW r \in Clicks
    PROVE  \A n \in FieldNames :
              CompleteAction(f, r)[n].value = IF n = r.field THEN r.goodValue ELSE f[n].value
<1> DEFINE p == [n \in {r.field} |-> [value |-> r.goodValue, status |-> "answered"]]
<1>1. CompleteAction(f, r) = MergeIntakePatch(f, p)
  BY DEF CompleteAction
<1>2. r.goodValue # {}
  BY PageAssumption DEF QuickSteps
<1>3. NormalizeField([value |-> r.goodValue, status |-> "answered"]).value = r.goodValue
  BY <1>2 DEF NormalizeField
<1> QED
  BY <1>1, <1>3, MergePatches

LEMMA ClickDone ==
    ASSUME NEW f, Settled(f), NEW r \in Clicks
    PROVE  StepDone(r, CompleteAction(f, r))
<1> DEFINE g == CompleteAction(f, r)
<1>1. g[r.field].value = r.goodValue
  BY ClickChanges, ClicksAsk
<1> HIDE DEF g
<1>2. CASE r.field = "readinessToLetGo"
  <2>1. r.goodValue = {"4"}
    BY <1>2, ClickedSteps
  <2>2. IsNumber(g[r.field].value) /\ Number(g[r.field].value) >= 4
    BY <1>1, <2>1, NumberFour
  <2> QED
    BY <1>2, <2>2 DEF StepDone, g
<1>3. CASE r.field # "readinessToLetGo"
  <2>1. r.field # "primaryMotivation"
    BY ClickedSteps
  <2> QED
    BY <1>1, <1>3, <2>1 DEF StepDone, g
<1> QED
  BY <1>2, <1>3

LEMMA ClickHelps ==
    ASSUME NEW f \in [FieldNames -> Normal], NEW r \in Clicks, NEW d \in Drivers,
           ~(d = r.driver /\ StepDone(r, f))
    PROVE  DriverScore(d, f) <= DriverScore(d, CompleteAction(f, r))
<1> DEFINE g == CompleteAction(f, r)
<1>1. g \in [FieldNames -> Normal] /\ Settled(f)
  BY GoodValues, PatchTyped, NormalStable DEF CompleteAction, Settled
<1>2. \A n \in FieldNames : g[n].value = IF n = r.field THEN r.goodValue ELSE f[n].value
  BY <1>1, ClickChanges
<1>3. f["documentedAreas"].value \in Marks /\ g["documentedAreas"].value \in Marks
  BY <1>1, ScoredFields DEF Normal, Answer
<1> HIDE DEF g
<1>4. DriverOf(d, f) <= DriverOf(d, g)
  <2>1. CASE d = "financial_clarity"
    <3>1. Financial(f) <= Financial(g)
      BY <1>2, ClickedSteps, StepFields, ScoredFields, FinancialGrows DEF Better, Same
    <3> QED
      BY <2>1, <3>1 DEF DriverOf
  <2>2. CASE d = "operational_transferability"
    <3>1. Operational(f) <= Operational(g)
      BY <1>2, ClickedSteps, StepFields, ScoredFields, OperationalGrows DEF Better, Same
    <3> QED
      BY <2>2, <3>1 DEF DriverOf
  <2>3. CASE d = "process_documentation"
    <3>1. Process(f) <= Process(g)
      BY <1>2, <1>3, ClickedSteps, StepFields, ScoredFields, ProcessGrows DEF Better, Same
    <3> QED
      BY <2>3, <3>1 DEF DriverOf
  <2>4. CASE d = "family_alignment"
    <3>1. Family(f) <= Family(g)
      BY <1>2, ClickedSteps, StepFields, ScoredFields, FamilyGrows DEF Better, Same
    <3> QED
      BY <2>4, <3>1 DEF DriverOf
  <2>5. CASE d = "owner_emotional_readiness"
    <3>1. \/ Same(f, g, "readinessToLetGo")
          \/ /\ g["readinessToLetGo"].value = {"4"}
             /\ ~(/\ IsNumber(f["readinessToLetGo"].value)
                  /\ Number(f["readinessToLetGo"].value) >= 4)
      BY <1>2, <2>5, ClickedSteps, StepFields DEF Same, StepDone
    <3>2. Emotional(f) <= Emotional(g)
      BY <1>2, <3>1, ClickedSteps, ScoredFields, EmotionalGrows DEF Same
    <3> QED
      BY <2>5, <3>2 DEF DriverOf
  <2> QED
    BY <2>1, <2>2, <2>3, <2>4, <2>5 DEF Drivers
<1>5. DriverOf(d, f) \in 0..100 /\ DriverOf(d, g) \in 0..100
  BY <1>3, DriverOfBounds
<1> QED
  BY <1>4, <1>5, TenthsGrow DEF DriverScore, g

LEMMA HelpsStep == Frame /\ TypeOK /\ [Next]_vars =>
    [\A r \in Clicks : Complete(r) =>
          /\ StepDone(r, fields') /\ r \notin offered'
          /\ \A d \in Drivers :
                \/ DriverScore(d, fields') >= DriverScore(d, fields)
                \/ d = r.driver /\ StepDone(r, fields)]_vars
<1> SUFFICES ASSUME Frame, TypeOK, NEW r \in Clicks, Complete(r)
             PROVE  /\ StepDone(r, fields') /\ r \notin offered'
                    /\ \A d \in Drivers :
                          \/ DriverScore(d, fields') >= DriverScore(d, fields)
                          \/ d = r.driver /\ StepDone(r, fields)
  OBVIOUS
<1>1. /\ fields' = CompleteAction(fields, r) /\ offered' = OpenSteps(fields')
      /\ Settled(fields) /\ fields \in [FieldNames -> Normal]
  BY DEF Complete, Frame, Shape, TypeOK
<1>2. StepDone(r, fields')
  BY <1>1, ClickDone
<1>3. r \notin offered'
  BY <1>1, <1>2 DEF OpenSteps
<1>4. ASSUME NEW d \in Drivers, ~(d = r.driver /\ StepDone(r, fields))
      PROVE  DriverScore(d, fields') >= DriverScore(d, fields)
  <2>1. DriverScore(d, fields) <= DriverScore(d, fields')
    BY <1>1, <1>4, ClickHelps
  <2> QED
    BY <2>1
<1> QED
  BY <1>2, <1>3, <1>4

\* Whatever the record, a click marks its step done and lowers the score of no
\* driver, unless the plan was old and the answer already better than the one
\* the click gives (action_plan.py 38-106 and 157-168, scoring.py 67-250).
THEOREM ClicksHelp == Spec => CompletingHelps
<1> QED
  BY HelpsStep, OneContinueAtATime, IntakeTypeCorrect, PTL DEF Spec, CompletingHelps
=============================================================================
