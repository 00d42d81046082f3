----------------------------- MODULE IntakeState -----------------------------
(***************************************************************************)
(* The owner's intake record: one field per question, with a value and a   *)
(* status, and the pure functions that build, repair and patch it.         *)
(* A value is the set of its marks: a choice, a number or a text is the    *)
(* set of that one mark (or of the words of a text that something looks    *)
(* for), a list the set of its items, and {} is None, "" and [], which     *)
(* the code treats alike.  "True" and "False" are Python's booleans.       *)
(* Time stamps, notes, confidence, uploads, disclosure and the derived     *)
(* part of the record are carried along unread, and left out.              *)
(***************************************************************************)
EXTENDS Integers, Sequences, FiniteSets, SequencesExt

FieldStatuses == {"answered", "estimated", "unknown", "skipped", "pending_document"}

SectionFields ==
    [business |-> <<"category", "industry", "region", "yearsOperating", "employeeBand",
                    "revenueBand", "customerConcentration">>,
     owner |-> <<"isFounder", "role", "ageBand", "identityTiedToBusiness">>,
     financialClarity |-> <<"booksUpToDate", "financialsDocumented", "revenueTrend",
                            "profitabilityClear", "ownerCompNormalized">>,
     operationalTransferability |-> <<"functionsDependentOnOwner", "keyPersonRisk",
                                      "managementDepth", "systemsDocumented">>,
     processDocumentation |-> <<"sopsExist", "documentedAreas", "tribalKnowledgeRisk">>,
     familyAlignment |-> <<"familyInBusiness", "expectationsKnown", "alignmentLevel",
                           "conflictRisk">>,
     emotionalReadiness |-> <<"primaryMotivation", "urgencyDrivers", "readinessToLetGo",
                              "topConcerns">>,
     protectedInterests |-> <<"employeeConcerns", "customerContinuityConcerns">>,
     successorPreferences |-> <<"acceptablePaths", "unacceptablePaths", "idealBuyerTraits",
                                "dealbreakers">>]

SectionOrder ==
    <<"business", "owner", "operationalTransferability", "processDocumentation",
      "financialClarity", "successorPreferences", "protectedInterests", "familyAlignment",
      "emotionalReadiness">>

FieldNames ==
    (UNION {ToSet(SectionFields[s]) : s \in DOMAIN SectionFields}) \cup {"nonNegotiables"}

\* The marks the code writes by itself, and any other string.
OwnMarks == {"True", "False", "owner", "founder-led business", "low", "solid", "aligned", "4"}
Marks == {v \in SUBSET (OwnMarks \cup STRING) : IsFiniteSet(v)}
Answer == [value : Marks, status : FieldStatuses]

\* What may stand without a value: a gap, or what the owner chose to defer.
Deferrable == {"unknown", "skipped", "pending_document"}

\* An answer in normal form.
Normal == {a \in Answer : a.value = {} => a.status \in Deferrable}

-----------------------------------------------------------------------------
(* Fields *)

\* Mutant of Field: the status of an empty value is kept.
FieldAnyStatus(value, status) == [value |-> value, status |-> status]

Field(value, status) ==
    [value |-> value, status |-> IF value = {} THEN "unknown" ELSE status]

\* An input is a value and a status; a plain value that is no field at all
\* has the status "bare".
IsField(raw) == raw.status # "bare"

NormalizeField(raw) ==
    LET given == IF raw.status \in FieldStatuses THEN raw.status ELSE "answered"
    IN  IF raw.value = {} /\ given \notin Deferrable
        THEN [value |-> {}, status |-> "unknown"]
        ELSE [value |-> raw.value, status |-> given]

-----------------------------------------------------------------------------
(* Seeding a field from the flat profile of the classic page: a profile    *)
(* gives a value to some of its keys, the number of employees and the      *)
(* revenue by the band they fall in.                                       *)

Given(p, key) == IF key \in DOMAIN p THEN p[key] ELSE {}
Either(v, w) == IF v # {} THEN v ELSE w
Boolean(b) == IF b THEN {"True"} ELSE {"False"}

BoolFromText(v) ==
    IF v = {} THEN {}
    ELSE IF v \subseteq {"True", "False"} THEN v
    ELSE Boolean(v \cap {"no", "none", "not", "false"} = {})

ConcentrationFromText(v) ==
    IF v \cap {"whole", "few"} # {} THEN {"high_few_clients"}
    ELSE IF v \cap {"important", "moderate"} # {} THEN {"moderate"}
    ELSE IF v \cap {"diversified", "spread", "many"} # {} THEN {"diversified"}
    ELSE {}

RiskFromText(v) ==
    IF v = {} THEN {}
    ELSE IF v \cap {"critical", "high"} # {} THEN {"high"}
    ELSE IF v \cap {"some", "medium"} # {} THEN {"medium"}
    ELSE IF v \cap {"low", "none"} # {} THEN {"low"}
    ELSE {"medium"}

\* The fields the profile fills by a key of the same name, or of another one.
SameKey ==
    {"industry", "region", "yearsOperating", "identityTiedToBusiness", "revenueTrend",
     "managementDepth", "familyInBusiness", "conflictRisk", "readinessToLetGo",
     "acceptablePaths", "unacceptablePaths", "ageBand"}
OtherKey ==
    [functionsDependentOnOwner |-> "ownerDependency", documentedAreas |-> "sopsDocumented",
     primaryMotivation |-> "ownerGoal", urgencyDrivers |-> "timeline", topConcerns |-> "fears",
     idealBuyerTraits |-> "nextOwnerTraits", dealbreakers |-> "nonNegotiables",
     nonNegotiables |-> "nonNegotiables"]
BooleanKey ==
    [booksUpToDate |-> "financialStatementsCurrent",
     financialsDocumented |-> "financialStatementsCurrent",
     ownerCompNormalized |-> "ownerCompensationDependency",
     systemsDocumented |-> "sopsDocumented", sopsExist |-> "sopsDocumented"]

SeedValue(n, p) ==
    LET family == Given(p, "familyContext")
        profit == Given(p, "profitMargin")
        protect == Either(Given(p, "nonNegotiables"),
                          Given(p, IF n = "employeeConcerns" THEN "fears"
                                                             ELSE "customerConcentration"))
    IN  CASE n \in SameKey -> Given(p, n)
          [] n \in DOMAIN OtherKey -> Given(p, OtherKey[n])
          [] n \in DOMAIN BooleanKey -> BoolFromText(Given(p, BooleanKey[n]))
          [] n = "category" ->
               Either(Given(p, "category"),
                      IF Given(p, "familyInBusiness") \ {"False"} # {}
                      THEN {"family"} ELSE {"founder-led business"})
          [] n = "employeeBand" ->
               Either(Given(p, "employeeBand"), Given(p, "employees"))
          [] n = "revenueBand" ->
               Either(Given(p, "revenueBand"), Given(p, "revenueRange"))
          [] n = "customerConcentration" ->
               Either(Given(p, "customerConcentrationStatus"),
                      ConcentrationFromText(Given(p, "customerConcentration")))
          [] n = "isFounder" -> IF "isFounder" \in DOMAIN p THEN p.isFounder ELSE {"True"}
          [] n = "role" -> Either(Given(p, "ownerRole"), {"owner"})
          [] n = "profitabilityClear" -> Boolean(profit # {})
          [] n = "keyPersonRisk" ->
               Either(Given(p, "keyPersonRisk"), RiskFromText(Given(p, "keyEmployeeRisk")))
          [] n = "tribalKnowledgeRisk" ->
               IF "head" \in Given(p, "sopsDocumented") THEN {"high"} ELSE {}
          [] n = "expectationsKnown" -> IF family # {} THEN {"True"} ELSE {}
          [] n = "alignmentLevel" -> IF family # {} THEN {"partial"} ELSE {}
          [] n \in {"employeeConcerns", "customerContinuityConcerns"} -> protect

\* Only the profit margin is marked as what it is, a guess.
SeedStatus(n, p) ==
    IF n # "profitabilityClear" THEN "answered"
    ELSE IF Given(p, "profitMargin") # {} THEN "estimated" ELSE "unknown"

Seed(n, p) == Field(SeedValue(n, p), SeedStatus(n, p))

-----------------------------------------------------------------------------
(* The whole record *)

NoProfile == <<>>

\* What is there and is a field is kept; what is missing is seeded.
MigrateProfile(profile, existing) ==
    [n \in FieldNames |->
        IF n \in DOMAIN existing /\ IsField(existing[n])
        THEN NormalizeField(existing[n])
        ELSE Seed(n, profile)]

\* Mutant of MergeIntakePatch: a field that is not patched is seeded anew.
MergeOntoNothing(fields, patch) ==
    LET base == MigrateProfile(NoProfile, NoProfile)
    IN  [n \in FieldNames |-> IF n \in DOMAIN patch THEN NormalizeField(patch[n]) ELSE base[n]]

MergeIntakePatch(fields, patch) ==
    LET base == MigrateProfile(NoProfile, fields)
    IN  [n \in FieldNames |-> IF n \in DOMAIN patch THEN NormalizeField(patch[n]) ELSE base[n]]

EmptyState == MigrateProfile(NoProfile, NoProfile)

CompleteStatuses == {"answered", "estimated", "skipped"}
TotalFields == Cardinality(FieldNames)
CompleteFields(fields) == Cardinality({n \in FieldNames : fields[n].status \in CompleteStatuses})

\* 100 * complete / total is never half way between two numbers
PercentOf(complete) == (200 * complete + TotalFields) \div (2 * TotalFields)
CompletionPct(fields) == PercentOf(CompleteFields(fields))

OpenGaps(fields) == {n \in FieldNames : fields[n].status \in Deferrable}

MaxSnapshots == 24

\* The last 24 readiness scores.
AppendSnapshot(snapshots, score) ==
    LET all == Append(snapshots, score)
    IN  SubSeq(all, IF Len(all) > MaxSnapshots THEN Len(all) - MaxSnapshots + 1 ELSE 1, Len(all))
=============================================================================
