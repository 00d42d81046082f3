------------------------------ MODULE Branching ------------------------------
(***************************************************************************)
(* The question bank and the plan the intake page follows: which questions *)
(* of a section are shown, which one is next, when the intake is done, and *)
(* what is said to the owner at the end.                                   *)
(***************************************************************************)
EXTENDS IntakeState

\* The questions of a section, each by the field it fills.
Questions(s) ==
    IF s = "protectedInterests" THEN Append(SectionFields[s], "nonNegotiables")
                                ELSE SectionFields[s]

YesNo ==
    {"isFounder", "systemsDocumented", "sopsExist", "booksUpToDate", "financialsDocumented",
     "profitabilityClear", "ownerCompNormalized", "familyInBusiness", "expectationsKnown"}
Scales == {"identityTiedToBusiness", "readinessToLetGo"}
Texts == {"role", "primaryMotivation", "topConcerns"}
Multiple ==
    {"functionsDependentOnOwner", "documentedAreas", "acceptablePaths", "unacceptablePaths",
     "idealBuyerTraits", "dealbreakers", "employeeConcerns", "customerContinuityConcerns",
     "nonNegotiables", "urgencyDrivers"}

Paths == {"family_transfer", "employee_ownership", "management_buyout", "independent_buyer",
          "strategic_buyer", "private_equity"}

\* The choices of the questions that list them.
Options ==
    [category |-> {"founder-led business", "family", "partnership", "other"},
     industry |-> {"the trades", "construction", "manufacturing", "transportation and logistics",
                   "wholesale and distribution", "retail and hospitality",
                   "professional services", "health care", "agriculture", "another field"},
     region |-> {"the Northeast", "the Mid-Atlantic", "the Southeast", "the Midwest",
                 "the South Central US", "the Mountain West", "the West Coast",
                 "outside the United States"},
     yearsOperating |-> {"fewer than 5", "5 to 10", "10 to 20", "20 to 35", "more than 35"},
     employeeBand |-> {"1-9", "10-25", "26-50", "51-100", "100+"},
     revenueBand |-> {"<250k", "250k-1m", "1m-5m", "5m-20m", "20m+"},
     customerConcentration |-> {"diversified", "moderate", "high_few_clients"},
     ageBand |-> {"under_50", "50-59", "60-69", "70+", "prefer_not"},
     functionsDependentOnOwner |-> {"sales", "key relationships", "operations", "finance",
                                    "hiring", "vendor relationships", "daily oversight"},
     keyPersonRisk |-> {"low", "medium", "high"},
     managementDepth |-> {"none", "thin", "solid"},
     documentedAreas |-> {"operations", "sales", "finance", "customer handoff", "hr", "safety"},
     tribalKnowledgeRisk |-> {"low", "medium", "high"},
     revenueTrend |-> {"declining", "flat", "growing"},
     acceptablePaths |-> Paths,
     unacceptablePaths |-> Paths,
     idealBuyerTraits |-> {"patient operator", "local credibility", "industry experience",
                           "keeps the team", "protects the name", "financial strength"},
     dealbreakers |-> {"layoffs", "relocation", "strips assets", "erases the name",
                       "ignores culture"},
     employeeConcerns |-> {"jobs kept", "culture", "pay & benefits", "growth",
                           "loyalty rewarded"},
     customerContinuityConcerns |-> {"service standards", "continuity", "relationships",
                                     "the name", "local presence"},
     nonNegotiables |-> {"the team", "the name", "service quality", "community role",
                         "customer trust"},
     alignmentLevel |-> {"unknown", "misaligned", "partial", "aligned"},
     conflictRisk |-> {"low", "medium", "high"},
     urgencyDrivers |-> {"health", "age", "fatigue", "timing", "family", "none"}]

-----------------------------------------------------------------------------
(* Which questions are shown *)

\* Without family in the business only two family questions are asked.
Collapsed(fields) ==
    /\ fields["familyInBusiness"].value = {"False"}
    /\ fields["category"].value # {"family"}

Shown(fields, s, q) ==
    s = "familyAlignment" /\ Collapsed(fields) => q \in {"familyInBusiness", "expectationsKnown"}

Asked(fields, s) == {q \in ToSet(Questions(s)) : Shown(fields, s, q)}

\* Mutant of SectionComplete: a skipped question is no decision.
SectionAnswered(fields, s) ==
    \A q \in Asked(fields, s) : fields[q].status \in {"answered", "estimated", "pending_document"}

\* A section is complete when each visible question has a decision.
SectionComplete(fields, s) ==
    \A q \in Asked(fields, s) : fields[q].status \in CompleteStatuses \cup {"pending_document"}

\* The plan goes through the sections and the questions of each in order.
Places ==
    UNION {{i} \X DOMAIN Questions(SectionOrder[i]) : i \in DOMAIN SectionOrder}
QuestionAt(p) == Questions(SectionOrder[p[1]])[p[2]]
NotAfter(p, r) == p[1] < r[1] \/ (p[1] = r[1] /\ p[2] <= r[2])

NoQuestion == "none"

\* The first visible question whose status is unknown.
NextQuestion(fields) ==
    LET open == {p \in Places : /\ Shown(fields, SectionOrder[p[1]], QuestionAt(p))
                                /\ fields[QuestionAt(p)].status = "unknown"}
    IN  IF open = {} THEN NoQuestion
        ELSE QuestionAt(CHOOSE p \in open : \A r \in open : NotAfter(p, r))

Done(fields) == NextQuestion(fields) = NoQuestion

\* Where a returning owner starts: the first section that is not complete.
Resume(fields) ==
    LET open == {i \in 1..Len(SectionOrder) : ~SectionComplete(fields, SectionOrder[i])}
    IN  IF open = {} THEN 1 ELSE CHOOSE i \in open : \A j \in open : i <= j

-----------------------------------------------------------------------------
(* What the owner is told *)

Holds(fields, n, mark) == mark \in fields[n].value

\* Follow-up prompts, by their names.
Clarifiers(fields) ==
    {c \in {"employee_finance", "who_runs", "relationship_transfer", "bookkeeper",
            "financials_help", "family_successor"} :
        CASE c = "employee_finance" -> Holds(fields, "acceptablePaths", "employee_ownership")
          [] c = "who_runs" -> Holds(fields, "managementDepth", "none")
          [] c = "relationship_transfer" ->
               fields["functionsDependentOnOwner"].value \cap {"sales", "key relationships"} # {}
          [] c = "bookkeeper" -> fields["booksUpToDate"] = Field({"False"}, "answered")
          [] c = "financials_help" -> Holds(fields, "financialsDocumented", "False")
          [] c = "family_successor" ->
               /\ fields["familyInBusiness"].value \ {"False"} # {}
               /\ Holds(fields, "category", "family")}

Hints(fields) ==
    {h \in {"tribalKnowledgeRisk", "keyPersonRisk", "financialDocsHighPriority"} :
        CASE h = "tribalKnowledgeRisk" -> Holds(fields, "sopsExist", "False")
          [] h = "keyPersonRisk" -> Holds(fields, "managementDepth", "none")
          [] h = "financialDocsHighPriority" ->
               /\ fields["revenueBand"].value \cap {"5m-20m", "20m+"} # {}
               /\ Holds(fields, "financialsDocumented", "False")}

Scale == <<"1", "2", "3", "4", "5">>
IsNumber(v) == \E i \in 1..5 : v = {Scale[i]}
Number(v) == CHOOSE i \in 1..5 : v = {Scale[i]}

Soften(fields) ==
    LET letGo == fields["readinessToLetGo"].value
    IN  IsNumber(letGo) /\ Number(letGo) <= 2
SurfaceHumanEarly(fields) == Holds(fields, "urgencyDrivers", "health")

\* Open fields that are named to the owner as gaps, and answers that are gaps.
NamedGaps ==
    {"booksUpToDate", "financialsDocumented", "profitabilityClear", "sopsExist",
     "managementDepth", "functionsDependentOnOwner", "alignmentLevel", "acceptablePaths",
     "readinessToLetGo"}
FlaggedGaps(fields) ==
    (OpenGaps(fields) \cap NamedGaps)
    \cup {n \in {"sopsExist", "booksUpToDate"} : Holds(fields, n, "False")}
    \cup {n \in {"managementDepth"} : Holds(fields, n, "none")}
    \cup {n \in {"keyPersonRisk"} : Holds(fields, n, "high")}

HumanTouchpointThreshold == 55
WarmHandoffThreshold == 75

\* Where the owner is sent at the end, given the readiness score.
Routing(fields, score) ==
    IF SurfaceHumanEarly(fields) THEN "human_touchpoint"
    ELSE IF score < HumanTouchpointThreshold /\ fields["urgencyDrivers"].value \ {"none"} # {}
    THEN "human_touchpoint"
    ELSE IF score >= WarmHandoffThreshold THEN "warm_handoff"
    ELSE "self_serve"
=============================================================================
