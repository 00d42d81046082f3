------------------------------- MODULE Scoring -------------------------------
(***************************************************************************)
(* The readiness score of an intake record, and the action plan that is    *)
(* drawn from it.  Five drivers are scored from 0 to 5 and weighted by     *)
(* how weak they are.  A driver is counted here in twentieths of a point,  *)
(* the finest step any answer makes, and its published score in tenths.    *)
(***************************************************************************)
EXTENDS Branching

IsYes(v) == v \in {{"True"}, {"yes"}}
IsNo(v) == v \in {{"False"}, {"no"}}

Drivers == {"financial_clarity", "operational_transferability", "process_documentation",
            "family_alignment", "owner_emotional_readiness"}

Clamp(score) == IF score < 0 THEN 0 ELSE IF score > 100 THEN 100 ELSE score

\* What an answer adds: by yes or no, by a choice that counts, or by a condition.
ByYesNo(v, yes, no) == IF IsYes(v) THEN yes ELSE IF IsNo(v) THEN no ELSE 0
ByChoice(v, points) ==
    IF \E c \in DOMAIN points : v = {c} THEN points[CHOOSE c \in DOMAIN points : v = {c}] ELSE 0
When(condition, points) == IF condition THEN points ELSE 0

Financial(fields) ==
    Clamp(40 + ByYesNo(fields["booksUpToDate"].value, 20, -10)
             + ByYesNo(fields["financialsDocumented"].value, 20, 0)
             + ByYesNo(fields["profitabilityClear"].value, 10, 0)
             + ByYesNo(fields["ownerCompNormalized"].value, 10, 0)
             + ByChoice(fields["revenueTrend"].value, [growing |-> 10, declining |-> -10]))

Operational(fields) ==
    Clamp(60 + ByChoice(fields["keyPersonRisk"].value, [low |-> 30, high |-> -30])
             + ByChoice(fields["managementDepth"].value,
                        [solid |-> 20, thin |-> -10, none |-> -30])
             + ByYesNo(fields["systemsDocumented"].value, 10, 0)
             + When(Cardinality(fields["functionsDependentOnOwner"].value) >= 4, -20))

\* Each documented area counts a fifth of a point, up to one.
Process(fields) ==
    LET areas == Cardinality(fields["documentedAreas"].value)
    IN  Clamp(50 + ByYesNo(fields["sopsExist"].value, 20, -20)
                 + ByChoice(fields["tribalKnowledgeRisk"].value, [low |-> 20, high |-> -20])
                 + (IF areas > 5 THEN 20 ELSE 4 * areas))

Family(fields) ==
    Clamp(60 + ByChoice(fields["alignmentLevel"].value,
                        [aligned |-> 30, partial |-> 5, misaligned |-> -30])
             + ByYesNo(fields["expectationsKnown"].value, 10, 0)
             + ByChoice(fields["conflictRisk"].value, [low |-> 10, high |-> -20]))

Emotional(fields) ==
    LET letGo == fields["readinessToLetGo"].value
        identity == fields["identityTiedToBusiness"].value
    IN  Clamp(50 + (IF IsNumber(letGo) THEN 12 * (Number(letGo) - 3) ELSE 0)
                 + When(IsNumber(identity) /\ Number(identity) >= 4, -10)
                 + When(fields["primaryMotivation"].value # {}, 10)
                 + When(fields["topConcerns"].value # {}, 5))

DriverOf(d, fields) ==
    CASE d = "financial_clarity" -> Financial(fields)
      [] d = "operational_transferability" -> Operational(fields)
      [] d = "process_documentation" -> Process(fields)
      [] d = "family_alignment" -> Family(fields)
      [] d = "owner_emotional_readiness" -> Emotional(fields)

\* Rounded to tenths.  An odd number of twentieths is half way, and goes
\* where the nearest binary fraction lies, or to the even tenth if it is exact.
RoundsUp == {21, 31, 55, 57, 67, 69, 75, 77, 79, 89}
Tenths(t) ==
    IF t % 2 = 0 THEN t \div 2
    ELSE IF t \in RoundsUp THEN (t + 1) \div 2 ELSE (t - 1) \div 2

DriverScore(d, fields) == Tenths(DriverOf(d, fields))

\* Weight[s + 1] is e^(5 - s/10), in ten thousandths.
Weight ==
    <<1484132, 1342898, 1215104, 1099472, 994843, 900171, 814509, 736998, 666863, 603403,
      545982, 494024, 447012, 404473, 365982, 331155, 299641, 271126, 245325, 221980,
      200855, 181741, 164446, 148797, 134637, 121825, 110232, 99742, 90250, 81662,
      73891, 66859, 60496, 54739, 49530, 44817, 40552, 36693, 33201, 30042,
      27183, 24596, 22255, 20138, 18221, 16487, 14918, 13499, 12214, 11052, 10000>>

OverDrivers(f) ==
    f["financial_clarity"] + f["operational_transferability"] + f["process_documentation"]
    + f["family_alignment"] + f["owner_emotional_readiness"]

\* The weighted mean of the drivers as a number from 0 to 100.
UnifiedReadinessScore(scores) ==
    LET weight == [d \in Drivers |-> Weight[scores[d] + 1]]
        weighted == [d \in Drivers |-> 2 * scores[d] * weight[d]]
        total == OverDrivers(weight)
    IN  (2 * OverDrivers(weighted) + total) \div (2 * total)

Overall(fields) == UnifiedReadinessScore([d \in Drivers |-> DriverScore(d, fields)])

-----------------------------------------------------------------------------
(* The action plan *)

\* A step, the driver it belongs to, the question it answers, and the value
\* one click gives it; {} asks for the owner's own words.
Step(id, driver, field, goodValue) ==
    [id |-> id, driver |-> driver, field |-> field, goodValue |-> goodValue]

Rules ==
    {Step("books-current", "financial_clarity", "booksUpToDate", {"True"}),
     Step("financials-documented", "financial_clarity", "financialsDocumented", {"True"}),
     Step("profitability-clear", "financial_clarity", "profitabilityClear", {"True"}),
     Step("owner-comp-normalized", "financial_clarity", "ownerCompNormalized", {"True"}),
     Step("reduce-owner-dependency", "operational_transferability", "keyPersonRisk", {"low"}),
     Step("build-management", "operational_transferability", "managementDepth", {"solid"}),
     Step("document-systems", "operational_transferability", "systemsDocumented", {"True"}),
     Step("write-sops", "process_documentation", "sopsExist", {"True"}),
     Step("capture-tribal", "process_documentation", "tribalKnowledgeRisk", {"low"}),
     Step("align-family", "family_alignment", "alignmentLevel", {"aligned"}),
     Step("know-expectations", "family_alignment", "expectationsKnown", {"True"}),
     Step("picture-next-chapter", "owner_emotional_readiness", "readinessToLetGo", {"4"}),
     Step("name-motivation", "owner_emotional_readiness", "primaryMotivation", {})}

QuickSteps == {r \in Rules : r.goodValue # {}}

StepDone(r, fields) ==
    LET v == fields[r.field].value
    IN  CASE r.field = "readinessToLetGo" -> IsNumber(v) /\ Number(v) >= 4
          [] r.field = "primaryMotivation" -> v # {}
          [] OTHER -> v = r.goodValue

OpenSteps(fields) == {r \in Rules : ~StepDone(r, fields)}

\* Mutant of CompleteAction: the rest of the record is lost.
CompleteActionAlone(fields, r) ==
    MergeIntakePatch(NoProfile, [n \in {r.field} |-> [value |-> r.goodValue, status |-> "answered"]])

\* One click sets the step's question to its good value, whatever it was.
CompleteAction(fields, r) ==
    MergeIntakePatch(fields, [n \in {r.field} |-> [value |-> r.goodValue, status |-> "answered"]])
=============================================================================
