---------------------------- MODULE MCIntakePage ----------------------------
(***************************************************************************)
(* Instances of IntakePage: an owner whose project was begun on the        *)
(* classic page and who has since answered all but the family's alignment  *)
(* and the readiness to let go, so that the page opens on the last section *)
(* but one; or a new owner, who begins with the opening question.          *)
(***************************************************************************)
EXTENDS IntakePage

Entry(q, v, s) == [question |-> q, value |-> v, status |-> s]

\* The profile of the classic page seeds part of the record ...
Profile ==
    [industry |-> {"the trades"}, employees |-> {"10-25"}, revenueRange |-> {"1m-5m"},
     customerConcentration |-> {"few"}, ownerDependency |-> {"sales", "operations"},
     keyEmployeeRisk |-> {"some"}, sopsDocumented |-> {"operations", "head"},
     fears |-> {"the name"}, profitMargin |-> {"12%"}]
Seeded == {n \in FieldNames : Seed(n, Profile).status # "unknown"}

\* ... and the owner answered the rest.
Open == {"alignmentLevel", "readinessToLetGo"}
Filled ==
    [n \in FieldNames \ (Open \cup Seeded) |->
        [value |-> IF n \in YesNo THEN {"True"} ELSE IF n \in Scales THEN {"3"}
                   ELSE IF n \in Texts THEN {"own words"}
                   ELSE {CHOOSE o \in Options[n] : o \notin {"family", "unknown"}},
         status |-> "answered"]]

MCStarts == {MergeIntakePatch(MigrateProfile(Profile, NoProfile), Filled)}

MCAnswers ==
    {Entry("category", {"family"}, "answered"),
     Entry("familyInBusiness", {"False"}, "answered"),
     Entry("alignmentLevel", {}, "skipped"),
     Entry("readinessToLetGo", {"5"}, "answered")}

\* The click that can follow a better answer, and the one a draft can undo.
MCClicks == {r \in QuickSteps : r.id = "picture-next-chapter"}
UndoneClicks == {r \in QuickSteps : r.id = "align-family"}
=============================================================================
