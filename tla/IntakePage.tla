----------------------------- MODULE IntakePage -----------------------------
(***************************************************************************)
(* The guided intake as one owner goes through it: the page, which keeps   *)
(* the answers typed since the last save as drafts, saves them by a timer  *)
(* and by the Continue button, and shows the report with the action plan;  *)
(* and the record the server keeps, which each save patches.  A save is a  *)
(* call: it is sent, carried out by the server, and answered, and calls    *)
(* under way at the same time may be carried out and answered in any order *)
(* or fail.  The timer's callback sees the page as it was when the timer   *)
(* was set.  Requests of one project are carried out one at a time here;   *)
(* ProjectStore has what happens inside them.                              *)
(***************************************************************************)
EXTENDS Scoring

CONSTANTS Answers,      \* what the owner may enter: question, value, status
          Starts,       \* the records the project may have been left with
          Clicks,       \* the steps of the action plan the owner may click
          MaxAnswers,   \* bound: answers entered
          MaxCalls,     \* bound: saves sent
          MaxFailures,  \* bound: requests that fail
          MaxReports    \* bound: analyses

ASSUME PageAssumption ==
    /\ Answers \subseteq [question : FieldNames, value : Marks, status : FieldStatuses]
    /\ Starts \subseteq [FieldNames -> Normal]
    /\ Clicks \subseteq QuickSteps
    /\ MaxAnswers \in Nat /\ MaxCalls \in Nat /\ MaxFailures \in Nat /\ MaxReports \in Nat

VARIABLES
    exists,      \* whether the project has been created
    fields,      \* the stored record
    snapshots,   \* the stored readiness scores
    step,        \* trust, intake or report
    busy,        \* what the page waits for, "no" if the busy flag is down
    gate,        \* whether it asks to sign in before it resumes
    staged,      \* the answer given on the opening screen
    seen,        \* the record of the last reply: the plan on the page
    at,          \* the section on the page
    drafts,      \* the answers entered since the last Continue
    reflection,  \* whether the summary after a section is shown
    saveState,   \* what the page says about saving
    timer,       \* what the pending timer saw, or NoTimer
    calls,       \* the saves under way
    offered,     \* the open steps shown by the action plan
    word,        \* history: the owner's last word on each question
    newest,      \* history: the last save carried out for each question
    exposed,     \* history: the questions whose last word was put at risk
    clicked,     \* history: the steps done that were not answered anew since
    count        \* the bounded numbers: answers, calls, failures, reports

server == <<exists, fields, snapshots>>
page == <<step, busy, gate, staged, seen, at, drafts, reflection, saveState, timer, offered>>
history == <<word, newest, exposed, clicked>>
vars == <<server, page, calls, history, count>>

NoTimer == [busy |-> TRUE, asked |-> {"none"}]
NoDrafts == <<>>
NoAnswer == [question |-> "none", value |-> {}, status |-> "unknown"]

Section == SectionOrder[at]

\* The question of the opening screen.
FirstQuestion == Questions(SectionOrder[1])[1]

Draft(a) == [value |-> a.value, status |-> a.status]
With(f, q, v) == [n \in DOMAIN f \cup {q} |-> IF n = q THEN v ELSE f[n]]
Only(f, qs) == [n \in DOMAIN f \cap qs |-> f[n]]
Underway(q) == \E c \in calls : q \in DOMAIN c.patch
Bump(c) == count' = [count EXCEPT ![c] = @ + 1]
MayFail == count.failures < MaxFailures

\* The debounce effect, run when the drafts, the step or the reflection have
\* changed: the old timer is dropped, and a new one sees the page as it is.
Debounce(draftsNow, stepNow, reflectionNow, busyNow, askedNow) ==
    timer' = IF stepNow # "intake" \/ reflectionNow \/ draftsNow = NoDrafts
             THEN NoTimer
             ELSE [busy |-> busyNow # "no", asked |-> askedNow]

Send(kind, patch) ==
    /\ count.calls < MaxCalls
    /\ calls' = calls \cup
          {[id |-> count.calls + 1, kind |-> kind, patch |-> patch, stage |-> "sent",
            reply |-> NoDrafts]}
    /\ Bump("calls")

-----------------------------------------------------------------------------
(* Opening the page *)

Init ==
    /\ exists \in BOOLEAN
    /\ fields \in IF exists THEN Starts ELSE {EmptyState}
    /\ snapshots = <<>>
    /\ step = "trust" /\ busy = "no" /\ gate = FALSE
    /\ staged = NoAnswer /\ seen = EmptyState /\ at = 1
    /\ drafts = NoDrafts /\ reflection = FALSE /\ saveState = "idle" /\ timer = NoTimer
    /\ calls = {} /\ offered = {}
    /\ word = NoDrafts /\ newest = NoDrafts /\ exposed = {} /\ clicked = {}
    /\ count = [answers |-> 0, calls |-> 0, failures |-> 0, reports |-> 0]

\* Begin, resume, or answer the first question before there is a project.
Begin ==
    /\ step = "trust" /\ busy = "no" /\ ~gate
    /\ busy' = "begin"
    /\ \/ staged' = NoAnswer /\ UNCHANGED count
       \/ \E a \in Answers :
             /\ ~exists /\ a.question = FirstQuestion /\ a.status = "answered"
             /\ count.answers < MaxAnswers
             /\ staged' = a /\ Bump("answers")
    /\ UNCHANGED <<server, step, gate, seen, at, drafts, reflection, saveState, timer, offered,
                   calls, history>>

\* The project is created if need be and loaded.  The answer of the opening
\* screen becomes the first draft.
Load ==
    /\ busy \in {"begin", "begin again"}
    /\ exists' = TRUE
    /\ seen' = fields /\ at' = Resume(fields)
    /\ drafts' = IF staged = NoAnswer THEN NoDrafts
                 ELSE With(NoDrafts, staged.question, Draft(staged))
    /\ word' = IF staged = NoAnswer THEN word
               ELSE With(word, staged.question, Draft(staged))
    /\ saveState' = IF staged = NoAnswer THEN saveState ELSE "saving"
    /\ step' = "intake" /\ busy' = "no" /\ staged' = NoAnswer
    /\ Debounce(drafts', "intake", reflection, "no", Asked(fields, SectionOrder[at']))
    /\ UNCHANGED <<fields, snapshots, gate, reflection, offered, calls, newest, exposed,
                   clicked, count>>

\* A project that does not open may belong to an account: the page asks to
\* sign in, once.
LoadFails ==
    /\ busy \in {"begin", "begin again"} /\ MayFail
    /\ gate' = (exists /\ busy = "begin")
    /\ busy' = "no" /\ staged' = NoAnswer
    /\ Bump("failures")
    /\ UNCHANGED <<server, step, seen, at, drafts, reflection, saveState, timer, offered,
                   calls, history>>

\* The owner signs in, or closes the gate.
Gate ==
    /\ gate
    /\ gate' = FALSE
    /\ busy' = "begin again" \/ UNCHANGED busy
    /\ UNCHANGED <<server, step, staged, seen, at, drafts, reflection, saveState, timer,
                   offered, calls, history, count>>

\* The page is closed and opened again: only the project is remembered, and
\* saves under way are nobody's.
Reopen ==
    /\ step # "trust" /\ MayFail
    /\ step' = "trust" /\ busy' = "begin" /\ gate' = FALSE /\ staged' = NoAnswer
    /\ seen' = EmptyState /\ at' = 1 /\ drafts' = NoDrafts /\ reflection' = FALSE
    /\ saveState' = "idle" /\ timer' = NoTimer /\ offered' = {}
    /\ calls' = {[c EXCEPT !.kind = "orphan", !.reply = NoDrafts] :
                    c \in {d \in calls : d.stage = "sent"}}
    /\ exposed' = exposed
          \cup {q \in DOMAIN drafts : fields[q] # NormalizeField(drafts[q])}
          \cup {q \in DOMAIN word :
                  \E c \in calls : q \in DOMAIN c.patch /\ c.patch[q] # word[q]}
    /\ Bump("failures")
    /\ UNCHANGED <<server, word, newest, clicked>>

-----------------------------------------------------------------------------
(* Answering and saving *)

\* An answer, "I don't know" or "Skip for now"; the busy flag disables the
\* buttons of the page, not its questions.
Enter(a) ==
    /\ step = "intake" /\ ~reflection /\ count.answers < MaxAnswers
    /\ a.question \in Asked(seen, Section)
    /\ drafts' = With(drafts, a.question, Draft(a))
    /\ saveState' = "saving"
    /\ Debounce(drafts', step, reflection, busy, Asked(seen, Section))
    /\ word' = With(word, a.question, Draft(a))
    /\ exposed' = IF Underway(a.question) THEN exposed ELSE exposed \ {a.question}
    /\ clicked' = {r \in clicked : r.field # a.question}
    /\ Bump("answers")
    /\ UNCHANGED <<server, step, busy, gate, staged, seen, at, reflection, offered, calls,
                   newest>>

\* The timer runs out: the drafts of the section it saw are sent, unless the
\* page was busy when it was set.
Autosave ==
    /\ timer # NoTimer
    /\ timer' = NoTimer
    /\ IF timer.busy
       THEN UNCHANGED <<saveState, calls, count>>
       ELSE saveState' = "saving" /\ Send("auto", Only(drafts, timer.asked))
    /\ UNCHANGED <<server, step, busy, gate, staged, seen, at, drafts, reflection, offered,
                   history>>

\* Continue sends the drafts of the section on the page.
SaveAndContinue ==
    /\ step = "intake" /\ ~reflection /\ busy = "no"
    /\ busy' = "save"
    /\ Send("save", Only(drafts, Asked(seen, Section)))
    /\ UNCHANGED <<server, step, gate, staged, seen, at, drafts, reflection, saveState, timer,
                   offered, history>>

\* The server patches the record and replies with it.
PutIntake(c) ==
    /\ c \in calls /\ c.stage = "sent"
    /\ fields' = MergeIntakePatch(fields, c.patch)
    /\ calls' = (calls \ {c}) \cup
          IF c.kind = "orphan" THEN {}
          ELSE {[c EXCEPT !.stage = "served", !.reply = fields']}
    /\ newest' = [q \in DOMAIN newest \cup DOMAIN c.patch |->
                    IF q \notin DOMAIN c.patch THEN newest[q]
                    ELSE IF q \in DOMAIN newest /\ newest[q] > c.id THEN newest[q] ELSE c.id]
    /\ exposed' = exposed \cup
          {q \in DOMAIN c.patch \cap DOMAIN newest : newest[q] > c.id}
    /\ UNCHANGED <<exists, snapshots, page, word, clicked, count>>

\* The request or its answer is lost.
CallFails(c) ==
    /\ c \in calls /\ c.stage # "failed" /\ MayFail
    /\ calls' = (calls \ {c}) \cup
          IF c.kind = "orphan" THEN {} ELSE {[c EXCEPT !.stage = "failed", !.reply = NoDrafts]}
    /\ Bump("failures")
    /\ UNCHANGED <<server, page, history>>

\* What the answer of a Continue replaces: the plan, and all the drafts.
ContinueSaved(c) ==
    /\ c \in calls /\ c.kind = "save" /\ c.stage = "served"
    /\ calls' = calls \ {c}
    /\ seen' = c.reply /\ drafts' = NoDrafts
    /\ saveState' = "saved" /\ busy' = "reflect"
    /\ Debounce(NoDrafts, step, reflection, busy, {})
    /\ exposed' = exposed \cup
          {q \in DOMAIN drafts : ~(q \in DOMAIN c.patch /\ c.patch[q] = drafts[q])}
    /\ UNCHANGED <<server, step, gate, staged, at, reflection, offered, word, newest, clicked,
                   count>>

\* Mutant of AutoSaved: an autosave clears the drafts as Continue does.
AutoSavedClears(c) ==
    /\ c \in calls /\ c.kind = "auto" /\ c.stage = "served"
    /\ calls' = calls \ {c}
    /\ seen' = c.reply /\ saveState' = "saved" /\ drafts' = NoDrafts
    /\ UNCHANGED <<server, step, busy, gate, staged, at, reflection, timer, offered,
                   history, count>>

\* An autosave keeps the drafts.
AutoSaved(c) ==
    /\ c \in calls /\ c.kind = "auto" /\ c.stage = "served"
    /\ calls' = calls \ {c}
    /\ seen' = c.reply /\ saveState' = "saved"
    /\ UNCHANGED <<server, step, busy, gate, staged, at, drafts, reflection, timer, offered,
                   history, count>>

\* A failed Continue leaves the drafts and the button; a failed autosave is
\* not mentioned.
SaveFailed(c) ==
    /\ c \in calls /\ c.stage = "failed"
    /\ calls' = calls \ {c}
    /\ IF c.kind = "save"
       THEN busy' = "no" /\ UNCHANGED saveState
       ELSE saveState' = "idle" /\ UNCHANGED busy
    /\ UNCHANGED <<server, step, gate, staged, seen, at, drafts, reflection, timer, offered,
                   history, count>>

-----------------------------------------------------------------------------
(* Moving through the sections *)

\* The summary arrives, or does not and the page stays where it is.
Reflect ==
    /\ busy = "reflect" /\ busy' = "no"
    /\ \/ /\ reflection' = TRUE
          /\ Debounce(drafts, step, TRUE, busy, {})
          /\ UNCHANGED count
       \/ /\ MayFail /\ Bump("failures")
          /\ UNCHANGED <<reflection, timer>>
    /\ UNCHANGED <<server, step, gate, staged, seen, at, drafts, saveState, offered, calls,
                   history>>

\* After the last section the readiness is prepared.
AdvanceAfterReflection ==
    /\ step = "intake" /\ reflection /\ busy = "no"
    /\ reflection' = FALSE
    /\ IF at < Len(SectionOrder)
       THEN at' = at + 1 /\ UNCHANGED busy
       ELSE busy' = "finish" /\ UNCHANGED at
    /\ Debounce(drafts, step, FALSE, busy', Asked(seen, SectionOrder[at']))
    /\ UNCHANGED <<server, step, gate, staged, seen, drafts, saveState, offered, calls,
                   history, count>>

Back ==
    /\ step = "intake" /\ ~reflection /\ busy = "no" /\ at > 1
    /\ at' = at - 1
    /\ UNCHANGED <<server, step, busy, gate, staged, seen, drafts, reflection, saveState,
                   timer, offered, calls, history, count>>

-----------------------------------------------------------------------------
(* The report and the action plan *)

SeeReadiness ==
    /\ step = "intake" /\ busy = "no"
    /\ busy' = "finish"
    /\ UNCHANGED <<server, step, gate, staged, seen, at, drafts, reflection, saveState, timer,
                   offered, calls, history, count>>

\* The stored record is scored and the score appended to its snapshots; the
\* report shows the action plan.  It may fail after the analysis is stored.
Finish ==
    /\ busy = "finish" /\ count.reports < MaxReports
    /\ busy' = "no"
    /\ snapshots' = AppendSnapshot(snapshots, Overall(fields))
    /\ \/ /\ step' = "report"
          /\ offered' = OpenSteps(fields)
          /\ Debounce(drafts, "report", reflection, busy, {})
          /\ Bump("reports")
       \/ /\ MayFail
          /\ count' = [count EXCEPT !.reports = @ + 1, !.failures = @ + 1]
          /\ UNCHANGED <<step, offered, timer>>
    /\ UNCHANGED <<exists, fields, gate, staged, seen, at, drafts, reflection, saveState, calls,
                   history>>

FinishFails ==
    /\ busy = "finish" /\ MayFail
    /\ busy' = "no"
    /\ Bump("failures")
    /\ UNCHANGED <<server, step, gate, staged, seen, at, drafts, reflection, saveState, timer,
                   offered, calls, history>>

\* "I've done this": the step's good value is stored, and the plan refreshed.
Complete(r) ==
    /\ step = "report" /\ r \in offered \cap Clicks
    /\ fields' = CompleteAction(fields, r)
    /\ offered' = OpenSteps(fields')
    /\ word' = With(word, r.field, [value |-> r.goodValue, status |-> "answered"])
    /\ exposed' = IF r.field \in DOMAIN drafts \/ Underway(r.field)
                  THEN exposed \cup {r.field} ELSE exposed \ {r.field}
    /\ clicked' = IF calls = {} THEN clicked \cup {r} ELSE clicked
    /\ UNCHANGED <<exists, snapshots, step, busy, gate, staged, seen, at, drafts, reflection,
                   saveState, timer, calls, newest, count>>

\* Back to the questions, where the drafts still are.
BackToIntake ==
    /\ step = "report"
    /\ step' = "intake" /\ offered' = {}
    /\ Debounce(drafts, "intake", reflection, busy, Asked(seen, Section))
    /\ UNCHANGED <<server, busy, gate, staged, seen, at, drafts, reflection, saveState, calls,
                   history, count>>

Next ==
    \/ Begin \/ Load \/ LoadFails \/ Gate \/ Reopen
    \/ \E a \in Answers : Enter(a)
    \/ Autosave \/ SaveAndContinue
    \/ \E c \in calls :
          PutIntake(c) \/ CallFails(c) \/ ContinueSaved(c) \/ AutoSaved(c) \/ SaveFailed(c)
    \/ Reflect \/ AdvanceAfterReflection \/ Back
    \/ SeeReadiness \/ Finish \/ FinishFails \/ BackToIntake
    \/ \E r \in Clicks : Complete(r)

Spec == Init /\ [][Next]_vars

-----------------------------------------------------------------------------
(* Properties *)

Patch == [value : Marks, status : FieldStatuses]
Partial(f, range) == DOMAIN f \subseteq FieldNames /\ \A q \in DOMAIN f : f[q] \in range

\* Every variable has its type, and the stored record is in normal form: an
\* answer without a value is a gap (page.jsx 22-46, intake_state.py 118-138).
TypeOK ==
    /\ exists \in BOOLEAN /\ fields \in [FieldNames -> Normal] /\ snapshots \in Seq(0..100)
    /\ step \in {"trust", "intake", "report"} /\ at \in 1..Len(SectionOrder)
    /\ busy \in {"no", "begin", "begin again", "save", "reflect", "finish"}
    /\ gate \in BOOLEAN /\ reflection \in BOOLEAN /\ saveState \in {"idle", "saving", "saved"}
    /\ staged \in Answers \cup {NoAnswer}
    /\ seen \in [FieldNames -> Normal] /\ offered \subseteq Rules
    /\ Partial(drafts, Patch) /\ Partial(word, Patch) /\ Partial(newest, Nat)
    /\ \A c \in calls :
          /\ c.kind \in {"auto", "save", "orphan"} /\ c.stage \in {"sent", "served", "failed"}
          /\ Partial(c.patch, Patch) /\ (c.stage = "served" => c.reply \in [FieldNames -> Normal])
    /\ exposed \subseteq FieldNames /\ clicked \subseteq Clicks

\* Whatever is sent, lost, answered late or left for later, the owner's last
\* word on a question is stored or still among the drafts, unless it was put
\* at risk in one of the ways the actions name: entered while a Continue was
\* on its way or left in another section when it came back, overtaken by an
\* older save, clicked in the plan over an answer still on the page, or, when
\* the page closed, not yet saved or with an older answer on its way
\* (page.jsx 172-246, "never loses work").
WordKept ==
    \A q \in DOMAIN word \ exposed :
        \/ q \in DOMAIN drafts /\ drafts[q] = word[q]
        \/ fields[q] = NormalizeField(word[q])

\* The three readings of the record agree: the percentage is 100 only if no
\* question is left, no question left means 100 but for what waits for a
\* document or is not asked, and an owner who returns starts at the next
\* question (intake_state.py 201-244, branching.py 33-64 and 240-293).
PlanAgrees ==
    /\ CompletionPct(fields) = 100 => Done(fields)
    /\ Done(fields) =>
          \/ CompletionPct(fields) = 100
          \/ Collapsed(fields)
          \/ \E n \in FieldNames : fields[n].status = "pending_document"
    /\ ~Done(fields) => NextQuestion(fields) \in Asked(fields, SectionOrder[Resume(fields)])

\* The stored record changes on no question the owner has not spoken on,
\* however often it is migrated and merged (intake_state.py 329-431).
OnlyOwnWords ==
    [][\A n \in FieldNames : fields'[n] # fields[n] => n \in DOMAIN word']_vars

\* One click in the action plan marks its step done and takes nothing from
\* its driver or another, unless the plan was old and the answer already
\* better than the good value (action_plan.py 38-106 and 157-168).
CompletingHelps ==
    [][\A r \in Clicks : Complete(r) =>
          /\ StepDone(r, fields') /\ r \notin offered'
          /\ \A d \in Drivers :
                \/ DriverScore(d, fields') >= DriverScore(d, fields)
                \/ d = r.driver /\ StepDone(r, fields)]_vars

\* What the plan promises: a step done stays done until its question is
\* answered anew (action_plan.py 3-6, page.jsx 974-975).
StepsStayDone == \A r \in clicked : StepDone(r, fields)
=============================================================================
