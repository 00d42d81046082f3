# StewardPath and the agent harness in TLA+

TLA+ models of this repository's stateful code, TLC configurations that check
them on small instances, and theorems about them that TLAPS proves for every
value of their constants.  The code is the reference: every definition is
translated from the source lines `PROJECT.json` gives for it under `map`.

## The system

The repository holds two programs and their user interfaces.

| Component | Where | State | Operations |
|---|---|---|---|
| Payments | `src/backend/app/services/payments.py`, `main.py` 512-684, `storage/projects.py` 315-382, `storage/auth_db.py` 148-163, 361-422 | `orders/orders.jsonl`; tables `finalized_orders`, `entitlements` | start a checkout, confirm from the success page, Stripe webhook |
| Passwordless sign-in | `api/auth.py`, `storage/auth_db.py` | tables `auth_challenges`, `owners`, `owner_projects`, `sessions` | request a code, verify a code, confirm a link, claim the project |
| Session and access | `api/session.py`, `main.py` 99-169 | table `sessions`, a signed cookie | issue, read, clear, `require_project_access`, `require_admin` |
| Project store | `storage/projects.py` 76-290 | per project: `project.json`, `profile.json`, `intake_state.json`, `analyses.jsonl`, `latest_analysis.json` | create, update, append an analysis, save the intake, export, delete |
| Intake state | `storage/intake_state.py`, `intake/` | none (pure functions on a document) | migrate, merge a patch, completion, snapshots, branching |
| Scoring and plan | `services/` | none | readiness score, successor scorecard, action plan |
| Harness loop | `src/harness/orchestrator.py`, `loop_controller.py`, `workspace.py`, `cost_tracker.py` | `state/loop_state.json`, `state/cost_log.json`, contract, feedback, two reports | run, resume, abort, status, report |
| Agents | `src/harness/agents/` | files of the workspace | plan, propose a test plan, critique it, build, evaluate |
| Job registry | `src/harness/job_registry.py`, `job_runner.py`, `prefect_adapter.py`, `api.py`, `mcp_server.py` | `state/jobs.json` | create, approve, start and finish a run, retry |
| Intake page | `src/frontend/app/intake/page.jsx` | drafts and the loaded state in the browser | begin, resume, autosave, save and continue, reflect, finish, complete a step of the plan |
| Harness console, first MVP | `src/app/`, `src/mvp/` | a JavaScript copy of the project store | |

How they interact.  One uvicorn worker serves the backend: synchronous handlers
run on a thread pool, the Stripe webhook on the event loop, and they share only
files and one SQLite database in WAL mode (`_connect`: a connection and a
commit per store call).  Stripe and the mailer are outside.  The harness is one
sequential loop per process; processes share the workspace directory: the
command line, the API, MCP, and jobs, which also share `jobs.json`.  The intake
page keeps answers as drafts and sends them by a timer and by the Continue
button, so that several saves may be under way; the server merges each into the
record, and scores the record for the report.

What is hard in it: store calls of concurrent handlers interleave between any
two of their statements, so what was read is stale when it is used; files are
rewritten whole; a handler may stop between two commits and nothing is undone;
Stripe delivers events late, early and more than once; the loop of the harness
must end whatever its judge answers, and may die anywhere; a callback of the
page sees it as it was when the callback was made, and answers come back when
the page has moved on.  `PROJECT.json` lists
each such hazard at its line, with the properties that bear on it.  Where the
code does lose something, the property says how far the loss goes, and the
hazard's note says which part of it the property leaves out.

What would make each component correct:

- Payments: every paid session becomes access once; access is backed by a
  payment; late, early and repeated events neither give nor take what they
  should not; no order is lost.
- Sign-in: one session per challenge; throttles hold for concurrent requests;
  no challenge is spent for nothing; a project goes to one owner who asked.
- Access: a session that expired or was logged out opens nothing.
- Project store: no acknowledged write is lost; the files of a project agree.
- Intake state: migration is idempotent; a merge keeps what a patch leaves out;
  the completion, the next question and the section an owner returns to agree.
- Scoring and plan: completing a step helps the driver it belongs to, and stays
  done.
- Harness loop: every run ends within its bounds, and completes only on a build
  that was judged PASS under a contract.
- Job registry: what needs approval runs only when approved; the file tells how
  each run ended, and a success that is recorded is one.
- Intake page: what the owner said last is stored or still on the page.

## Modules

| Module | What it is |
|---|---|
| `Purchases` | abstract: a session is paid, then granted at most once, then notified at most once |
| `Payments` | the code: threads, ledger, tables, webhook, failures; implements `Purchases` |
| `MCPayments` | its small instances |
| `PaymentsProofs` | theorems about `Payments` |
| `SignIn` | challenges, throttles, owners and the claim of a project |
| `MCSignIn` | its small instances |
| `SignInProofs` | theorems about `SignIn` |
| `ProjectStore` | the files of one project and the requests that read and rewrite them |
| `MCProjectStore` | its small instance |
| `ProjectStoreProofs` | theorems about `ProjectStore`, whatever its requests meet |
| `ProjectAloneProofs` | extends it: theorems about the requests that meet no other |
| `GoalRun` | abstract: a bounded run that completes only on an attempt judged PASS |
| `HarnessLoop` | the orchestrator, the workspace files and the abort command; implements `GoalRun` |
| `HarnessLoopProofs` | theorems about `HarnessLoop` |
| `JobRegistry` | `jobs.json`, the processes that rewrite it, and the runs of its jobs |
| `MCJobRegistry` | its small instance |
| `JobRegistryProofs` | theorems about `JobRegistry` |
| `IntakeState` | the intake record: seeding, migration, merge, completion (operators) |
| `Branching` | extends it: the question bank, what is asked next, routing (operators) |
| `Scoring` | extends it: the drivers, the score, the action plan (operators) |
| `IntakePage` | extends it: the page, its drafts, timer and saves, and the stored record |
| `MCIntakePage` | its small instances |
| `IntakePageProofs` | theorems about `IntakePage`: what it saves |
| `IntakePlanProofs` | extends it: theorems about what it tells the owner, the plan and the scores |

Operators named after a definition with a suffix, under a comment that begins
with "Mutant", are faulty versions of it.  No specification uses them; each is
the change that breaks the property `PROJECT.json` pairs it with.

### Payments

A step is one access to a file or a table and the local work around it.  `pc`
says which access a thread makes next: `append` (`append_order`); `read` and
`rewrite` (the two halves of `mark_order_paid`, whose copy of the file is
`rows`); `claim` (`claim_finalization`); `grant` (`grant_entitlement`);
`receipt` (the mail).  The threads of the pool run `CreateCheckoutSession` and
`SuccessPage`; the webhook runs on `Loop`, one at a time, since it does not
await once it has the body.  Stripe is the environment: it opens, completes and
renews, remembers every event it emitted and may deliver any of them again at
any time.  `ledger` keeps, per session, whether the order is absent, pending or
paid; an entitlement row keeps its status, the session it came from and its
subscription, which is named by the session that started it.  `Stop` is an
exception of a store or the end of the process: the handler is over, its writes
stay.  Left out: e-mail addresses, amounts, audit records, rate limits, and
whether Stripe's own calls fail before anything is written.

The history variables: `recorded` (orders once appended), `grants` and
`receipts` (how often each side effect ran).

### SignIn

Challenges are numbered in the order they are minted, so the newest open one
(`ORDER BY created_at DESC`) is the one with the greatest number.  A request
carries the number of the challenge whose code it was sent, or 0 for a wrong
code; a link carries its challenge.  Steps: `mint` (`create_challenge`, after the
throttle was read), `select` and `attempt` (`verify_code`: SQLite takes the
write lock at the first UPDATE, so the SELECT before it is a step of its own and
the two UPDATEs with the commit are one), `peek` and `consume`
(`consume_token`), `find` and `insert` (`find_or_create_owner`), `lookup` and
`link` (the claim in `_complete_auth`), `session` (`create_session`).  The
failed insert of an owner (the email is UNIQUE) ends the request with its
challenge spent.  Time is a clock that `Tick` advances; `Stop` restarts the
server: all requests are gone and the database stays.  Left out: hashing and
signatures, the per-IP limiter, the gate, and the mail, whose failure leaves
the row as it is.

### ProjectStore

A request is the sequence of its file accesses (`Program`): what the route's
access check reads, what `get_project` reads, then each replaced file in the
order the store writes them.  `todo` holds the steps a request has left and
`seen` what it read, which is what it writes back.  `files` says which files
exist; `project`, `intake`, `analyses` and `latest` hold what the properties
tell apart: the count and the latest id, who answered each field and which
snapshots are kept, and which analyses the log and the latest file hold.  Of
`profile.json` and `successors.json` only their presence is kept.  A deletion
lists the directory, unlinks what it listed in any order, and removes the
directory; a write makes the directory again, an append does not.  A
replacement is one step, because its rename is: the temporary file beside it can
make a deletion fail, which the model reaches by the replacement itself, or be
deleted, which is one of the failures of `Fail`.  A request that misses the
project ends in an error, but for an analysis whose project went after the
access check: it is answered without a stored analysis, and nothing is written.
`met` is history: the requests
that were served while another one was.  Left out: reads that change nothing
(export, lists), the audit log, names and profiles, the model calls before an
analysis is stored, and who owns the project.

### HarnessLoop

One action per step of `Orchestrator.run`: `Plan`, the handshake (`Propose`,
`Accept`, `Reject`), `StopAtBound` and `StartBuild` (the top of the loop),
`Build`, `Evaluate`, `DecidePass`, `DecideFail`, and the endings `Complete` and
`Abort`, which save the phase and then write the report.  `mem` is the
`LoopState` in memory and `saved` what `loop_state.json` holds of it;
`contract`, `completion` and `abortion` hold the number of the run that wrote
each file, because `reset_run_state` deletes none of them.  `Crash` ends the run
between any two steps; `TimePasses` exceeds the wall-clock limit.  The `abort`
command is another process with `cli` as its state: it loads the saved state
(`LoadForAbort`), saves it as ABORT (`SaveAborted`) and then writes the abort
report (`ReportAborted`), or dies before either (`AbortDies`), while runs go on,
end or begin.  Between its two writes, or after such a death, a completed run
has ABORT saved beside its completion report and no abort report; `overrun` is
history, the run the command last saved over, so that `ReportMatchesStatus`
admits that state and no other disagreement.  Agents are their answers: the
Evaluator accepts or rejects, judges PASS or FAIL, and every model call costs up
to `CallCost`.  A PASS implies the design review passed (`evaluator_agent.py`
171-185); the report of a FAIL may still contain the words `orchestrator.py` 89
searches for, as it quotes the page.  The divergence score is 0 or 20 percent,
since the Evaluator's template rules the other warnings out.  Left out: what the
agents write, the app server, the event log and the handoff summary.

### JobRegistry

A caller is a thread of any process: the API, MCP, the command line, or the
scheduler.  `disk` is `jobs.json`: a list of jobs, an emptied file, or one that
two writers left unparsable; `list_jobs` takes the last two for an empty list
(`Read`).  An update reads the job (`mine`), reads the whole list again and puts
the job in it (`Merge`, the copy is `list`), opens the file, which empties it
(`Truncate`), and writes (`Flush`).  `pc` says what a caller does next, and
`after` what it does once its update is written.  `RunJob` is
`run_job_with_optional_prefect` or, as `"direct"`, a call of
`run_registered_job`: `StartRun`, `Started` (the job is read once more, before the
`try`), `Work`, `FinishRun`, and `Reread` for the MCP tools.  An exception leaves
`run_registered_job` by `Raise`, and the scheduler calls it again while it has
retries `left`.  The caller learns of an error but not of what kind: `api.py`
96-104 answers every KeyError with 404 and every PermissionError with 403, those
of the registry and, since `job_runner.py` 51-53 raises them again, those of the
work, so a request that was told 404 or 403 may have had a run started.  Besides, an exception of `finish_run` inside the `try` is recorded as a
failure of the run (`FinishFails`).  `Crash` is the end of a caller at any point.
What the work of a run does is `HarnessLoop`; here it is one of the endings its
kind has (`Endings`).  A job record keeps its approval, its status, the status of
each run and which run was last; names, plans, errors and times are left out.
History: who began which run, how it ended, which jobs were approved, which runs
lost their process, which jobs were started while a run of theirs was
unfinished, whether two updates ever overlapped or a process died in one
(`disturbed`), and whether an error ever left a request, to the scheduler or to
the caller, whose last run had not failed (`misled`).  Errors of the file system
on `jobs.json` itself are left out.

### The intake: IntakeState, Branching, Scoring

The three modules are the pure functions of `storage/intake_state.py`,
`intake/branching.py`, `intake/questions.py`, `services/scoring.py` and
`services/action_plan.py`, each extending the one before.  A field is a value
and a status.  A value is the set of its marks: `{}` is None, the empty string
and the empty list, which the code treats alike, a choice or a number is the set
of that one mark, a text the set of the words something looks for in it. `Marks`
are the finite sets of strings; `OwnMarks` names those the code writes itself,
all of them strings, since the provers do not know a quoted word for a member of
`STRING`.  `Field` and `NormalizeField` turn an answer without a value into a
gap; `Seed` fills a field from the flat profile of the classic page;
`MigrateProfile` keeps what is a field and seeds what is missing;
`MergeIntakePatch` migrates and patches. `Asked` (the questions a section
shows), `SectionComplete`, `NextQuestion` and `Resume` are the plan the page
follows; the next question is the first open one in the order of `Places`, a
section and a place in it.  `DriverOf` counts a driver in twentieths of a point,
the finest step an answer makes, and `Tenths` rounds as Python does; `Weight` is
e^(5 - s) in ten thousandths, with which the score agrees with the code's on all
but 9 of the 926,640 tuples of driver scores that answers can produce.

Left out of the record: time stamps, notes, confidence, uploads, disclosure
controls and the derived part, which are carried along unread.  Left out of the
plan and the score: wording, rationales, the handoff package, and the successor
scorecard.

### IntakePage

`fields` and `snapshots` are what the server stores; the variables from `step` to
`offered` are the state of the page's component, where `busy` says which request
the busy flag waits for.  A save is a call: sent (`Autosave`,
`SaveAndContinue`), carried out (`PutIntake`), answered (`ContinueSaved`,
`AutoSaved`) or failed (`CallFails`, `SaveFailed`); calls under way together are
carried out and answered in any order.  The timer of the debounce effect keeps
what its callback closed over: whether the page was busy, and the section it
asked.  The drafts it sends are those of the moment it runs out, because each
change of them sets it anew.  `Reopen` closes the page and opens it again: what
is on its way becomes an orphan, which the server may still carry out.
`Complete` is the "I've done this" of the report, from the plan the page
`offered`, however old.

History: `word`, the owner's last word on each question, entered or clicked;
`newest`, the last save carried out for a question; `clicked`, the steps done
and not answered since; and `exposed`, the questions whose last word was put at
risk.  A question becomes exposed when a Continue clears a draft it did not
send, when an older save is carried out after a newer one, when a step is
clicked while its question has a draft or a save under way, and when the page
closes over a draft that is not stored or a save with an older word; it is no
longer exposed when it is answered again with no save of it under way.

Requests of one project are carried out one at a time here: what happens when
they overlap is `ProjectStore`.  The owner of the project is taken as signed in
when the plan is used.  Left out: the notes and confidence of an answer, uploads, the
data control centre, bookings, and a second project begun while one is
remembered.

## Runs

| Run | Instance | Shows |
|---|---|---|
| `payments` | one owner who buys the subscription twice, one pool thread beside the webhook, at most one stopped handler | types; access is paid for; the claim is taken only for a recorded order; a claimed session is granted unless a handler stopped; foreign or old events do not take access away; suspended access does not reopen by itself; `Purchases` is implemented |
| `payments_ledger` | the same owner, one pool thread beside the webhook, no stopped handler | violation: an order is lost by the rewrite of the ledger |
| `payments_exactly_once` | the same with at most one stopped handler | violation: a stopped handler leaves a claim whose side effects never run |
| `sign_in` | two owners, one project, two requests at a time, two challenges | types; one session per challenge; spent challenges are accounted for; links were asked for |
| `sign_in_throttles` | one owner, two requests at a time, three challenges, three instants | each of the three limits is overrun by one per extra request at most |
| `sign_in_claim` | as `sign_in` | violation: one project gets two holders |
| `project_store` | three requests of any kind, two at a time, on two fields and one snapshot; at most one stops half way and a request patches at most one field | types; acknowledged analyses stay; the count and the ids never run ahead of the log; what was acknowledged without meeting another request stays, an answer until it is given again, a snapshot until it is pushed out; such a deletion is final |
| `project_delete` | the same | violation: a deleted project is written again |
| `harness_loop` | two runs, three handshake rounds, three builds of at most four | types; completion is earned; cost overrun is bounded; report and saved phase agree but for what the abort command saves over them; `GoalRun` is implemented; a run takes a bounded number of steps, and ends |
| `job_registry` | two callers, a goal job and a publish job that requires approval, two runs, two calls, one retry, one death | types; only approved jobs run; a recorded success is one; without overlapping updates the file tells how every run ended, the status of a job is that of its last run, an error of a request whose run was started is the failure of that run, and an approval stays |
| `intake_page` | a new owner, or one whose record lacks the family's alignment and the readiness to let go; four answers, of which two are entered; two saves, one failure, one report, one step of the plan | types; the last word is kept; the readings of the record agree; the record changes only where the owner spoke; a completed step helps its driver and takes nothing from another |
| `intake_undone` | the same with the step that a draft can undo | violation: a completed step does not stay done |

The bounds.  Two sessions are enough for one to replace the other in the row of
an owner and product, the only place where sessions meet apart from the ledger,
and two threads for each race, since every race here is between a reader and one
writer.  One stopped handler loses a claim; a second one does nothing the first
did not.  Two requests and two challenges let two owners race for a project, one
owner race with itself for the insert, and a code race with a link; three
challenges in the throttle run let a fresh challenge follow an exhausted one
inside and outside the window.  Three requests to a project let two of them race
before or after a third, or let all three follow one another; two fields let a
patch lose the answer it does not carry, and one snapshot is pushed out by the
next.  A patch of two fields takes the same steps as a patch of one.  In
`harness_loop` the limits differ from one another so that each stops some run,
the minimum equals the sprint limit so that a PASS can be blocked up to the last
build, and two runs leave the first one's files to the second.  Two callers are
enough for each race on `jobs.json`, which is between a copy and one writer; two
runs let a job be run twice, or a retry follow a failure.  In `intake_page` two
saves let a Continue meet an autosave in either order, the four answers open and
close the family section, leave a gap and beat the good value of the step that
may be clicked, and the two owners see the page with and without a project.
`MaxFailures` of `Payments`, `MaxChallenges`, `MaxTime` and `MaxRuns` bound what
the code does not; the theorems hold for all of their values.  `MaxActive`,
`MaxPatch` and `MaxFailures` of `ProjectStore` are such bounds too, and so are
`MaxCalls`, `MaxDeaths` and `MaxRuns` of `JobRegistry` and all four of
`IntakePage`.

Symmetry: the requests of `SignIn` are interchangeable, and so are its two
owners; its runs check invariants only.  In `payments` the two sessions are,
since one owner starts both for one product; its two temporal properties are
safety properties that name no session.  The requests of `ProjectStore`, and its
fields, are interchangeable; its runs check invariants only.  So are the callers
of `JobRegistry`, whose run checks invariants only.

Fairness: only `HarnessLoop` has a liveness property, under weak fairness of
`RunStep`.  The loop is one thread that nothing blocks but the calls it makes.
The model client has a timeout of its own (`llm_client.py` 94), the wait for the
app server too (`orchestrator.py` 82), and the browser script bounds its
navigation (`evaluator_browser.js` 45), so a step that is possible is taken in
the end or the run crashes.  The bridge itself waits for the script without a
limit (`puppeteer_bridge.py` 18): that the script returns is what fairness
assumes here.  Nothing is assumed of the Evaluator's answers, of crashes or of
the abort command.

## What the violations show

1. `payments_ledger`: `mark_order_paid` reads the ledger and later replaces it,
   so `POST /checkout` may append in between and lose its order; the payment
   then finds no order, and the owner no access.  The docstring calls the
   read-modify-write fine because the file is small.
2. `payments_exactly_once`: the claim is committed before the side effects.  The
   docstring says they run exactly once; the code guarantees at most once
   (`AtMostOnceFinalization`), and exactly once only for handlers that do not
   stop (`FinalizedUnlessStopped`).
3. `sign_in_claim`: the claim of a project reads and writes in two transactions
   on a table keyed by owner and project.  The comment says a project is never
   given to a second owner; the code guarantees that both asked (`LinkWasAsked`).
4. `project_delete`: a request that found the project, and then writes after
   its deletion was acknowledged, makes the directory again.  The docstring
   says the deletion removes all stored data and is irreversible; the code
   guarantees it for a deletion that meets no other request
   (`DeletedAloneIsGone`).  What comes back may be one file without
   `project.json`, which every route answers with 404.
5. `intake_undone`: the drafts outlive the report.  An owner who answers a
   question, goes to the report before the draft is saved, clicks "I've done
   this" on the step that asks it, and goes back to the questions has the old
   draft sent over the step.  The plan says that a completed step is marked done
   and the score is computed again; the code guarantees it until a draft or a
   save of the same question follows.

Two more disagreements need no run.  The comment in `action_plan.py` 38-39 says
that moving a field to its good value provably raises the score.  Its driver never
falls (`CompletingHelps`), but a weak driver weighs more than a strong one, so
the weighted mean may: drivers at 2, 1, 1, 1 and 1 give 22, and at 3, 1, 1, 1 and
1 they give 21.  And a plan the Evaluator accepts in the last allowed round of
the handshake becomes the contract while the loop aborts with "contract handshake
limit reached", where the state diagram of the repository's README leads from
CONTRACT_READY to BUILD; `HarnessLoop` has the code's behaviour.

## Theorems

All are proved for every value of the constants that satisfies the named
assumptions of the modules (`CatalogAssumption` and `NamesAssumption`,
`NumbersAssumption` and `SetsAssumption`, `StoreAssumption`, `KnobsAssumption`,
`RegistryAssumption`, `PageAssumption`): any number of owners, sessions, threads,
challenges, requests, jobs, runs, answers and saves, and any limits.

`PaymentsProofs`.  The invariant adds to the checked ones where each thread
stands: a thread that reads, rewrites or claims works on a completed session; a
thread past the claim is the only one for its session, whose claim is taken and
which is not yet granted (or, before the receipt, granted once and not yet
notified); every row of the ledger, and of every thread's copy, belongs to a
recorded order.  It is needed because "granted at most once" says nothing of the
thread that is about to grant.  From it follow all properties of `payments`, and
that each step of `Payments` is a step of `Purchases` or leaves it alone.

`SignInProofs`.  `HandInv` says what a thread in the middle of a sign-in holds: a
minted challenge of the email it serves, spent once it completes.  `SpendInv`
says that no two threads complete the same challenge and no session has come
from it, and `InsertInv` that an owner who appeared since a thread looked was
inserted by a sign-in with another challenge, which is what the last disjunct of
`SpentMeansSignedIn` needs.  Two lemmas carry most actions: `QuietStep` (a
thread before its first write disturbs nobody) and `SpendStep`.  `AttemptCap`
rests on an invariant of its own, `CapInv`: the attempts of a challenge plus the
threads that have read it and not yet counted stay within the cap plus the
extra threads.  `MintCap` rests on `MintInv`, which says the same of the recent
challenges of an email and the threads that counted them and have yet to mint;
the clock only takes challenges out of the window.  `GuessCap` rests on
`GuessInv`, the same once more for the guesses at an email: the sum of the
attempts over its recent challenges is stated as the number of pairs of a
challenge and an attempt at it (`Guesses`), so that one more attempt is one more
member of a finite set and a fresh challenge adds none.

`ProjectStoreProofs`.  `Orderly` says what the steps a request has left may be:
reads come before the append to `analyses.jsonl`, what names the new analysis
comes after it, and only a deletion lists or unlinks.  It holds of every program
(`ProgramOrderly`) and of its tail after a step (`TailOrderly`); `Logged` ties it
to the log, so that the step a request takes tells whether its analysis is in
the log, and says that `project.json` stays, so that no analysis is answered
unstored.  `AnalysesKept` follows.  `CountNeverAhead` needs more: `Counted` says
that the copy of `project.json` a request holds counts, and names, only analyses
in the log other than its own, so that one more is right when it counts itself.

`ProjectAloneProofs`.  The other four properties are about requests that met no
other one, while those after it may meet each other and stop anywhere.
`NextCases` splits a step once for all: a request starts, goes on by one step of
its program, or gives up.  `Sound` says what every program keeps to
(`ProgramSound`): whatever writes a file has read it in the same program
(`ReadFirst`), and reads it again before it writes it again (`Rereads`).  So a
request that has yet to read a file cannot write an old copy of it, and what
remains to be said is said of the file and of the copies in hand: they hold the
answer (`AnswersStand`), the snapshot or enough later ones (`Pictured` and
`SnapshotsStand`; `NeatCount` counts snapshots of different analyses), or the
same books as the file (`Booked`, which holds until an analysis meets another
request or stops).  For a deletion that met nobody (`Gone`), whoever is running
afterwards has not looked for the project yet, and will not find it.

`HarnessLoopProofs`.  The invariant ties the counters in memory to the history
(builds made, rounds used), to the cost log and to the files by step.  From it
follow the four invariants of `harness_loop` and the refinement of `GoalRun`.
`RunsDown` is the part of `RunEnds` that needs no fairness: `StepsLeft` counts
two steps for each round left, four for each build left and two for the ending,
every step of the run lowers it, and it never falls below zero, so that no run
takes more than `MostSteps` steps.  That the run does take its next step is what
fairness adds, and TLC checks.

`JobRegistryProofs`.  The registry is rewritten from copies, so the invariant
says of every copy what it says of the file: `TableOk` holds of `disk.jobs` and of
each caller's `list`, and `RecOk` of the record in its hand.  A record that is
approved belongs to a job somebody approved, and a run recorded as succeeded is
a run of that job whose work succeeded.  However late a copy is written back, or
by whom, the file then says nothing that was never true.

That it says all that is true is what overlapping updates break, so `TInv` holds
`Tells` until two updates overlap.  `Accounts` states what a list tells: how each
run stands (`RunsTold`), whose run it is (`JobsTold`), which jobs are approved
(`ApprovalsTold`) and what a job's status follows (`StatusTold`).  The file tells
all of it but for the run or approval that an update is about to record; a caller
about to merge holds the job as the file has it with that one change
(`MergeTells`), and a list about to be written already tells the file after it
(`ListTells`).  `StillStep` carries the actions that touch no account,
`BeginStep` those that begin an update, and `MergeKeeps`, `TruncateKeeps` and
`FlushKeeps` its three steps.  `AccountsAreTrue`, `StatusFollowsLastRun`,
`FailuresAreReal` and `ApprovalsStay` follow; the third rests on the same: a run
that is told to exist is found by `finish_run`, so that no KeyError comes after
the work.

`IntakePageProofs`.  `Frame` says that a Continue is under way only while the
page waits for it, that there is never a second, and that calls have different
numbers.  That the record changes only on the owner's words (`RecordIsOwners`)
follows from it and from `MergePatches`: a merge replaces the fields of the
patch and leaves the others, because a record that was normalised once
(`Settled`) is left alone by every later migration (`MigrationIsIdempotent`,
with any profile).  A save delivered twice in a row is one
(`MergeIsIdempotent`), and saves of different questions may change places
(`MergesCommute`).  `NoWordLost` needs more, since "held or stored" says nothing
of the saves that could still change it. `SentAgrees` says that, once a word is
off the page, a save on its way carries that word or was overtaken.  The drafts
go when a Continue is answered, so the rest is about that moment: what the
Continue sent is stored (`SavedStored`), and what was sent after it agrees with
it (`LaterAgrees`), because a timer set before it saw the same drafts
(`DraftsSent`) and one set after it sends nothing, the page being busy.

`IntakePlanProofs`.  Three theorems about all answers the page can send, resting
on the facts above about stored records.  `PlanIsCoherent`: every field is asked
in some place (`EveryFieldAsked`), the next question is the first open place
(`NextQuestionFirst`, chosen as the least of a finite set) and the section
an owner returns to is the first incomplete one (`ResumeFirst`); a count of
fields that is all of them is a percentage of 100, and no other is
(`FieldsCounted`, `FullPercentage`).  `IntakeTypeCorrect`: each driver stays
between 0 and 100 twentieths (`DriverOfBounds`) and the weighted mean of five such
scores between 0 and 100 (`UnifiedBounds`), for any positive weights.
`ClicksHelp`: for each driver, a record whose fields are as before or at their
good values has no lower driver (`FinancialGrows` and the four after it; `Tenths`
and `Clamp` are monotone), and a click changes one field, to its good value
(`ClickChanges`).

Which property is proved where:

| Run | Proved of its properties | Left to TLC |
|---|---|---|
| `payments` | all | |
| `sign_in`, `sign_in_throttles` | all | |
| `project_store` | all | |
| `harness_loop` | all safety properties and the refinement | `RunEnds`: liveness under fairness |
| `job_registry` | all | |
| `intake_page` | all | |

The five runs that end in a violation have nothing to prove.  That the weights of
`Scoring` are those of the code is arithmetic, compared as said above, and not a
theorem; the theorems use of them only that they are positive.

Three definitions were put in another form for the provers, with the same
meaning: the next question is chosen from a set of places instead of a
concatenated sequence, the score adds five named drivers instead of folding over
them, and the guesses are counted instead of summed.

## Not modelled, and the plan

Done: `Payments`, `SignIn`, `ProjectStore`, `HarnessLoop`, `JobRegistry` and the
intake, and a theorem for every safety property of their runs.  Next, in this
order:

1. `Access`: sessions, expiry, logout and `require_project_access`, composed with
   the links of `SignIn`, and with the deletion of a project.
2. `IntakePage` composed with the requests of `ProjectStore`: two tabs, or a save
   that meets an analysis, where `AnswersKept` only speaks of requests that met
   none.
3. `JobRegistry` composed with two loops of `HarnessLoop` in one workspace.

Not planned: the text the reasoning services, the agents and the mailer write,
the successor scorecard, request validation, the presentation layer, and the
first MVP, which hold no state that steers anything; the harness's stores of
trust, memory, connectors and autonomy, whose operations each write one file
and from which the loop decides nothing.
