------------------------------- MODULE SignIn -------------------------------
(***************************************************************************)
(* Passwordless sign-in: challenges, their code and their link, the        *)
(* throttles, the owner record and the claim of the project the owner      *)
(* filled in before signing in.                                            *)
(*                                                                         *)
(* All handlers are synchronous, so each request runs on a thread of its   *)
(* own.  They share auth.db: a SELECT is a step, and the statements from   *)
(* the first write to the commit are one step, since SQLite then holds the *)
(* write lock.  What a handler read in an earlier step may be stale.       *)
(* Owners are named by their email, which is unique in the owners table.   *)
(***************************************************************************)
EXTENDS Naturals, FiniteSets

CONSTANTS
    Emails,         \* normalized addresses
    NoEmail,        \* the email of a thread that serves no request
    Projects,       \* stored projects a challenge may name
    NoProject,      \* a challenge that names none, or one that is not stored
    Threads,        \* concurrent requests
    MaxAttempts,    \* MAX_CODE_ATTEMPTS, per challenge
    RateMax,        \* EMAIL_RATE_MAX, challenges per email and window
    VerifyMax,      \* EMAIL_VERIFY_MAX, guesses per email and window
    Window,         \* EMAIL_RATE_WINDOW_MIN
    CodeTTL,        \* lifetime of the code
    LinkTTL,        \* lifetime of the link
    MaxChallenges,  \* bound: challenges ever minted
    MaxTime         \* bound: last instant of the clock

ASSUME NumbersAssumption ==
    /\ MaxAttempts \in Nat \ {0}
    /\ RateMax \in Nat \ {0}
    /\ VerifyMax \in Nat \ {0}
    /\ Window \in Nat
    /\ CodeTTL \in Nat
    /\ LinkTTL \in Nat
    /\ MaxChallenges \in Nat
    /\ MaxTime \in Nat

ASSUME SetsAssumption ==
    /\ IsFiniteSet(Threads)
    /\ NoEmail \notin Emails
    /\ NoProject \notin Projects

VARIABLES
    clock,
    \* auth.db
    minted,         \* auth_challenges holds challenges 1 .. minted
    challenge,      \* what each was minted with
    attempts,       \* attempts[c]
    consumed,       \* challenges with consumed_at set
    owners,         \* emails with a row in owners
    links,          \* owner_projects
    \* the requests
    pc, at, typed,  \* next step, challenge in hand, code the caller sent
    who, asked,     \* the email of the request and the project it names
    \* history
    signIns,        \* signIns[c]: sessions issued from challenge c
    lost            \* challenges whose sign-in a stop of the server cut short

authVars == <<minted, challenge, attempts, consumed, owners, links>>
requestVars == <<pc, at, typed, who, asked>>
vars == <<clock, authVars, requestVars, signIns, lost>>

-----------------------------------------------------------------------------
Ids == 1 .. MaxChallenges

\* The code a caller sends: that of a challenge, or (0) one that matches none.
Codes == 0 .. MaxChallenges

Named == Projects \cup {NoProject}
Challenges == [email : Emails, project : Named, created : 0 .. MaxTime]

Steps == {"idle", "mint", "select", "attempt", "peek", "consume",
          "find", "insert", "lookup", "link", "session"}

TypeOK ==
    /\ clock \in 0 .. MaxTime
    /\ minted \in 0 .. MaxChallenges
    /\ challenge \in [1 .. minted -> Challenges]
    /\ attempts \in [Ids -> Nat]
    /\ consumed \subseteq 1 .. minted
    /\ owners \subseteq Emails
    /\ links \subseteq owners \X Projects
    /\ pc \in [Threads -> Steps]
    /\ at \in [Threads -> 0 .. minted]
    /\ typed \in [Threads -> Codes]
    /\ who \in [Threads -> Emails \cup {NoEmail}]
    /\ asked \in [Threads -> Named]
    /\ signIns \in [Ids -> Nat]
    /\ lost \subseteq consumed

Init ==
    /\ clock = 0
    /\ minted = 0
    /\ challenge = [c \in 1 .. 0 |-> 0]
    /\ attempts = [c \in Ids |-> 0]
    /\ consumed = {}
    /\ owners = {}
    /\ links = {}
    /\ pc = [t \in Threads |-> "idle"]
    /\ at = [t \in Threads |-> 0]
    /\ typed = [t \in Threads |-> 0]
    /\ who = [t \in Threads |-> NoEmail]
    /\ asked = [t \in Threads |-> NoProject]
    /\ signIns = [c \in Ids |-> 0]
    /\ lost = {}

-----------------------------------------------------------------------------
(* The queries *)

MintedFor(e) == {c \in 1 .. minted : challenge[c].email = e}
Recent(e) == {c \in MintedFor(e) : challenge[c].created + Window >= clock}

RecentChallengeCount(e) == Cardinality(Recent(e))
\* SUM(attempts) over the recent challenges, as the number of their guesses.
Guesses(e) == UNION {{c} \X (1 .. attempts[c]) : c \in Recent(e)}
RecentAttemptTotal(e) == Cardinality(Guesses(e))

Open(e) == MintedFor(e) \ consumed
NewestOpen(e) == {c \in Open(e) : \A d \in Open(e) : d <= c}

CodeLive(c) == clock < challenge[c].created + CodeTTL
LinkLive(c) == clock < challenge[c].created + LinkTTL

-----------------------------------------------------------------------------
(* Requests *)

Begin(t, step, e, p, c, code) ==
    /\ pc[t] = "idle"
    /\ pc' = [pc EXCEPT ![t] = step]
    /\ who' = [who EXCEPT ![t] = e]
    /\ asked' = [asked EXCEPT ![t] = p]
    /\ at' = [at EXCEPT ![t] = c]
    /\ typed' = [typed EXCEPT ![t] = code]

Goto(t, step) ==
    /\ pc' = [pc EXCEPT ![t] = step]
    /\ UNCHANGED <<at, typed, who, asked>>

\* The request is answered, and its locals are gone.
Return(t) ==
    /\ pc' = [pc EXCEPT ![t] = "idle"]
    /\ at' = [at EXCEPT ![t] = 0]
    /\ typed' = [typed EXCEPT ![t] = 0]
    /\ who' = [who EXCEPT ![t] = NoEmail]
    /\ asked' = [asked EXCEPT ![t] = NoProject]

\* Mutant: only the challenges still open count.
RequestCodeOpenOnly(t, e, p) ==
    /\ Cardinality(Recent(e) \cap Open(e)) < RateMax
    /\ Begin(t, "mint", e, p, 0, 0)
    /\ UNCHANGED <<clock, authVars, signIns, lost>>

\* POST /auth/request: over the cap it answers the same and mints nothing.
RequestCode(t, e, p) ==
    /\ RecentChallengeCount(e) < RateMax
    /\ Begin(t, "mint", e, p, 0, 0)
    /\ UNCHANGED <<clock, authVars, signIns, lost>>

\* create_challenge.  The mail that follows may fail: the row stays either way.
CreateChallenge(t) ==
    /\ pc[t] = "mint"
    /\ minted < MaxChallenges
    /\ minted' = minted + 1
    /\ challenge' = [c \in 1 .. minted + 1 |->
            IF c = minted + 1
              THEN [email |-> who[t], project |-> asked[t], created |-> clock]
              ELSE challenge[c]]
    /\ Return(t)
    /\ UNCHANGED <<clock, attempts, consumed, owners, links, signIns, lost>>

\* Mutant: a fresh challenge starts the count again.
SubmitCodeNewestOnly(t, e, code) ==
    /\ \A c \in NewestOpen(e) : attempts[c] < VerifyMax
    /\ Begin(t, "select", e, NoProject, 0, code)
    /\ UNCHANGED <<clock, authVars, signIns, lost>>

\* POST /auth/verify: the guess ceiling is read before the code is looked at.
SubmitCode(t, e, code) ==
    /\ RecentAttemptTotal(e) < VerifyMax
    /\ Begin(t, "select", e, NoProject, 0, code)
    /\ UNCHANGED <<clock, authVars, signIns, lost>>

\* Mutant: no cap on the attempts of a challenge.
TakesCodesUncapped(c) == CodeLive(c)

TakesCodes(c) == CodeLive(c) /\ attempts[c] < MaxAttempts

\* verify_code reads the newest open challenge ...
SelectChallenge(t) ==
    /\ pc[t] = "select"
    /\ LET found == {c \in NewestOpen(who[t]) : TakesCodes(c)}
       IN  \/ \E c \in found :
                /\ pc' = [pc EXCEPT ![t] = "attempt"]
                /\ at' = [at EXCEPT ![t] = c]
                /\ UNCHANGED <<typed, who, asked>>
           \/ found = {} /\ Return(t)
    /\ UNCHANGED <<clock, authVars, signIns, lost>>

\* ... and in one transaction counts the attempt, compares the code and
\* consumes the challenge if it is still open.
AttemptCode(t) ==
    /\ pc[t] = "attempt"
    /\ attempts' = [attempts EXCEPT ![at[t]] = @ + 1]
    /\ \/ /\ typed[t] = at[t]
          /\ at[t] \notin consumed
          /\ consumed' = consumed \cup {at[t]}
          /\ Goto(t, "find")
       \/ /\ typed[t] # at[t] \/ at[t] \in consumed
          /\ Return(t)
          /\ UNCHANGED consumed
    /\ UNCHANGED <<clock, minted, challenge, owners, links, signIns, lost>>

\* POST /auth/confirm with the link of challenge c.
ConfirmLink(t, c) ==
    /\ c <= minted
    /\ Begin(t, "peek", challenge[c].email, NoProject, c, 0)
    /\ UNCHANGED <<clock, authVars, signIns, lost>>

\* consume_token reads the row ...
PeekToken(t) ==
    /\ pc[t] = "peek"
    /\ IF at[t] \notin consumed /\ LinkLive(at[t])
         THEN Goto(t, "consume")
         ELSE Return(t)
    /\ UNCHANGED <<clock, authVars, signIns, lost>>

\* Mutant: the UPDATE does not ask that the challenge be still open.
ConsumeTokenUnguarded(t) ==
    /\ pc[t] = "consume"
    /\ consumed' = consumed \cup {at[t]}
    /\ Goto(t, "find")
    /\ UNCHANGED <<clock, minted, challenge, attempts, owners, links, signIns, lost>>

\* ... and consumes it if no other request has.
ConsumeToken(t) ==
    /\ pc[t] = "consume"
    /\ \/ /\ at[t] \notin consumed
          /\ consumed' = consumed \cup {at[t]}
          /\ Goto(t, "find")
       \/ /\ at[t] \in consumed
          /\ Return(t)
          /\ UNCHANGED consumed
    /\ UNCHANGED <<clock, minted, challenge, attempts, owners, links, signIns, lost>>

\* Mutant: the owner is taken to exist.
FindOwnerAssumed(t) ==
    /\ pc[t] = "find"
    /\ Goto(t, "lookup")
    /\ UNCHANGED <<clock, authVars, signIns, lost>>

\* _complete_auth: find_or_create_owner reads the owner ...
FindOwner(t) ==
    /\ pc[t] = "find"
    /\ Goto(t, IF who[t] \in owners THEN "lookup" ELSE "insert")
    /\ UNCHANGED <<clock, authVars, signIns, lost>>

\* ... and inserts it.  The email is UNIQUE, so a second insert raises and the
\* request ends without a session, its challenge spent.
InsertOwner(t) ==
    /\ pc[t] = "insert"
    /\ owners' = owners \cup {who[t]}
    /\ IF who[t] \in owners THEN Return(t) ELSE Goto(t, "lookup")
    /\ UNCHANGED <<clock, minted, challenge, attempts, consumed, links, signIns, lost>>

\* Mutant: the project of the latest challenge.
ProjectOfLatest(t) == challenge[minted].project

ProjectOf(t) == challenge[at[t]].project
Holders(p) == {e \in owners : <<e, p>> \in links}

\* Mutant: a claim that fails refuses the sign-in.
LookupOwnerRefuses(t) ==
    /\ pc[t] = "lookup"
    /\ IF ProjectOf(t) # NoProject /\ Holders(ProjectOf(t)) \ {who[t]} # {}
         THEN Return(t)
         ELSE Goto(t, IF ProjectOf(t) = NoProject THEN "session" ELSE "link")
    /\ UNCHANGED <<clock, authVars, signIns, lost>>

\* owner_for_project: whichever row LIMIT 1 returns.
LookupOwner(t) ==
    /\ pc[t] = "lookup"
    /\ \/ /\ ProjectOf(t) \in Projects
          /\ \/ Holders(ProjectOf(t)) = {}
             \/ who[t] \in Holders(ProjectOf(t))
          /\ Goto(t, "link")
       \/ /\ \/ ProjectOf(t) = NoProject
             \/ Holders(ProjectOf(t)) \ {who[t]} # {}
          /\ Goto(t, "session")
    /\ UNCHANGED <<clock, authVars, signIns, lost>>

\* link_project, keyed by owner and project.
LinkProject(t) ==
    /\ pc[t] = "link"
    /\ links' = links \cup {<<who[t], ProjectOf(t)>>}
    /\ Goto(t, "session")
    /\ UNCHANGED <<clock, minted, challenge, attempts, consumed, owners, signIns, lost>>

IssueSession(t) ==
    /\ pc[t] = "session"
    /\ signIns' = [signIns EXCEPT ![at[t]] = @ + 1]
    /\ Return(t)
    /\ UNCHANGED <<clock, authVars, lost>>

Completing == {"find", "insert", "lookup", "link", "session"}

\* The server stops and starts again: requests are gone, auth.db stays.
Stop ==
    /\ lost' = lost \cup {at[t] : t \in {u \in Threads : pc[u] \in Completing}}
    /\ pc' = [t \in Threads |-> "idle"]
    /\ at' = [t \in Threads |-> 0]
    /\ typed' = [t \in Threads |-> 0]
    /\ who' = [t \in Threads |-> NoEmail]
    /\ asked' = [t \in Threads |-> NoProject]
    /\ UNCHANGED <<clock, authVars, signIns>>

Tick ==
    /\ clock < MaxTime
    /\ clock' = clock + 1
    /\ UNCHANGED <<authVars, requestVars, signIns, lost>>

-----------------------------------------------------------------------------
Request(t) ==
    \/ \E e \in Emails, p \in Named : RequestCode(t, e, p)
    \/ \E e \in Emails, code \in 0 .. minted : SubmitCode(t, e, code)
    \/ \E c \in 1 .. minted : ConfirmLink(t, c)

RequestStep(t) ==
    \/ CreateChallenge(t)
    \/ SelectChallenge(t)
    \/ AttemptCode(t)
    \/ PeekToken(t)
    \/ ConsumeToken(t)
    \/ FindOwner(t)
    \/ InsertOwner(t)
    \/ LookupOwner(t)
    \/ LinkProject(t)
    \/ IssueSession(t)

Next ==
    \/ \E t \in Threads : Request(t) \/ RequestStep(t)
    \/ Stop
    \/ Tick

Spec == Init /\ [][Next]_vars

-----------------------------------------------------------------------------
(* Properties *)

\* A challenge signs in once, by its code or by its link: two tabs, a double
\* submit, or code and link used together yield one session at most.
SingleUse == \A c \in Ids : signIns[c] <= 1

\* The attempt cap is read before the attempt is counted, so requests that
\* read it together may pass it together, by one per extra request and no more.
AttemptsBounded ==
    \A c \in Ids : attempts[c] <= MaxAttempts - 1 + Cardinality(Threads)

\* The guesses an email gets in a window are bounded across its challenges:
\* asking for a fresh code does not start the count again.
GuessesBounded ==
    \A e \in Emails : RecentAttemptTotal(e) <= VerifyMax - 1 + Cardinality(Threads)

\* So are the challenges, and the mails, it gets.
MintingBounded ==
    \A e \in Emails : RecentChallengeCount(e) <= RateMax - 1 + Cardinality(Threads)

\* A spent challenge was spent by a request that is still completing the
\* sign-in, or that completed it, or that a stop cut short, or that lost the
\* insert of its owner to another sign-in of the same email.
SpentMeansSignedIn ==
    \A c \in consumed \ lost :
        \/ signIns[c] = 1
        \/ \E t \in Threads : at[t] = c /\ pc[t] \in Completing
        \/ /\ challenge[c].email \in owners
           /\ \E d \in consumed \ {c} : challenge[d].email = challenge[c].email

\* A project is linked only to owners who were sent a challenge that names it.
LinkWasAsked ==
    \A e \in Emails, p \in Projects : <<e, p>> \in links =>
        \E c \in consumed : challenge[c].email = e /\ challenge[c].project = p

\* auth.py says of the claim: "Never reassign a project already held by
\* someone else": a project has one holder.
OneHolder == \A p \in Projects : Cardinality(Holders(p)) <= 1
=============================================================================
