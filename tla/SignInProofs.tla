---------------------------- MODULE SignInProofs ----------------------------
(***************************************************************************)
(* Proofs about SignIn, for any emails, projects, threads and limits.      *)
(***************************************************************************)
EXTENDS SignIn, FiniteSetTheorems, TLAPS

\* A thread past "idle" holds a minted challenge of the email it serves, and one
\* that completes a sign-in has spent it.
HandInv ==
    \A t \in Threads :
        /\ pc[t] = "mint" => who[t] \in Emails
        /\ pc[t] \in {"attempt", "peek", "consume"} \cup Completing =>
              at[t] \in 1 .. minted /\ who[t] = challenge[at[t]].email
        /\ pc[t] \in Completing => at[t] \in consumed
        /\ pc[t] \in {"lookup", "link", "session"} => who[t] \in owners
        /\ pc[t] = "link" => ProjectOf(t) \in Projects

\* An owner who was not there when the thread looked was inserted by another
\* sign-in of the same email.
InsertInv ==
    \A t \in Threads : pc[t] = "insert" /\ who[t] \in owners =>
        \E d \in consumed \ {at[t]} : challenge[d].email = who[t]

\* One thread at a time completes the sign-in of a challenge, and no session
\* has been issued from it.
SpendInv ==
    /\ \A t, u \in Threads :
          pc[t] \in Completing /\ pc[u] \in Completing /\ at[t] = at[u] => t = u
    /\ \A t \in Threads : pc[t] \in Completing => signIns[at[t]] = 0
    /\ \A c \in Ids \ consumed : signIns[c] = 0

IInv ==
    /\ TypeOK
    /\ HandInv
    /\ InsertInv
    /\ SpendInv
    /\ SingleUse
    /\ SpentMeansSignedIn
    /\ LinkWasAsked

-----------------------------------------------------------------------------
(* Types *)

LEMMA IdsType == \A n \in 0 .. MaxChallenges : 1 .. n \subseteq Ids
  BY NumbersAssumption DEF Ids

\* A request's locals are five functions on the threads, and each step writes
\* one entry of each.
LocalsOK ==
    /\ pc \in [Threads -> Steps]
    /\ at \in [Threads -> 0 .. minted]
    /\ typed \in [Threads -> Codes]
    /\ who \in [Threads -> Emails \cup {NoEmail}]
    /\ asked \in [Threads -> Named]

LEMMA ReturnType ==
    ASSUME LocalsOK, NEW t \in Threads, Return(t), minted \in Nat, minted' \in Nat,
           minted <= minted'
    PROVE  LocalsOK'
<1>1. at' \in [Threads -> 0 .. minted']
  BY DEF LocalsOK, Return
<1> QED
  BY <1>1, NumbersAssumption DEF LocalsOK, Return, Steps, Codes, Named

LEMMA GotoType ==
    ASSUME LocalsOK, NEW t \in Threads, NEW step \in Steps, Goto(t, step),
           UNCHANGED minted
    PROVE  LocalsOK'
  BY DEF LocalsOK, Goto

LEMMA BeginType ==
    ASSUME LocalsOK, NEW t \in Threads, NEW step \in Steps, NEW e \in Emails,
           NEW p \in Named, NEW c \in 0 .. minted, NEW code \in Codes,
           Begin(t, step, e, p, c, code), UNCHANGED minted
    PROVE  LocalsOK'
  BY DEF LocalsOK, Begin

LEMMA InitType == Init => TypeOK
<1> SUFFICES ASSUME Init PROVE TypeOK
  OBVIOUS
<1>1. minted \in 0 .. MaxChallenges /\ clock \in 0 .. MaxTime
  BY NumbersAssumption DEF Init
<1>2. challenge \in [1 .. minted -> Challenges]
  <2>1. 1 .. 0 = {}
    OBVIOUS
  <2> QED
    BY <2>1 DEF Init
<1>3. LocalsOK
  BY NumbersAssumption DEF Init, LocalsOK, Steps, Codes, Named
<1> QED
  BY <1>1, <1>2, <1>3 DEF Init, TypeOK, LocalsOK

LEMMA TypeStep == IInv /\ [Next]_vars => TypeOK'
<1> SUFFICES ASSUME IInv, [Next]_vars PROVE TypeOK'
  OBVIOUS
<1> USE DEF IInv
<1>0. /\ TypeOK
      /\ LocalsOK
      /\ minted \in Nat
  BY NumbersAssumption DEF TypeOK, LocalsOK
<1>1. ASSUME NEW t \in Threads, NEW e \in Emails, NEW p \in Named, RequestCode(t, e, p)
      PROVE  TypeOK'
  <2>1. LocalsOK'
    BY <1>0, <1>1, BeginType, NumbersAssumption DEF RequestCode, authVars, Steps, Codes
  <2> QED
    BY <1>1, <2>1 DEF RequestCode, authVars, TypeOK, LocalsOK
<1>2. ASSUME NEW t \in Threads, NEW e \in Emails, NEW code \in 0 .. minted,
             SubmitCode(t, e, code)
      PROVE  TypeOK'
  <2>1. code \in Codes /\ NoProject \in Named
    BY <1>0, NumbersAssumption DEF TypeOK, Codes, Named
  <2>2. LocalsOK'
    BY <1>0, <1>2, <2>1, BeginType DEF SubmitCode, authVars, Steps
  <2> QED
    BY <1>2, <2>2 DEF SubmitCode, authVars, TypeOK, LocalsOK
<1>3. ASSUME NEW t \in Threads, NEW c \in 1 .. minted, ConfirmLink(t, c) PROVE TypeOK'
  <2>1. challenge[c].email \in Emails /\ NoProject \in Named /\ 0 \in Codes
    BY <1>0, NumbersAssumption DEF TypeOK, Codes, Named, Challenges
  <2>2. LocalsOK'
    BY <1>0, <1>3, <2>1, BeginType DEF ConfirmLink, authVars, Steps
  <2> QED
    BY <1>3, <2>2 DEF ConfirmLink, authVars, TypeOK, LocalsOK
<1>4. ASSUME NEW t \in Threads, CreateChallenge(t) PROVE TypeOK'
  <2>1. /\ minted' = minted + 1
        /\ minted' \in 0 .. MaxChallenges
    BY <1>0, <1>4, NumbersAssumption DEF CreateChallenge, TypeOK
  <2>2. challenge' \in [1 .. minted' -> Challenges]
    <3>1. [email |-> who[t], project |-> asked[t], created |-> clock] \in Challenges
      BY <1>0, <1>4 DEF CreateChallenge, HandInv, TypeOK, Challenges
    <3>2. \A c \in 1 .. minted + 1 : c # minted + 1 => c \in 1 .. minted
      BY <1>0
    <3> QED
      BY <1>4, <2>1, <3>1, <3>2 DEF CreateChallenge, TypeOK
  <2>3. LocalsOK'
    BY <1>0, <1>4, <2>1, ReturnType DEF CreateChallenge
  <2>4. consumed' \subseteq 1 .. minted'
    BY <1>0, <1>4, <2>1 DEF CreateChallenge, TypeOK
  <2> QED
    BY <1>4, <2>1, <2>2, <2>3, <2>4 DEF CreateChallenge, TypeOK, LocalsOK
<1>5. ASSUME NEW t \in Threads, SelectChallenge(t) PROVE TypeOK'
  <2>1. UNCHANGED <<clock, authVars, signIns, lost>>
    BY <1>5 DEF SelectChallenge
  <2>2. CASE Return(t)
    <3>1. LocalsOK'
      BY <1>0, <2>1, <2>2, ReturnType DEF authVars
    <3> QED
      BY <2>1, <3>1 DEF authVars, TypeOK, LocalsOK
  <2>3. CASE ~ Return(t)
    <3>1. PICK c \in 1 .. minted :
             /\ pc' = [pc EXCEPT ![t] = "attempt"]
             /\ at' = [at EXCEPT ![t] = c]
             /\ UNCHANGED <<typed, who, asked>>
      BY <1>5, <2>3 DEF SelectChallenge, NewestOpen, Open, MintedFor
    <3>2. LocalsOK'
      BY <1>0, <2>1, <3>1 DEF LocalsOK, authVars, Steps
    <3> QED
      BY <2>1, <3>2 DEF authVars, TypeOK, LocalsOK
  <2> QED
    BY <2>2, <2>3
<1>6. ASSUME NEW t \in Threads, AttemptCode(t) PROVE TypeOK'
  <2>1. LocalsOK'
    BY <1>0, <1>6, ReturnType, GotoType DEF AttemptCode, Steps
  <2>2. at[t] \in 1 .. minted
    BY <1>6 DEF AttemptCode, HandInv
  <2>3. at[t] \in Ids /\ attempts' \in [Ids -> Nat]
    BY <1>0, <1>6, <2>2, IdsType DEF AttemptCode, TypeOK
  <2>4. consumed \subseteq consumed' /\ consumed' \subseteq 1 .. minted
    BY <1>0, <1>6, <2>2 DEF AttemptCode, TypeOK
  <2> QED
    BY <1>6, <2>1, <2>3, <2>4 DEF AttemptCode, TypeOK, LocalsOK
<1>7. ASSUME NEW t \in Threads, PeekToken(t) PROVE TypeOK'
  <2>1. LocalsOK'
    BY <1>0, <1>7, ReturnType, GotoType DEF PeekToken, authVars, Steps
  <2> QED
    BY <1>7, <2>1 DEF PeekToken, authVars, TypeOK, LocalsOK
<1>8. ASSUME NEW t \in Threads, ConsumeToken(t) PROVE TypeOK'
  <2>1. LocalsOK'
    BY <1>0, <1>8, ReturnType, GotoType DEF ConsumeToken, Steps
  <2>2. at[t] \in 1 .. minted
    BY <1>8 DEF ConsumeToken, HandInv
  <2>3. consumed \subseteq consumed' /\ consumed' \subseteq 1 .. minted
    BY <1>0, <1>8, <2>2 DEF ConsumeToken, TypeOK
  <2> QED
    BY <1>8, <2>1, <2>3 DEF ConsumeToken, TypeOK, LocalsOK
<1>9. ASSUME NEW t \in Threads, FindOwner(t) PROVE TypeOK'
  <2>1. LocalsOK'
    BY <1>0, <1>9, GotoType DEF FindOwner, authVars, Steps
  <2> QED
    BY <1>9, <2>1 DEF FindOwner, authVars, TypeOK, LocalsOK
<1>10. ASSUME NEW t \in Threads, InsertOwner(t) PROVE TypeOK'
  <2>1. LocalsOK'
    BY <1>0, <1>10, ReturnType, GotoType DEF InsertOwner, Steps
  <2>2. owners \subseteq owners' /\ owners' \subseteq Emails
    <3>1. at[t] \in 1 .. minted /\ who[t] = challenge[at[t]].email
      BY <1>10 DEF InsertOwner, HandInv, Completing
    <3>2. who[t] \in Emails
      BY <1>0, <3>1 DEF TypeOK, Challenges
    <3> QED
      BY <1>0, <1>10, <3>2 DEF InsertOwner, TypeOK
  <2>3. links' \subseteq owners' \X Projects
    BY <1>0, <1>10, <2>2 DEF InsertOwner, TypeOK
  <2> QED
    BY <1>10, <2>1, <2>2, <2>3 DEF InsertOwner, TypeOK, LocalsOK
<1>11. ASSUME NEW t \in Threads, LookupOwner(t) PROVE TypeOK'
  <2>1. LocalsOK'
    BY <1>0, <1>11, GotoType DEF LookupOwner, authVars, Steps
  <2> QED
    BY <1>11, <2>1 DEF LookupOwner, authVars, TypeOK, LocalsOK
<1>12. ASSUME NEW t \in Threads, LinkProject(t) PROVE TypeOK'
  <2>1. LocalsOK'
    BY <1>0, <1>12, GotoType DEF LinkProject, Steps
  <2>2. links' \subseteq owners \X Projects
    BY <1>0, <1>12 DEF LinkProject, TypeOK, HandInv
  <2> QED
    BY <1>12, <2>1, <2>2 DEF LinkProject, TypeOK, LocalsOK
<1>13. ASSUME NEW t \in Threads, IssueSession(t) PROVE TypeOK'
  <2>1. LocalsOK'
    BY <1>0, <1>13, ReturnType DEF IssueSession, authVars
  <2>2. at[t] \in Ids
    BY <1>0, <1>13, IdsType DEF IssueSession, HandInv, Completing, TypeOK
  <2>3. signIns' \in [Ids -> Nat]
    BY <1>0, <1>13, <2>2 DEF IssueSession, TypeOK
  <2> QED
    BY <1>13, <2>1, <2>3 DEF IssueSession, authVars, TypeOK, LocalsOK
<1>14. CASE Stop
  <2>1. LocalsOK'
    BY <1>0, <1>14, NumbersAssumption
    DEF Stop, authVars, LocalsOK, Steps, Codes, Named
  <2>2. lost' \subseteq consumed
    BY <1>0, <1>14 DEF Stop, HandInv, TypeOK
  <2> QED
    BY <1>14, <2>1, <2>2 DEF Stop, authVars, TypeOK, LocalsOK
<1>15. CASE Tick
  BY <1>15, NumbersAssumption DEF Tick, authVars, requestVars, TypeOK
<1>16. CASE UNCHANGED vars
  BY <1>16 DEF vars, authVars, requestVars, TypeOK
<1> QED
  BY <1>1, <1>2, <1>3, <1>4, <1>5, <1>6, <1>7, <1>8, <1>9, <1>10, <1>11, <1>12,
     <1>13, <1>14, <1>15, <1>16 DEF Next, Request, RequestStep
-----------------------------------------------------------------------------
(* What one thread does to the others *)

\* Every step but Stop is one thread's, or none's: the locals of the others stay.
Others(t) ==
    \A u \in Threads \ {t} : pc'[u] = pc[u] /\ at'[u] = at[u] /\ who'[u] = who[u]

\* A thread in the middle of a sign-in has a challenge whose row is there.
LEMMA InHand ==
    ASSUME TypeOK, HandInv, NEW t \in Threads,
           pc[t] \in {"attempt", "peek", "consume"} \cup Completing
    PROVE  /\ at[t] \in 1 .. minted
           /\ at[t] \in Ids
           /\ challenge[at[t]] \in Challenges
           /\ who[t] = challenge[at[t]].email
<1>1. at[t] \in 1 .. minted /\ who[t] = challenge[at[t]].email
  BY DEF HandInv
<1> QED
  BY <1>1, IdsType DEF TypeOK

\* A thread that starts, answers or waits for its first write changes nothing
\* that another thread's sign-in rests on.
LEMMA QuietStep ==
    ASSUME IInv, NEW t \in Threads, Others(t), TypeOK',
           UNCHANGED <<minted, challenge, consumed, owners, links, signIns, lost>>,
           pc[t] \notin Completing,
           pc'[t] \notin Completing,
           pc'[t] = "mint" => who'[t] \in Emails,
           pc'[t] \in {"attempt", "peek", "consume"} =>
               at'[t] \in 1 .. minted /\ who'[t] = challenge[at'[t]].email
    PROVE  IInv'
<1> USE DEF IInv
<1>1. HandInv'
  BY DEF HandInv, Others, Completing, ProjectOf
<1>2. InsertInv'
  BY DEF InsertInv, Others, Completing
<1>3. SpendInv'
  BY DEF SpendInv, Others
<1>4. SingleUse' /\ LinkWasAsked'
  BY DEF SingleUse, LinkWasAsked
<1>5. SpentMeansSignedIn'
  BY DEF SpentMeansSignedIn, Others
<1> QED
  BY <1>1, <1>2, <1>3, <1>4, <1>5

\* A request that spends its challenge, still open when it does, goes on to find
\* its owner.
LEMMA SpendStep ==
    ASSUME IInv, NEW t \in Threads, Others(t), TypeOK',
           UNCHANGED <<minted, challenge, owners, links, signIns, lost>>,
           pc[t] \in {"attempt", "consume"}, at[t] \notin consumed,
           consumed' = consumed \cup {at[t]},
           pc'[t] = "find", at'[t] = at[t], who'[t] = who[t]
    PROVE  IInv'
<1> USE DEF IInv
<1>0. at[t] \in 1 .. minted /\ at[t] \in Ids
  BY InHand
<1>1. HandInv'
  BY <1>0 DEF HandInv, Others, Completing, ProjectOf
<1>2. InsertInv'
  BY DEF InsertInv, Others
<1>3. SpendInv'
  <2>1. \A u \in Threads \ {t} : pc[u] \in Completing => at[u] # at[t]
    BY DEF HandInv
  <2> QED
    BY <1>0, <2>1 DEF SpendInv, Others
<1>4. SingleUse' /\ LinkWasAsked'
  BY DEF SingleUse, LinkWasAsked
<1>5. SpentMeansSignedIn'
  <2> SUFFICES ASSUME NEW c \in consumed' \ lost'
               PROVE  \/ signIns'[c] = 1
                      \/ \E u \in Threads : at'[u] = c /\ pc'[u] \in Completing
                      \/ /\ challenge'[c].email \in owners'
                         /\ \E d \in consumed' \ {c} :
                               challenge'[d].email = challenge'[c].email
    BY DEF SpentMeansSignedIn
  <2>1. CASE c = at[t]
    BY <2>1 DEF Completing
  <2>2. CASE c # at[t]
    <3>1. c \in consumed \ lost
      BY <2>2
    <3>2. CASE \E u \in Threads : at[u] = c /\ pc[u] \in Completing
      BY <2>2, <3>2 DEF Others
    <3> QED
      BY <3>1, <3>2 DEF SpentMeansSignedIn
  <2> QED
    BY <2>1, <2>2
<1> QED
  BY <1>1, <1>2, <1>3, <1>4, <1>5

-----------------------------------------------------------------------------
(* The invariant *)

LEMMA InitInv == Init => IInv
<1> SUFFICES ASSUME Init PROVE IInv
  OBVIOUS
<1>1. TypeOK
  BY InitType
<1>2. HandInv /\ InsertInv /\ SpendInv
  BY DEF Init, HandInv, InsertInv, SpendInv, Completing
<1>3. SingleUse /\ SpentMeansSignedIn /\ LinkWasAsked
  BY DEF Init, SingleUse, SpentMeansSignedIn, LinkWasAsked
<1> QED
  BY <1>1, <1>2, <1>3 DEF IInv

LEMMA RequestInv ==
    ASSUME IInv, TypeOK', NEW t \in Threads, Request(t)
    PROVE  IInv'
<1> USE DEF IInv
<1>1. Others(t)
  BY DEF Request, RequestCode, SubmitCode, ConfirmLink, Begin, Others, TypeOK
<1>2. /\ pc[t] = "idle"
      /\ pc'[t] \in {"mint", "select", "peek"}
      /\ UNCHANGED <<minted, challenge, consumed, owners, links, signIns, lost>>
  BY DEF Request, RequestCode, SubmitCode, ConfirmLink, Begin, authVars, TypeOK
<1>3. /\ pc'[t] = "mint" => who'[t] \in Emails
      /\ pc'[t] = "peek" => at'[t] \in 1 .. minted /\ who'[t] = challenge[at'[t]].email
  BY DEF Request, RequestCode, SubmitCode, ConfirmLink, Begin, TypeOK
<1> QED
  BY <1>1, <1>2, <1>3, QuietStep DEF Completing

\* A new row leaves the rows there are as they were.
LEMMA CreateChallengeInv ==
    ASSUME IInv, TypeOK', NEW t \in Threads, CreateChallenge(t)
    PROVE  IInv'
<1> USE DEF IInv
<1>1. Others(t) /\ pc[t] = "mint" /\ pc'[t] = "idle"
  BY DEF CreateChallenge, Return, Others, TypeOK
<1>2. /\ minted' = minted + 1
      /\ \A c \in 1 .. minted : c \in 1 .. minted' /\ challenge'[c] = challenge[c]
      /\ UNCHANGED <<consumed, owners, links, signIns, lost>>
  BY DEF CreateChallenge, TypeOK
<1>3. \A c \in consumed : c \in 1 .. minted /\ challenge'[c] = challenge[c]
  BY <1>2 DEF TypeOK
<1>4. HandInv'
  BY <1>1, <1>2 DEF HandInv, Others, Completing, ProjectOf
<1>5. InsertInv'
  BY <1>1, <1>2, <1>3 DEF InsertInv, Others
<1>6. SpendInv'
  BY <1>1, <1>2 DEF SpendInv, Others, Completing
<1>7. SingleUse'
  BY <1>2 DEF SingleUse
<1>8. SpentMeansSignedIn'
  BY <1>1, <1>2, <1>3 DEF SpentMeansSignedIn, Others, Completing
<1>9. LinkWasAsked'
  BY <1>2, <1>3 DEF LinkWasAsked
<1> QED
  BY <1>4, <1>5, <1>6, <1>7, <1>8, <1>9

LEMMA ReadStepInv ==
    ASSUME IInv, TypeOK', NEW t \in Threads, SelectChallenge(t) \/ PeekToken(t)
    PROVE  IInv'
<1> USE DEF IInv
<1>1. /\ Others(t)
      /\ pc[t] \in {"select", "peek"}
      /\ UNCHANGED <<minted, challenge, consumed, owners, links, signIns, lost>>
  BY DEF SelectChallenge, PeekToken, Goto, Return, Others, TypeOK, authVars
<1>2. CASE pc'[t] = "idle"
  BY <1>1, <1>2, QuietStep DEF Completing
<1>3. CASE SelectChallenge(t) /\ pc'[t] # "idle"
  <2>1. PICK c \in MintedFor(who[t]) : pc'[t] = "attempt" /\ at'[t] = c /\ who' = who
    BY <1>3 DEF SelectChallenge, Return, NewestOpen, Open, TypeOK
  <2> QED
    BY <1>1, <2>1, QuietStep DEF MintedFor, Completing
<1>4. CASE PeekToken(t) /\ pc'[t] # "idle"
  <2>1. pc[t] = "peek" /\ pc'[t] = "consume" /\ at'[t] = at[t] /\ who'[t] = who[t]
    BY <1>4 DEF PeekToken, Goto, Return, TypeOK
  <2>2. at[t] \in 1 .. minted /\ who[t] = challenge[at[t]].email
    BY <2>1 DEF HandInv
  <2> QED
    BY <1>1, <2>1, <2>2, QuietStep DEF Completing
<1> QED
  BY <1>2, <1>3, <1>4

LEMMA SpendingInv ==
    ASSUME IInv, TypeOK', NEW t \in Threads, AttemptCode(t) \/ ConsumeToken(t)
    PROVE  IInv'
<1> USE DEF IInv
<1>1. /\ Others(t)
      /\ pc[t] \in {"attempt", "consume"}
      /\ UNCHANGED <<minted, challenge, owners, links, signIns, lost>>
  BY DEF AttemptCode, ConsumeToken, Goto, Return, Others, TypeOK
<1>2. CASE Goto(t, "find") /\ at[t] \notin consumed /\ consumed' = consumed \cup {at[t]}
  BY <1>1, <1>2, SpendStep DEF Goto, TypeOK
<1>3. CASE Return(t) /\ UNCHANGED consumed
  BY <1>1, <1>3, QuietStep DEF Return, Completing, TypeOK
<1> QED
  BY <1>2, <1>3 DEF AttemptCode, ConsumeToken

\* find_or_create_owner and the lookup of the project's holder.
LEMMA FindOwnerInv ==
    ASSUME IInv, TypeOK', NEW t \in Threads, FindOwner(t)
    PROVE  IInv'
<1> USE DEF IInv
<1>1. /\ Others(t) /\ at' = at /\ who' = who
      /\ UNCHANGED <<minted, challenge, consumed, owners, links, signIns, lost>>
      /\ pc[t] = "find"
      /\ pc'[t] = IF who[t] \in owners THEN "lookup" ELSE "insert"
  BY DEF FindOwner, Goto, Others, TypeOK, authVars
<1>2. HandInv'
  BY <1>1 DEF HandInv, Others, Completing, ProjectOf
<1>3. InsertInv'
  BY <1>1 DEF InsertInv, Others
<1>4. SpendInv'
  BY <1>1 DEF SpendInv, Others, Completing
<1>5. SingleUse' /\ LinkWasAsked'
  BY <1>1 DEF SingleUse, LinkWasAsked
<1>6. SpentMeansSignedIn'
  BY <1>1 DEF SpentMeansSignedIn, Others, Completing
<1> QED
  BY <1>2, <1>3, <1>4, <1>5, <1>6

LEMMA LookupOwnerInv ==
    ASSUME IInv, TypeOK', NEW t \in Threads, LookupOwner(t)
    PROVE  IInv'
<1> USE DEF IInv
<1>1. /\ Others(t) /\ at' = at /\ who' = who
      /\ UNCHANGED <<minted, challenge, consumed, owners, links, signIns, lost>>
      /\ pc[t] = "lookup"
      /\ pc'[t] \in {"link", "session"}
  BY DEF LookupOwner, Goto, Others, TypeOK, authVars
<1>2. pc'[t] = "link" => ProjectOf(t) \in Projects
  BY DEF LookupOwner, Goto, TypeOK
<1>3. HandInv'
  BY <1>1, <1>2 DEF HandInv, Others, Completing, ProjectOf
<1>4. InsertInv'
  BY <1>1 DEF InsertInv, Others
<1>5. SpendInv'
  BY <1>1 DEF SpendInv, Others, Completing
<1>6. SingleUse' /\ LinkWasAsked'
  BY <1>1 DEF SingleUse, LinkWasAsked
<1>7. SpentMeansSignedIn'
  BY <1>1 DEF SpentMeansSignedIn, Others, Completing
<1> QED
  BY <1>3, <1>4, <1>5, <1>6, <1>7

\* The thread that inserts the owner has spent the challenge that any other
\* thread about to insert the same owner lacks; the one that comes second ends.
LEMMA InsertOwnerInv ==
    ASSUME IInv, TypeOK', NEW t \in Threads, InsertOwner(t)
    PROVE  IInv'
<1> USE DEF IInv
<1>1. /\ Others(t) /\ pc[t] = "insert"
      /\ UNCHANGED <<minted, challenge, consumed, links, signIns, lost>>
      /\ owners' = owners \cup {who[t]}
  BY DEF InsertOwner, Goto, Return, Others, TypeOK
<1>2. at[t] \in consumed /\ who[t] = challenge[at[t]].email
  BY <1>1 DEF HandInv, Completing
<1>3. \/ who[t] \in owners /\ pc'[t] = "idle"
      \/ /\ who[t] \notin owners /\ pc'[t] = "lookup"
         /\ at'[t] = at[t] /\ who'[t] = who[t]
  BY DEF InsertOwner, Goto, Return, TypeOK
<1>4. HandInv'
  BY <1>1, <1>3 DEF HandInv, Others, Completing, ProjectOf
<1>5. InsertInv'
  <2> SUFFICES ASSUME NEW u \in Threads, pc'[u] = "insert", who'[u] \in owners'
               PROVE  \E d \in consumed \ {at'[u]} : challenge[d].email = who'[u]
    BY <1>1 DEF InsertInv
  <2>1. u # t /\ pc[u] = "insert" /\ at'[u] = at[u] /\ who'[u] = who[u]
    BY <1>1, <1>3 DEF Others
  <2>2. CASE who[u] \in owners
    BY <2>1, <2>2 DEF InsertInv
  <2>3. CASE who[u] = who[t]
    <3>1. at[u] # at[t]
      BY <1>1, <2>1 DEF SpendInv, Completing
    <3> QED
      BY <1>2, <2>1, <2>3, <3>1
  <2> QED
    BY <1>1, <2>1, <2>2, <2>3
<1>6. SpendInv'
  BY <1>1, <1>3 DEF SpendInv, Others, Completing
<1>7. SingleUse' /\ LinkWasAsked'
  BY <1>1 DEF SingleUse, LinkWasAsked
<1>8. SpentMeansSignedIn'
  <2> SUFFICES ASSUME NEW c \in consumed \ lost
               PROVE  \/ signIns[c] = 1
                      \/ \E u \in Threads : at'[u] = c /\ pc'[u] \in Completing
                      \/ /\ challenge[c].email \in owners'
                         /\ \E d \in consumed \ {c} :
                               challenge[d].email = challenge[c].email
    BY <1>1 DEF SpentMeansSignedIn
  <2>1. CASE c = at[t] /\ who[t] \in owners
    BY <1>1, <1>2, <2>1 DEF InsertInv
  <2>2. CASE c = at[t] /\ who[t] \notin owners
    BY <1>3, <2>2 DEF Completing
  <2>3. CASE c # at[t]
    <3>1. CASE \E u \in Threads : at[u] = c /\ pc[u] \in Completing
      BY <1>1, <2>3, <3>1 DEF Others
    <3> QED
      BY <1>1, <3>1 DEF SpentMeansSignedIn
  <2> QED
    BY <2>1, <2>2, <2>3
<1> QED
  BY <1>4, <1>5, <1>6, <1>7, <1>8

LEMMA LinkProjectInv ==
    ASSUME IInv, TypeOK', NEW t \in Threads, LinkProject(t)
    PROVE  IInv'
<1> USE DEF IInv
<1>1. /\ Others(t) /\ at' = at /\ who' = who
      /\ UNCHANGED <<minted, challenge, consumed, owners, signIns, lost>>
      /\ links' = links \cup {<<who[t], ProjectOf(t)>>}
      /\ pc[t] = "link"
      /\ pc'[t] = "session"
  BY DEF LinkProject, Goto, Others, TypeOK
<1>2. at[t] \in consumed /\ who[t] = challenge[at[t]].email
  BY <1>1 DEF HandInv, Completing
<1>3. HandInv'
  BY <1>1 DEF HandInv, Others, Completing, ProjectOf
<1>4. InsertInv'
  BY <1>1 DEF InsertInv, Others
<1>5. SpendInv'
  BY <1>1 DEF SpendInv, Others, Completing
<1>6. SingleUse'
  BY <1>1 DEF SingleUse
<1>7. LinkWasAsked'
  BY <1>1, <1>2 DEF LinkWasAsked, ProjectOf
<1>8. SpentMeansSignedIn'
  BY <1>1 DEF SpentMeansSignedIn, Others, Completing
<1> QED
  BY <1>3, <1>4, <1>5, <1>6, <1>7, <1>8

LEMMA IssueSessionInv ==
    ASSUME IInv, TypeOK', NEW t \in Threads, IssueSession(t)
    PROVE  IInv'
<1> USE DEF IInv
<1>1. /\ Others(t) /\ pc[t] = "session" /\ pc'[t] = "idle"
      /\ UNCHANGED <<minted, challenge, consumed, owners, links, lost>>
      /\ signIns' = [signIns EXCEPT ![at[t]] = @ + 1]
  BY DEF IssueSession, Return, Others, TypeOK, authVars
<1>2. /\ at[t] \in Ids /\ at[t] \in consumed /\ signIns[at[t]] = 0
      /\ \A u \in Threads \ {t} : pc[u] \in Completing => at[u] # at[t]
  BY <1>1, InHand DEF HandInv, SpendInv, Completing
<1>3. /\ signIns'[at[t]] = 1
      /\ \A c \in Ids \ {at[t]} : signIns'[c] = signIns[c]
  BY <1>1, <1>2 DEF TypeOK
<1>4. consumed \subseteq Ids
  BY IdsType DEF TypeOK
<1>5. HandInv'
  BY <1>1 DEF HandInv, Others, Completing, ProjectOf
<1>6. InsertInv'
  BY <1>1 DEF InsertInv, Others
<1>7. SpendInv'
  <2>1. \A u \in Threads \ {t} : pc[u] \in Completing => at[u] \in Ids
    BY InHand
  <2> QED
    BY <1>1, <1>2, <1>3, <2>1 DEF SpendInv, Others, Completing
<1>8. SingleUse'
  BY <1>2, <1>3 DEF SingleUse
<1>9. LinkWasAsked'
  BY <1>1 DEF LinkWasAsked
<1>10. SpentMeansSignedIn'
  <2> SUFFICES ASSUME NEW c \in consumed \ lost
               PROVE  \/ signIns'[c] = 1
                      \/ \E u \in Threads : at'[u] = c /\ pc'[u] \in Completing
                      \/ /\ challenge[c].email \in owners
                         /\ \E d \in consumed \ {c} :
                               challenge[d].email = challenge[c].email
    BY <1>1 DEF SpentMeansSignedIn
  <2>1. CASE c = at[t]
    BY <1>3, <2>1
  <2>2. CASE c # at[t]
    <3>1. signIns'[c] = signIns[c]
      BY <1>3, <1>4, <2>2
    <3>2. CASE \E u \in Threads : at[u] = c /\ pc[u] \in Completing
      BY <1>1, <2>2, <3>2 DEF Others
    <3> QED
      BY <3>1, <3>2 DEF SpentMeansSignedIn
  <2> QED
    BY <2>1, <2>2
<1> QED
  BY <1>5, <1>6, <1>7, <1>8, <1>9, <1>10

\* A stop drops every request and remembers the challenges it cut short.
LEMMA StopInv ==
    ASSUME IInv, TypeOK', Stop
    PROVE  IInv'
<1> USE DEF IInv
<1>1. /\ \A t \in Threads : pc'[t] = "idle"
      /\ UNCHANGED <<minted, challenge, consumed, owners, links, signIns>>
      /\ lost' = lost \cup {at[t] : t \in {u \in Threads : pc[u] \in Completing}}
  BY DEF Stop, authVars
<1>2. HandInv' /\ InsertInv' /\ SpendInv'
  BY <1>1 DEF HandInv, InsertInv, SpendInv, Completing
<1>3. SingleUse' /\ LinkWasAsked'
  BY <1>1 DEF SingleUse, LinkWasAsked
<1>4. SpentMeansSignedIn'
  BY <1>1 DEF SpentMeansSignedIn
<1> QED
  BY <1>2, <1>3, <1>4

LEMMA UnchangedInv ==
    ASSUME IInv, TypeOK', UNCHANGED vars \/ Tick
    PROVE  IInv'
<1>1. UNCHANGED <<authVars, requestVars, signIns, lost>>
  BY DEF vars, Tick
<1> QED
  BY <1>1 DEF IInv, HandInv, InsertInv, SpendInv, SingleUse, SpentMeansSignedIn,
              LinkWasAsked, Completing, ProjectOf, authVars, requestVars

LEMMA NextInv == IInv /\ [Next]_vars => IInv'
<1> SUFFICES ASSUME IInv, [Next]_vars PROVE IInv'
  OBVIOUS
<1>1. TypeOK'
  BY TypeStep
<1>2. CASE \E t \in Threads : Request(t)
  BY <1>1, <1>2, RequestInv
<1>3. CASE \E t \in Threads : RequestStep(t)
  BY <1>1, <1>3, CreateChallengeInv, ReadStepInv, SpendingInv, FindOwnerInv,
     InsertOwnerInv, LookupOwnerInv, LinkProjectInv, IssueSessionInv DEF RequestStep
<1>4. CASE Stop
  BY <1>1, <1>4, StopInv
<1>5. CASE UNCHANGED vars \/ Tick
  BY <1>1, <1>5, UnchangedInv
<1> QED
  BY <1>2, <1>3, <1>4, <1>5 DEF Next

-----------------------------------------------------------------------------
(* The theorems *)

\* The inductive invariant holds in every state the server can reach.
THEOREM SignInInvariance == Spec => []IInv
<1>1. Init => IInv
  BY InitInv
<1>2. IInv /\ [Next]_vars => IInv'
  BY NextInv
<1> QED
  BY <1>1, <1>2, PTL DEF Spec

\* The tables and the locals of the requests stay in their types.
THEOREM SignInTypeCorrect == Spec => []TypeOK
<1>1. IInv => TypeOK
  BY DEF IInv
<1> QED
  BY <1>1, SignInInvariance, PTL

\* However many requests carry its code or its link, and in whatever order they
\* read and write, a challenge yields one session at most.
THEOREM OneSessionPerChallenge == Spec => []SingleUse
<1>1. IInv => SingleUse
  BY DEF IInv
<1> QED
  BY <1>1, SignInInvariance, PTL

\* A challenge that was spent is accounted for: a session, a request under way,
\* a stop, or the insert of the owner lost to another sign-in.
THEOREM SpentIsAccountedFor == Spec => []SpentMeansSignedIn
<1>1. IInv => SpentMeansSignedIn
  BY DEF IInv
<1> QED
  BY <1>1, SignInInvariance, PTL

\* No owner is given a project that none of its spent challenges named.
THEOREM ClaimsAreAsked == Spec => []LinkWasAsked
<1>1. IInv => LinkWasAsked
  BY DEF IInv
<1> QED
  BY <1>1, SignInInvariance, PTL

-----------------------------------------------------------------------------
(* The attempt cap *)

\* The threads that read challenge c under the cap and have yet to count.
AboutToCount(c) == {t \in Threads : pc[t] = "attempt" /\ at[t] = c}

\* Each of them may still add one to the count.
CapInv ==
    \A c \in Ids :
        attempts[c] + Cardinality(AboutToCount(c))
            <= MaxAttempts - 1 + Cardinality(Threads)

LEMMA CountType ==
    /\ Cardinality(Threads) \in Nat
    /\ \A S \in SUBSET Threads :
          /\ IsFiniteSet(S)
          /\ Cardinality(S) \in Nat
          /\ Cardinality(S) <= Cardinality(Threads)
  BY FS_Subset, FS_CardinalityType, SetsAssumption

\* A step that counts nothing and takes nobody up to the count keeps the bound.
LEMMA CapKept ==
    ASSUME TypeOK, CapInv, UNCHANGED attempts,
           \A c \in Ids : AboutToCount(c)' \subseteq AboutToCount(c)
    PROVE  CapInv'
<1> SUFFICES ASSUME NEW c \in Ids
             PROVE  attempts[c] + Cardinality(AboutToCount(c)')
                       <= MaxAttempts - 1 + Cardinality(Threads)
  BY DEF CapInv
<1>1. AboutToCount(c) \in SUBSET Threads /\ AboutToCount(c)' \in SUBSET Threads
  BY DEF AboutToCount
<1>2. Cardinality(AboutToCount(c)') <= Cardinality(AboutToCount(c))
  BY <1>1, CountType, FS_Subset
<1>3. /\ Cardinality(AboutToCount(c)) \in Nat /\ Cardinality(AboutToCount(c)') \in Nat
      /\ Cardinality(Threads) \in Nat /\ attempts[c] \in Nat /\ MaxAttempts \in Nat
  BY <1>1, CountType, NumbersAssumption DEF TypeOK
<1>4. attempts[c] + Cardinality(AboutToCount(c)) <= MaxAttempts - 1 + Cardinality(Threads)
  BY DEF CapInv
<1> QED
  BY <1>2, <1>3, <1>4

LEMMA CapStep == IInv /\ CapInv /\ [Next]_vars => CapInv'
<1> SUFFICES ASSUME IInv, CapInv, [Next]_vars PROVE CapInv'
  OBVIOUS
<1>0. TypeOK
  BY DEF IInv
<1>1. ASSUME NEW t \in Threads, SelectChallenge(t), pc'[t] = "attempt" PROVE CapInv'
  <2> SUFFICES ASSUME NEW c \in Ids
               PROVE  attempts[c] + Cardinality(AboutToCount(c)')
                         <= MaxAttempts - 1 + Cardinality(Threads)
    BY <1>1 DEF SelectChallenge, authVars, CapInv
  <2>1. AboutToCount(c) \in SUBSET Threads /\ AboutToCount(c)' \in SUBSET Threads
    BY DEF AboutToCount
  <2>2. PICK d \in MintedFor(who[t]) :
          TakesCodes(d) /\ at' = [at EXCEPT ![t] = d] /\ pc' = [pc EXCEPT ![t] = "attempt"]
    BY <1>0, <1>1 DEF SelectChallenge, Return, NewestOpen, Open, TypeOK
  <2>3. CASE c = d
    <3>1. /\ Cardinality(Threads) \in Nat
          /\ Cardinality(AboutToCount(c)') \in Nat
          /\ Cardinality(AboutToCount(c)') <= Cardinality(Threads)
      BY <2>1, CountType
    <3>2. attempts[c] \in Nat /\ MaxAttempts \in Nat /\ attempts[c] < MaxAttempts
      BY <1>0, <2>2, <2>3, NumbersAssumption DEF TakesCodes, TypeOK
    <3> QED
      BY <3>1, <3>2
  <2>4. CASE c # d
    <3>1. AboutToCount(c)' \subseteq AboutToCount(c)
      BY <1>0, <2>2, <2>4 DEF AboutToCount, TypeOK
    <3>2. Cardinality(AboutToCount(c)') <= Cardinality(AboutToCount(c))
      BY <2>1, <3>1, CountType, FS_Subset
    <3>3. attempts[c] + Cardinality(AboutToCount(c)) <= MaxAttempts - 1 + Cardinality(Threads)
      BY DEF CapInv
    <3>4. /\ Cardinality(AboutToCount(c)) \in Nat /\ Cardinality(AboutToCount(c)') \in Nat
          /\ Cardinality(Threads) \in Nat /\ attempts[c] \in Nat /\ MaxAttempts \in Nat
      BY <1>0, <2>1, CountType, NumbersAssumption DEF TypeOK
    <3> QED
      BY <3>2, <3>3, <3>4
  <2> QED
    BY <2>3, <2>4
<1>2. ASSUME NEW t \in Threads, AttemptCode(t) PROVE CapInv'
  <2> SUFFICES ASSUME NEW c \in Ids
               PROVE  attempts'[c] + Cardinality(AboutToCount(c)')
                         <= MaxAttempts - 1 + Cardinality(Threads)
    BY DEF CapInv
  <2>1. AboutToCount(c) \in SUBSET Threads /\ AboutToCount(c)' \in SUBSET Threads
    BY DEF AboutToCount
  <2>2. /\ pc[t] = "attempt" /\ pc'[t] # "attempt"
        /\ \A u \in Threads \ {t} : pc'[u] = pc[u] /\ at'[u] = at[u]
        /\ attempts' = [attempts EXCEPT ![at[t]] = @ + 1]
    BY <1>0, <1>2 DEF AttemptCode, Goto, Return, TypeOK
  <2>3. AboutToCount(c)' = AboutToCount(c) \ {t}
    BY <2>2 DEF AboutToCount
  <2>4. CASE c = at[t]
    <3>1. t \in AboutToCount(c)
      BY <2>2, <2>4 DEF AboutToCount
    <3>2. Cardinality(AboutToCount(c)') = Cardinality(AboutToCount(c)) - 1
      BY <2>1, <2>3, <3>1, CountType, FS_RemoveElement
    <3>3. attempts'[c] = attempts[c] + 1
      BY <1>0, <2>2, <2>4 DEF TypeOK
    <3>4. attempts[c] + Cardinality(AboutToCount(c)) <= MaxAttempts - 1 + Cardinality(Threads)
      BY DEF CapInv
    <3>5. /\ Cardinality(AboutToCount(c)) \in Nat /\ Cardinality(Threads) \in Nat
          /\ attempts[c] \in Nat /\ MaxAttempts \in Nat
      BY <1>0, <2>1, CountType, NumbersAssumption DEF TypeOK
    <3> QED
      BY <3>2, <3>3, <3>4, <3>5
  <2>5. CASE c # at[t]
    <3>1. AboutToCount(c)' = AboutToCount(c)
      BY <2>3, <2>5 DEF AboutToCount
    <3>2. attempts'[c] = attempts[c]
      BY <1>0, <2>2, <2>5 DEF TypeOK
    <3> QED
      BY <3>1, <3>2 DEF CapInv
  <2> QED
    BY <2>4, <2>5
<1>3. CASE /\ UNCHANGED attempts
           /\ \A t \in Threads : pc'[t] = "attempt" => pc[t] = "attempt" /\ at'[t] = at[t]
  <2>1. \A c \in Ids : AboutToCount(c)' \subseteq AboutToCount(c)
    BY <1>3 DEF AboutToCount
  <2> QED
    BY <1>0, <1>3, <2>1, CapKept
<1>4. ASSUME NEW t \in Threads, Request(t) PROVE CapInv'
  <2>1. UNCHANGED attempts /\ pc'[t] # "attempt"
    BY <1>0, <1>4 DEF Request, RequestCode, SubmitCode, ConfirmLink, Begin, authVars, TypeOK
  <2>2. \A u \in Threads \ {t} : pc'[u] = pc[u] /\ at'[u] = at[u]
    BY <1>0, <1>4 DEF Request, RequestCode, SubmitCode, ConfirmLink, Begin, TypeOK
  <2> QED
    BY <1>3, <2>1, <2>2
<1>5. ASSUME NEW t \in Threads, RequestStep(t), ~ AttemptCode(t),
             ~ (SelectChallenge(t) /\ pc'[t] = "attempt")
      PROVE  CapInv'
  <2>1. UNCHANGED attempts /\ pc'[t] # "attempt"
    BY <1>0, <1>5
    DEF RequestStep, CreateChallenge, SelectChallenge, PeekToken, ConsumeToken, FindOwner,
        InsertOwner, LookupOwner, LinkProject, IssueSession, Goto, Return, authVars, TypeOK
  <2>2. \A u \in Threads \ {t} : pc'[u] = pc[u] /\ at'[u] = at[u]
    BY <1>0, <1>5
    DEF RequestStep, CreateChallenge, SelectChallenge, PeekToken, ConsumeToken, FindOwner,
        InsertOwner, LookupOwner, LinkProject, IssueSession, Goto, Return, TypeOK
  <2> QED
    BY <1>3, <2>1, <2>2
<1>6. CASE Stop
  BY <1>3, <1>6 DEF Stop, authVars
<1>7. CASE Tick \/ UNCHANGED vars
  BY <1>3, <1>7 DEF Tick, vars, authVars, requestVars
<1> QED
  BY <1>1, <1>2, <1>4, <1>5, <1>6, <1>7 DEF Next

LEMMA CapInit == Init => CapInv
<1> SUFFICES ASSUME Init, NEW c \in Ids
             PROVE  attempts[c] + Cardinality(AboutToCount(c))
                       <= MaxAttempts - 1 + Cardinality(Threads)
  BY DEF CapInv
<1>1. AboutToCount(c) \in SUBSET Threads /\ attempts[c] = 0
  BY DEF Init, AboutToCount
<1> QED
  BY <1>1, CountType, NumbersAssumption

\* Requests that read a challenge under the cap together pass it by one per
\* extra request at most, whatever the cap and the number of threads.
THEOREM AttemptCap == Spec => []AttemptsBounded
<1>1. Init => CapInv
  BY CapInit
<1>2. IInv /\ CapInv /\ [Next]_vars => CapInv'
  BY CapStep
<1>3. IInv /\ CapInv => AttemptsBounded
  <2> SUFFICES ASSUME IInv, CapInv, NEW c \in Ids
               PROVE  attempts[c] <= MaxAttempts - 1 + Cardinality(Threads)
    BY DEF AttemptsBounded
  <2>1. AboutToCount(c) \in SUBSET Threads /\ attempts[c] \in Nat
    BY DEF AboutToCount, IInv, TypeOK
  <2> QED
    BY <2>1, CountType, NumbersAssumption DEF CapInv
<1> QED
  BY <1>1, <1>2, <1>3, SignInInvariance, PTL DEF Spec

-----------------------------------------------------------------------------
(* The cap on challenges *)

\* The threads that counted the challenges of email e under the cap and have yet
\* to mint theirs.
AboutToMint(e) == {t \in Threads : pc[t] = "mint" /\ who[t] = e}

\* Each of them may still add one.
MintInv ==
    \A e \in Emails :
        RecentChallengeCount(e) + Cardinality(AboutToMint(e))
            <= RateMax - 1 + Cardinality(Threads)

LEMMA MintCounts ==
    ASSUME TypeOK, NEW e \in Emails
    PROVE  /\ IsFiniteSet(Recent(e))
           /\ RecentChallengeCount(e) \in Nat
           /\ AboutToMint(e) \in SUBSET Threads
           /\ IsFiniteSet(AboutToMint(e))
           /\ Cardinality(AboutToMint(e)) \in Nat
           /\ Cardinality(Threads) \in Nat
           /\ RateMax \in Nat
<1>1. IsFiniteSet(1 .. minted)
  BY FS_Interval DEF TypeOK
<1>2. Recent(e) \subseteq 1 .. minted
  BY DEF Recent, MintedFor
<1>3. IsFiniteSet(Recent(e)) /\ Cardinality(Recent(e)) \in Nat
  BY <1>1, <1>2, FS_Subset, FS_CardinalityType
<1>4. AboutToMint(e) \in SUBSET Threads
  BY DEF AboutToMint
<1> QED
  BY <1>3, <1>4, CountType, NumbersAssumption DEF RecentChallengeCount

\* A step that mints nothing and takes nobody up to the mint keeps the bound.
LEMMA MintKept ==
    ASSUME TypeOK, TypeOK', MintInv, NEW e \in Emails,
           Recent(e)' \subseteq Recent(e), AboutToMint(e)' \subseteq AboutToMint(e)
    PROVE  RecentChallengeCount(e)' + Cardinality(AboutToMint(e)')
              <= RateMax - 1 + Cardinality(Threads)
<1>1. /\ RecentChallengeCount(e)' <= RecentChallengeCount(e)
      /\ RecentChallengeCount(e)' \in Nat
  BY MintCounts, FS_Subset, FS_CardinalityType DEF RecentChallengeCount
<1>2. /\ Cardinality(AboutToMint(e)') <= Cardinality(AboutToMint(e))
      /\ Cardinality(AboutToMint(e)') \in Nat
  BY MintCounts, FS_Subset, FS_CardinalityType
<1>3. RecentChallengeCount(e) + Cardinality(AboutToMint(e))
        <= RateMax - 1 + Cardinality(Threads)
  BY DEF MintInv
<1> QED
  BY <1>1, <1>2, <1>3, MintCounts

LEMMA MintStep == IInv /\ MintInv /\ [Next]_vars => MintInv'
<1> SUFFICES ASSUME IInv, MintInv, [Next]_vars, NEW e \in Emails
             PROVE  RecentChallengeCount(e)' + Cardinality(AboutToMint(e)')
                       <= RateMax - 1 + Cardinality(Threads)
  BY DEF MintInv
<1>0. TypeOK /\ TypeOK'
  BY TypeStep DEF IInv
<1>1. ASSUME NEW t \in Threads, NEW f \in Emails, NEW p \in Named, RequestCode(t, f, p)
      PROVE  RecentChallengeCount(e)' + Cardinality(AboutToMint(e)')
                <= RateMax - 1 + Cardinality(Threads)
  <2>1. Recent(e)' = Recent(e)
    BY <1>1 DEF RequestCode, authVars, Recent, MintedFor
  <2>2. CASE e = f
    <3>1. RecentChallengeCount(e)' = RecentChallengeCount(e) /\ RecentChallengeCount(e) < RateMax
      BY <1>1, <2>1, <2>2 DEF RequestCode, RecentChallengeCount
    <3>2. AboutToMint(e)' \in SUBSET Threads
      BY DEF AboutToMint
    <3>3. /\ Cardinality(AboutToMint(e)') \in Nat
          /\ Cardinality(AboutToMint(e)') <= Cardinality(Threads)
      BY <3>2, CountType
    <3> QED
      BY <1>0, <3>1, <3>3, MintCounts
  <2>3. CASE e # f
    <3>1. AboutToMint(e)' \subseteq AboutToMint(e)
      BY <1>0, <1>1, <2>3 DEF RequestCode, Begin, AboutToMint, TypeOK
    <3> QED
      BY <1>0, <2>1, <3>1, MintKept
  <2> QED
    BY <2>2, <2>3
<1>2. ASSUME NEW t \in Threads, CreateChallenge(t)
      PROVE  RecentChallengeCount(e)' + Cardinality(AboutToMint(e)')
                <= RateMax - 1 + Cardinality(Threads)
  <2>1. /\ pc[t] = "mint" /\ pc'[t] = "idle"
        /\ \A u \in Threads \ {t} : pc'[u] = pc[u] /\ who'[u] = who[u]
        /\ minted' = minted + 1 /\ minted \in Nat /\ clock' = clock
        /\ \A c \in 1 .. minted : challenge'[c] = challenge[c]
        /\ challenge'[minted + 1].email = who[t]
    BY <1>0, <1>2 DEF CreateChallenge, Return, TypeOK
  <2>2. AboutToMint(e)' = AboutToMint(e) \ {t}
    BY <2>1 DEF AboutToMint
  <2>3. \A c \in 1 .. minted' : c # minted + 1 => c \in 1 .. minted
    BY <2>1
  <2>4. Recent(e)' \subseteq Recent(e) \cup {minted + 1}
    BY <2>1, <2>3 DEF Recent, MintedFor
  <2>5. CASE e = who[t]
    <3>1. t \in AboutToMint(e)
      BY <2>1, <2>5 DEF AboutToMint
    <3>2. Cardinality(AboutToMint(e)') = Cardinality(AboutToMint(e)) - 1
      BY <1>0, <2>2, <3>1, MintCounts, FS_RemoveElement
    <3>3. /\ RecentChallengeCount(e)' <= RecentChallengeCount(e) + 1
          /\ RecentChallengeCount(e)' \in Nat
      <4>1. /\ IsFiniteSet(Recent(e) \cup {minted + 1})
            /\ Cardinality(Recent(e) \cup {minted + 1}) \in Nat
            /\ Cardinality(Recent(e) \cup {minted + 1}) <= Cardinality(Recent(e)) + 1
        <5>1. IsFiniteSet(Recent(e)) /\ minted + 1 \notin Recent(e)
          <6>1. Recent(e) \subseteq 1 .. minted
            BY DEF Recent, MintedFor
          <6>2. minted + 1 \notin 1 .. minted
            BY <2>1
          <6> QED
            BY <1>0, <6>1, <6>2, MintCounts
        <5>2. /\ IsFiniteSet(Recent(e) \cup {minted + 1})
              /\ Cardinality(Recent(e) \cup {minted + 1}) = Cardinality(Recent(e)) + 1
          BY <5>1, FS_AddElement
        <5> QED
          BY <5>1, <5>2, FS_CardinalityType
      <4>2. /\ Cardinality(Recent(e)') <= Cardinality(Recent(e) \cup {minted + 1})
            /\ Cardinality(Recent(e)') \in Nat
        BY <2>4, <4>1, FS_Subset, FS_CardinalityType
      <4> QED
        BY <1>0, <4>1, <4>2, MintCounts DEF RecentChallengeCount
    <3>4. RecentChallengeCount(e) + Cardinality(AboutToMint(e))
            <= RateMax - 1 + Cardinality(Threads)
      BY DEF MintInv
    <3> QED
      BY <1>0, <3>2, <3>3, <3>4, MintCounts
  <2>6. CASE e # who[t]
    <3>1. Recent(e)' \subseteq Recent(e)
      BY <2>1, <2>3, <2>6 DEF Recent, MintedFor
    <3> QED
      BY <1>0, <2>2, <3>1, MintKept
  <2> QED
    BY <2>5, <2>6
<1>3. CASE /\ UNCHANGED <<clock, minted, challenge>>
           /\ \A t \in Threads : pc'[t] = "mint" => pc[t] = "mint" /\ who'[t] = who[t]
  <2>1. Recent(e)' \subseteq Recent(e) /\ AboutToMint(e)' \subseteq AboutToMint(e)
    BY <1>3 DEF Recent, MintedFor, AboutToMint
  <2> QED
    BY <1>0, <2>1, MintKept
<1>4. ASSUME NEW t \in Threads, Request(t), ~ (\E f \in Emails, p \in Named : RequestCode(t, f, p))
      PROVE  RecentChallengeCount(e)' + Cardinality(AboutToMint(e)')
                <= RateMax - 1 + Cardinality(Threads)
  <2>1. /\ UNCHANGED <<clock, minted, challenge>> /\ pc'[t] # "mint"
        /\ \A u \in Threads \ {t} : pc'[u] = pc[u] /\ who'[u] = who[u]
    BY <1>0, <1>4 DEF Request, SubmitCode, ConfirmLink, Begin, authVars, TypeOK
  <2> QED
    BY <1>3, <2>1
<1>5. ASSUME NEW t \in Threads, RequestStep(t), ~ CreateChallenge(t)
      PROVE  RecentChallengeCount(e)' + Cardinality(AboutToMint(e)')
                <= RateMax - 1 + Cardinality(Threads)
  <2>1. /\ UNCHANGED <<clock, minted, challenge>> /\ pc'[t] # "mint"
        /\ \A u \in Threads \ {t} : pc'[u] = pc[u] /\ who'[u] = who[u]
    BY <1>0, <1>5
    DEF RequestStep, SelectChallenge, AttemptCode, PeekToken, ConsumeToken, FindOwner,
        InsertOwner, LookupOwner, LinkProject, IssueSession, Goto, Return, authVars, TypeOK
  <2> QED
    BY <1>3, <2>1
<1>6. CASE Stop
  BY <1>3, <1>6 DEF Stop, authVars
<1>7. CASE Tick
  <2>1. \A c \in MintedFor(e) :
            challenge[c].created \in Nat /\ clock \in Nat /\ Window \in Nat
    BY <1>0, NumbersAssumption DEF TypeOK, MintedFor, Challenges
  <2>2. Recent(e)' \subseteq Recent(e)
    BY <1>7, <2>1 DEF Tick, authVars, Recent, MintedFor
  <2>3. AboutToMint(e)' = AboutToMint(e)
    BY <1>7 DEF Tick, requestVars, AboutToMint
  <2> QED
    BY <1>0, <2>2, <2>3, MintKept
<1>8. CASE UNCHANGED vars
  BY <1>3, <1>8 DEF vars, authVars, requestVars
<1> QED
  BY <1>1, <1>2, <1>4, <1>5, <1>6, <1>7, <1>8 DEF Next, Request

\* Requests that count the recent challenges of an email together pass the cap by
\* one per extra request at most, whatever the window and the order of their mints.
THEOREM MintCap == Spec => []MintingBounded
<1>1. Init => MintInv
  <2> SUFFICES ASSUME Init, NEW e \in Emails
               PROVE  RecentChallengeCount(e) + Cardinality(AboutToMint(e))
                         <= RateMax - 1 + Cardinality(Threads)
    BY DEF MintInv
  <2>1. AboutToMint(e) = {} /\ Recent(e) = {}
    BY DEF Init, AboutToMint, Recent, MintedFor
  <2>2. RecentChallengeCount(e) = 0 /\ Cardinality(AboutToMint(e)) = 0
    BY <2>1, FS_EmptySet DEF RecentChallengeCount
  <2> QED
    BY <2>2, CountType, NumbersAssumption
<1>2. IInv /\ MintInv /\ [Next]_vars => MintInv'
  BY MintStep
<1>3. IInv /\ MintInv => MintingBounded
  <2> SUFFICES ASSUME IInv, MintInv, NEW e \in Emails
               PROVE  RecentChallengeCount(e) <= RateMax - 1 + Cardinality(Threads)
    BY DEF MintingBounded
  <2>1. TypeOK
    BY DEF IInv
  <2> QED
    BY <2>1, MintCounts DEF MintInv
<1> QED
  BY <1>1, <1>2, <1>3, SignInInvariance, PTL DEF Spec

-----------------------------------------------------------------------------
(* The ceiling on guesses *)

\* The threads that read the guesses of email e under the ceiling and have yet to
\* make theirs.
AboutToGuess(e) == {t \in Threads : pc[t] \in {"select", "attempt"} /\ who[t] = e}

\* Each of them may still add one.  A fresh challenge adds none.
GuessInv ==
    /\ \A e \in Emails :
          RecentAttemptTotal(e) + Cardinality(AboutToGuess(e))
              <= VerifyMax - 1 + Cardinality(Threads)
    /\ \A c \in Ids : c > minted => attempts[c] = 0

\* The guesses of an email are finitely many, since each challenge has its cap.
LEMMA GuessCounts ==
    ASSUME TypeOK, CapInv, NEW e \in Emails
    PROVE  /\ IsFiniteSet(Guesses(e))
           /\ RecentAttemptTotal(e) \in Nat
           /\ AboutToGuess(e) \in SUBSET Threads
           /\ IsFiniteSet(AboutToGuess(e))
           /\ Cardinality(AboutToGuess(e)) \in Nat
           /\ Cardinality(Threads) \in Nat
           /\ VerifyMax \in Nat
<1> DEFINE most == MaxAttempts - 1 + Cardinality(Threads)
<1>1. most \in Nat /\ Cardinality(Threads) \in Nat /\ VerifyMax \in Nat
  BY CountType, NumbersAssumption
<1>2. \A c \in Ids : attempts[c] \in Nat /\ attempts[c] <= most
  <2> SUFFICES ASSUME NEW c \in Ids PROVE attempts[c] \in Nat /\ attempts[c] <= most
    OBVIOUS
  <2>1. AboutToCount(c) \in SUBSET Threads
    BY DEF AboutToCount
  <2>2. Cardinality(AboutToCount(c)) \in Nat /\ attempts[c] \in Nat
    BY <2>1, CountType DEF TypeOK
  <2>3. attempts[c] + Cardinality(AboutToCount(c)) <= most
    BY DEF CapInv
  <2> QED
    BY <1>1, <2>2, <2>3
<1>3. Guesses(e) \subseteq Ids \X (1 .. most)
  <2>1. \A c \in Recent(e) : c \in Ids
    BY IdsType DEF Recent, MintedFor, TypeOK
  <2>2. \A c \in Ids : {c} \X (1 .. attempts[c]) \subseteq Ids \X (1 .. most)
    BY <1>1, <1>2
  <2> QED
    BY <2>1, <2>2 DEF Guesses
<1>4. IsFiniteSet(Ids \X (1 .. most))
  <2>1. IsFiniteSet(Ids) /\ IsFiniteSet(1 .. most)
    BY <1>1, FS_Interval, NumbersAssumption DEF Ids
  <2> QED
    BY <2>1, FS_Product
<1>5. IsFiniteSet(Guesses(e)) /\ Cardinality(Guesses(e)) \in Nat
  BY <1>3, <1>4, FS_Subset, FS_CardinalityType
<1>6. AboutToGuess(e) \in SUBSET Threads
  BY DEF AboutToGuess
<1> QED
  BY <1>1, <1>5, <1>6, CountType DEF RecentAttemptTotal

\* A step that makes no guess and takes nobody past the ceiling keeps the bound.
LEMMA GuessKept ==
    ASSUME TypeOK, TypeOK', CapInv, CapInv', GuessInv, NEW e \in Emails,
           Guesses(e)' \subseteq Guesses(e), AboutToGuess(e)' \subseteq AboutToGuess(e)
    PROVE  RecentAttemptTotal(e)' + Cardinality(AboutToGuess(e)')
              <= VerifyMax - 1 + Cardinality(Threads)
<1>1. /\ RecentAttemptTotal(e)' <= RecentAttemptTotal(e)
      /\ RecentAttemptTotal(e)' \in Nat
  BY GuessCounts, FS_Subset, FS_CardinalityType DEF RecentAttemptTotal
<1>2. /\ Cardinality(AboutToGuess(e)') <= Cardinality(AboutToGuess(e))
      /\ Cardinality(AboutToGuess(e)') \in Nat
  BY GuessCounts, FS_Subset, FS_CardinalityType
<1>3. RecentAttemptTotal(e) + Cardinality(AboutToGuess(e))
        <= VerifyMax - 1 + Cardinality(Threads)
  BY DEF GuessInv
<1> QED
  BY <1>1, <1>2, <1>3, GuessCounts

\* At most one element more.
LEMMA OneMore ==
    ASSUME NEW S, IsFiniteSet(S), NEW x, NEW R \in SUBSET (S \cup {x})
    PROVE  Cardinality(R) <= Cardinality(S) + 1 /\ Cardinality(R) \in Nat
<1>1. IsFiniteSet(S \cup {x}) /\ Cardinality(S) \in Nat
  BY FS_AddElement, FS_CardinalityType
<1>2. Cardinality(S \cup {x}) = (IF x \in S THEN Cardinality(S) ELSE Cardinality(S) + 1)
  BY FS_AddElement
<1>3. /\ IsFiniteSet(R) /\ Cardinality(R) \in Nat
      /\ Cardinality(R) <= Cardinality(S \cup {x})
  BY <1>1, FS_Subset, FS_CardinalityType
<1> QED
  BY <1>1, <1>2, <1>3

\* The guess itself: it uses up the thread that was about to make it.
LEMMA AttemptGuess ==
    ASSUME IInv, TypeOK', CapInv, CapInv', GuessInv, NEW t \in Threads, AttemptCode(t),
           NEW e \in Emails
    PROVE  RecentAttemptTotal(e)' + Cardinality(AboutToGuess(e)')
              <= VerifyMax - 1 + Cardinality(Threads)
<1>0. TypeOK
  BY DEF IInv
<1>1. /\ pc[t] = "attempt" /\ pc'[t] \in {"find", "idle"}
      /\ \A u \in Threads \ {t} : pc'[u] = pc[u] /\ who'[u] = who[u]
      /\ attempts' = [attempts EXCEPT ![at[t]] = @ + 1]
      /\ UNCHANGED <<clock, minted, challenge>>
  BY <1>0 DEF AttemptCode, Goto, Return, TypeOK
<1>2. /\ at[t] \in Ids /\ challenge[at[t]].email = who[t]
      /\ \A c \in Ids \ {at[t]} : attempts'[c] = attempts[c]
      /\ attempts'[at[t]] = attempts[at[t]] + 1 /\ attempts[at[t]] \in Nat
  BY <1>0, <1>1, InHand DEF IInv, TypeOK
<1>3. Recent(e)' = Recent(e) /\ Recent(e) \subseteq Ids
  BY <1>0, <1>1, IdsType DEF Recent, MintedFor, TypeOK
<1>4. AboutToGuess(e)' = AboutToGuess(e) \ {t}
  BY <1>1 DEF AboutToGuess
<1>5. CASE e # who[t]
  <2>1. at[t] \notin Recent(e)
    BY <1>2, <1>5 DEF Recent, MintedFor
  <2>2. Guesses(e)' = Guesses(e)
    BY <1>2, <1>3, <2>1 DEF Guesses
  <2> QED
    BY <1>0, <1>4, <2>2, GuessKept
<1>6. CASE e = who[t]
  <2> DEFINE g == <<at[t], attempts[at[t]] + 1>>
  <2>1. Guesses(e)' \subseteq Guesses(e) \cup {g}
    <3>1. \A c \in Ids \ {at[t]} :
             {c} \X (1 .. attempts'[c]) = {c} \X (1 .. attempts[c])
      BY <1>2
    <3>2. {at[t]} \X (1 .. attempts'[at[t]])
             \subseteq ({at[t]} \X (1 .. attempts[at[t]])) \cup {g}
      BY <1>2
    <3> QED
      BY <1>3, <3>1, <3>2 DEF Guesses
  <2>2. /\ RecentAttemptTotal(e)' <= RecentAttemptTotal(e) + 1
        /\ RecentAttemptTotal(e)' \in Nat
    <3> HIDE DEF g
    <3>1. IsFiniteSet(Guesses(e)) /\ RecentAttemptTotal(e) = Cardinality(Guesses(e))
      BY <1>0, GuessCounts DEF RecentAttemptTotal
    <3>2. RecentAttemptTotal(e)' = Cardinality(Guesses(e)')
      BY DEF RecentAttemptTotal
    <3> QED
      BY <2>1, <3>1, <3>2, OneMore
  <2>3. t \in AboutToGuess(e)
    BY <1>1, <1>6 DEF AboutToGuess
  <2>4. Cardinality(AboutToGuess(e)') = Cardinality(AboutToGuess(e)) - 1
    <3>1. IsFiniteSet(AboutToGuess(e))
      BY <1>0, GuessCounts
    <3>2. Cardinality(AboutToGuess(e) \ {t}) = Cardinality(AboutToGuess(e)) - 1
      BY <2>3, <3>1, FS_RemoveElement
    <3> QED
      BY <1>4, <3>2
  <2>5. RecentAttemptTotal(e) + Cardinality(AboutToGuess(e))
          <= VerifyMax - 1 + Cardinality(Threads)
    BY DEF GuessInv
  <2> QED
    BY <1>0, <2>2, <2>4, <2>5, GuessCounts
<1> QED
  BY <1>5, <1>6

LEMMA GuessStep == IInv /\ CapInv /\ GuessInv /\ [Next]_vars => GuessInv'
<1> SUFFICES ASSUME IInv, CapInv, GuessInv, [Next]_vars PROVE GuessInv'
  OBVIOUS
<1>0. TypeOK /\ TypeOK' /\ CapInv'
  BY TypeStep, CapStep DEF IInv
<1>1. \A c \in Ids : c > minted' => attempts'[c] = 0
  <2>1. CASE UNCHANGED attempts
    <3>1. minted <= minted' /\ minted \in Nat /\ minted' \in Nat
      BY <1>0, NumbersAssumption
      DEF TypeOK, Next, Request, RequestStep, RequestCode, SubmitCode, ConfirmLink,
          CreateChallenge, SelectChallenge, AttemptCode, PeekToken, ConsumeToken, FindOwner,
          InsertOwner, LookupOwner, LinkProject, IssueSession, Stop, Tick, authVars, vars
    <3> QED
      BY <2>1, <3>1 DEF GuessInv, Ids
  <2>2. ASSUME NEW t \in Threads, AttemptCode(t) PROVE \A c \in Ids : c > minted' => attempts'[c] = 0
    <3>1. at[t] \in 1 .. minted /\ minted' = minted /\ minted \in Nat
      BY <1>0, <2>2, InHand DEF IInv, AttemptCode, TypeOK
    <3> QED
      BY <1>0, <2>2, <3>1 DEF AttemptCode, GuessInv, TypeOK, Ids
  <2> QED
    BY <2>1, <2>2
    DEF Next, Request, RequestStep, RequestCode, SubmitCode, ConfirmLink,
        CreateChallenge, SelectChallenge, PeekToken, ConsumeToken, FindOwner,
        InsertOwner, LookupOwner, LinkProject, IssueSession, Stop, Tick, authVars, vars
<1> SUFFICES ASSUME NEW e \in Emails
             PROVE  RecentAttemptTotal(e)' + Cardinality(AboutToGuess(e)')
                       <= VerifyMax - 1 + Cardinality(Threads)
  BY <1>1 DEF GuessInv
<1>2. ASSUME NEW t \in Threads, NEW f \in Emails, NEW code \in 0 .. minted,
             SubmitCode(t, f, code)
      PROVE  RecentAttemptTotal(e)' + Cardinality(AboutToGuess(e)')
                <= VerifyMax - 1 + Cardinality(Threads)
  <2>1. Guesses(e)' = Guesses(e)
    BY <1>2 DEF SubmitCode, authVars, Guesses, Recent, MintedFor
  <2>2. CASE e = f
    <3>1. /\ RecentAttemptTotal(e)' = RecentAttemptTotal(e)
          /\ RecentAttemptTotal(e) < VerifyMax
      BY <1>2, <2>1, <2>2 DEF SubmitCode, RecentAttemptTotal
    <3>2. AboutToGuess(e)' \in SUBSET Threads
      BY DEF AboutToGuess
    <3>3. /\ Cardinality(AboutToGuess(e)') \in Nat
          /\ Cardinality(AboutToGuess(e)') <= Cardinality(Threads)
      BY <3>2, CountType
    <3> QED
      BY <1>0, <3>1, <3>3, GuessCounts
  <2>3. CASE e # f
    <3>1. AboutToGuess(e)' \subseteq AboutToGuess(e)
      BY <1>0, <1>2, <2>3 DEF SubmitCode, Begin, AboutToGuess, TypeOK
    <3> QED
      BY <1>0, <2>1, <3>1, GuessKept
  <2> QED
    BY <2>2, <2>3
<1>3. ASSUME NEW t \in Threads, CreateChallenge(t)
      PROVE  RecentAttemptTotal(e)' + Cardinality(AboutToGuess(e)')
                <= VerifyMax - 1 + Cardinality(Threads)
  <2>1. /\ pc'[t] = "idle"
        /\ \A u \in Threads \ {t} : pc'[u] = pc[u] /\ who'[u] = who[u]
        /\ minted' = minted + 1 /\ minted \in Nat /\ clock' = clock /\ attempts' = attempts
        /\ \A c \in 1 .. minted : challenge'[c] = challenge[c]
        /\ minted + 1 \in Ids
    BY <1>0, <1>3, NumbersAssumption DEF CreateChallenge, Return, TypeOK, Ids
  <2>2. \A c \in 1 .. minted' : c # minted + 1 => c \in 1 .. minted
    BY <2>1
  <2>3. Recent(e)' \subseteq Recent(e) \cup {minted + 1}
    BY <2>1, <2>2 DEF Recent, MintedFor
  <2>4. attempts[minted + 1] = 0
    BY <2>1 DEF GuessInv
  <2>5. Guesses(e)' \subseteq Guesses(e)
    <3>1. 1 .. attempts[minted + 1] = {}
      BY <2>4
    <3> QED
      BY <2>1, <2>3, <3>1 DEF Guesses
  <2>6. AboutToGuess(e)' \subseteq AboutToGuess(e)
    BY <2>1 DEF AboutToGuess
  <2> QED
    BY <1>0, <2>5, <2>6, GuessKept
<1>4. CASE /\ UNCHANGED <<clock, minted, challenge, attempts>>
           /\ \A t \in Threads : pc'[t] \in {"select", "attempt"} =>
                                    pc[t] \in {"select", "attempt"} /\ who'[t] = who[t]
  <2>1. Guesses(e)' = Guesses(e) /\ AboutToGuess(e)' \subseteq AboutToGuess(e)
    BY <1>4 DEF Guesses, Recent, MintedFor, AboutToGuess
  <2> QED
    BY <1>0, <2>1, GuessKept
<1>5. ASSUME NEW t \in Threads, Request(t),
             ~ (\E f \in Emails, code \in 0 .. minted : SubmitCode(t, f, code))
      PROVE  RecentAttemptTotal(e)' + Cardinality(AboutToGuess(e)')
                <= VerifyMax - 1 + Cardinality(Threads)
  <2>1. /\ UNCHANGED <<clock, minted, challenge, attempts>> /\ pc'[t] \in {"mint", "peek"}
        /\ \A u \in Threads \ {t} : pc'[u] = pc[u] /\ who'[u] = who[u]
    BY <1>0, <1>5 DEF Request, RequestCode, ConfirmLink, Begin, authVars, TypeOK
  <2> QED
    BY <1>4, <2>1
<1>6. ASSUME NEW t \in Threads, RequestStep(t), ~ CreateChallenge(t), ~ AttemptCode(t)
      PROVE  RecentAttemptTotal(e)' + Cardinality(AboutToGuess(e)')
                <= VerifyMax - 1 + Cardinality(Threads)
  <2>1. /\ UNCHANGED <<clock, minted, challenge, attempts>>
        /\ pc'[t] = "attempt" => pc[t] = "select" /\ who'[t] = who[t]
        /\ pc'[t] # "select"
        /\ \A u \in Threads \ {t} : pc'[u] = pc[u] /\ who'[u] = who[u]
    BY <1>0, <1>6
    DEF RequestStep, SelectChallenge, PeekToken, ConsumeToken, FindOwner,
        InsertOwner, LookupOwner, LinkProject, IssueSession, Goto, Return, authVars, TypeOK
  <2> QED
    BY <1>4, <2>1
<1>7. CASE Stop
  BY <1>4, <1>7 DEF Stop, authVars
<1>8. CASE Tick
  <2>1. \A c \in MintedFor(e) :
            challenge[c].created \in Nat /\ clock \in Nat /\ Window \in Nat
    BY <1>0, NumbersAssumption DEF TypeOK, MintedFor, Challenges
  <2>2. Recent(e)' \subseteq Recent(e)
    BY <1>8, <2>1 DEF Tick, authVars, Recent, MintedFor
  <2>3. Guesses(e)' \subseteq Guesses(e) /\ AboutToGuess(e)' = AboutToGuess(e)
    BY <1>8, <2>2 DEF Tick, authVars, requestVars, Guesses, AboutToGuess
  <2> QED
    BY <1>0, <2>3, GuessKept
<1>9. CASE UNCHANGED vars
  BY <1>4, <1>9 DEF vars, authVars, requestVars
<1> QED
  BY <1>0, <1>2, <1>3, <1>5, <1>6, <1>7, <1>8, <1>9, AttemptGuess
  DEF Next, Request, RequestStep

\* Guesses made at the same time pass the ceiling of an email by one per extra
\* request at most, however many fresh codes are asked for meanwhile.
THEOREM GuessCap == Spec => []GuessesBounded
<1>1. Init => CapInv
  BY CapInit
<1>2. Init => GuessInv
  <2> SUFFICES ASSUME Init, NEW e \in Emails
               PROVE  /\ RecentAttemptTotal(e) + Cardinality(AboutToGuess(e))
                           <= VerifyMax - 1 + Cardinality(Threads)
                      /\ \A c \in Ids : attempts[c] = 0
    BY DEF GuessInv, Init
  <2>1. AboutToGuess(e) = {} /\ Guesses(e) = {} /\ \A c \in Ids : attempts[c] = 0
    BY DEF Init, AboutToGuess, Guesses, Recent, MintedFor
  <2>2. RecentAttemptTotal(e) = 0 /\ Cardinality(AboutToGuess(e)) = 0
    BY <2>1, FS_EmptySet DEF RecentAttemptTotal
  <2> QED
    BY <2>1, <2>2, CountType, NumbersAssumption
<1>3. IInv /\ CapInv /\ GuessInv /\ [Next]_vars => CapInv' /\ GuessInv'
  BY CapStep, GuessStep
<1>4. IInv /\ CapInv /\ GuessInv => GuessesBounded
  <2> SUFFICES ASSUME IInv, CapInv, GuessInv, NEW e \in Emails
               PROVE  RecentAttemptTotal(e) <= VerifyMax - 1 + Cardinality(Threads)
    BY DEF GuessesBounded
  <2>1. TypeOK
    BY DEF IInv
  <2> QED
    BY <2>1, GuessCounts DEF GuessInv
<1> QED
  BY <1>1, <1>2, <1>3, <1>4, SignInInvariance, PTL DEF Spec
=============================================================================
