-------------------------- MODULE IntakePageProofs --------------------------
(***************************************************************************)
(* What holds of the intake for every set of answers, records and clicks   *)
(* and for any number of calls and failures: the record changes only where *)
(* the owner spoke, and no word is lost but in the ways the actions name.  *)
(***************************************************************************)
EXTENDS IntakePage, TLAPS

-----------------------------------------------------------------------------
(* The stored record *)

\* A field that normalisation leaves alone, and a record of such fields.
Stable(a) == NormalizeField(a) = a /\ IsField(a)
Settled(f) == DOMAIN f = FieldNames /\ \A n \in FieldNames : Stable(f[n])

LEMMA NormalizeStable == ASSUME NEW raw PROVE Stable(NormalizeField(raw))
  BY DEF Stable, NormalizeField, IsField, FieldStatuses, Deferrable

LEMMA SeedStable == ASSUME NEW n, NEW p PROVE Stable(Seed(n, p))
<1>1. SeedStatus(n, p) \in FieldStatuses
  BY DEF SeedStatus, FieldStatuses
<1> QED
  BY <1>1 DEF Stable, Seed, Field, NormalizeField, IsField, FieldStatuses, Deferrable

LEMMA NormalStable == ASSUME NEW a \in Normal PROVE Stable(a)
  BY DEF Stable, Normal, Answer, NormalizeField, IsField, FieldStatuses, Deferrable

LEMMA MigrateSettled == ASSUME NEW p, NEW e PROVE Settled(MigrateProfile(p, e))
  BY NormalizeStable, SeedStable DEF Settled, MigrateProfile

\* A patch replaces the fields it names, and leaves the others as they are.
LEMMA MergePatches ==
    ASSUME NEW f, Settled(f), NEW p
    PROVE  /\ Settled(MergeIntakePatch(f, p))
           /\ \A n \in FieldNames :
                MergeIntakePatch(f, p)[n]
                    = IF n \in DOMAIN p THEN NormalizeField(p[n]) ELSE f[n]
<1>1. \A n \in FieldNames : MigrateProfile(NoProfile, f)[n] = f[n]
  BY DEF MigrateProfile, Settled, Stable
<1>2. \A n \in FieldNames :
        MergeIntakePatch(f, p)[n]
            = IF n \in DOMAIN p THEN NormalizeField(p[n]) ELSE f[n]
  BY <1>1 DEF MergeIntakePatch
<1>3. DOMAIN MergeIntakePatch(f, p) = FieldNames
  BY DEF MergeIntakePatch
<1> QED
  BY <1>2, <1>3, NormalizeStable DEF Settled

\* A record that was migrated once is left alone by every later migration,
\* whatever profile it is migrated with.
THEOREM MigrationIsIdempotent ==
    ASSUME NEW p, NEW q, NEW e
    PROVE  MigrateProfile(q, MigrateProfile(p, e)) = MigrateProfile(p, e)
<1> DEFINE f == MigrateProfile(p, e)
<1>1. Settled(f)
  BY MigrateSettled
<1>2. \A n \in FieldNames : IF n \in DOMAIN f /\ IsField(f[n])
                            THEN NormalizeField(f[n]) = f[n] ELSE FALSE
  BY <1>1 DEF Settled, Stable
<1>3. f = [n \in FieldNames |-> f[n]]
  BY DEF MigrateProfile
<1> HIDE DEF f
<1>4. MigrateProfile(q, f) = [n \in FieldNames |-> f[n]]
  BY <1>2 DEF MigrateProfile
<1> QED
  BY <1>3, <1>4 DEF f

LEMMA MergeMigrates ==
    ASSUME NEW f, NEW p
    PROVE  /\ Settled(MergeIntakePatch(f, p))
           /\ MergeIntakePatch(f, p) = [n \in FieldNames |-> MergeIntakePatch(f, p)[n]]
<1>1. \A n \in FieldNames : Stable(MergeIntakePatch(f, p)[n])
  BY MigrateSettled, NormalizeStable DEF MergeIntakePatch, Settled
<1> QED
  BY <1>1 DEF MergeIntakePatch, Settled

\* A save that is delivered twice, with nothing in between, is one save.
THEOREM MergeIsIdempotent ==
    ASSUME NEW f, NEW p
    PROVE  MergeIntakePatch(MergeIntakePatch(f, p), p) = MergeIntakePatch(f, p)
<1> DEFINE g == MergeIntakePatch(f, p)
           h == MergeIntakePatch(g, p)
<1>1. \A n \in FieldNames : n \in DOMAIN p => g[n] = NormalizeField(p[n])
  BY DEF MergeIntakePatch
<1>2. \A n \in FieldNames : h[n] = IF n \in DOMAIN p THEN NormalizeField(p[n]) ELSE g[n]
  BY MergeMigrates, MergePatches
<1>3. g = [n \in FieldNames |-> g[n]] /\ h = [n \in FieldNames |-> h[n]]
  BY MergeMigrates
<1> HIDE DEF g, h
<1>4. \A n \in FieldNames : h[n] = g[n]
  BY <1>1, <1>2
<1>5. h = g
  BY <1>3, <1>4
<1> QED
  BY <1>5 DEF g, h

\* Saves of different questions may be carried out in either order.
THEOREM MergesCommute ==
    ASSUME NEW f, NEW p, NEW q, DOMAIN p \cap DOMAIN q = {}
    PROVE  MergeIntakePatch(MergeIntakePatch(f, p), q)
               = MergeIntakePatch(MergeIntakePatch(f, q), p)
<1> DEFINE g == MergeIntakePatch(f, p)
           h == MergeIntakePatch(f, q)
           gq == MergeIntakePatch(g, q)
           hp == MergeIntakePatch(h, p)
           base == MigrateProfile(NoProfile, f)
<1>1. \A n \in FieldNames : g[n] = IF n \in DOMAIN p THEN NormalizeField(p[n]) ELSE base[n]
  BY DEF MergeIntakePatch
<1>2. \A n \in FieldNames : h[n] = IF n \in DOMAIN q THEN NormalizeField(q[n]) ELSE base[n]
  BY DEF MergeIntakePatch
<1>3. \A n \in FieldNames : gq[n] = IF n \in DOMAIN q THEN NormalizeField(q[n]) ELSE g[n]
  BY MergeMigrates, MergePatches
<1>4. \A n \in FieldNames : hp[n] = IF n \in DOMAIN p THEN NormalizeField(p[n]) ELSE h[n]
  BY MergeMigrates, MergePatches
<1>5. gq = [n \in FieldNames |-> gq[n]] /\ hp = [n \in FieldNames |-> hp[n]]
  BY MergeMigrates
<1> HIDE DEF g, h, gq, hp, base
<1>6. \A n \in FieldNames : gq[n] = hp[n]
  BY <1>1, <1>2, <1>3, <1>4
<1>7. gq = hp
  BY <1>5, <1>6
<1> QED
  BY <1>7 DEF gq, hp, g, h

-----------------------------------------------------------------------------
(* The shape of the state *)

IsCall(c) == DOMAIN c = {"id", "kind", "patch", "stage", "reply"} /\ c.id \in Nat

\* Drafts and saves hold words of the owner and nothing else.
Shape ==
    /\ Settled(fields)
    /\ DOMAIN drafts \subseteq DOMAIN word
    /\ \A c \in calls : IsCall(c) /\ DOMAIN c.patch \subseteq DOMAIN word
    /\ \A q \in DOMAIN newest : newest[q] \in Nat
    /\ count.calls \in Nat
    /\ DOMAIN count = {"answers", "calls", "failures", "reports"}

LEMMA NoDraftsEmpty == DOMAIN NoDrafts = {}
  BY DEF NoDrafts

LEMMA InitShape == Init => Shape
<1> SUFFICES ASSUME Init PROVE Shape
  OBVIOUS
<1>1. Settled(fields)
  <2>1. CASE fields = EmptyState
    BY <2>1, MigrateSettled DEF EmptyState
  <2>2. CASE fields \in Starts
    BY <2>2, PageAssumption, NormalStable DEF Settled
  <2> QED
    BY <2>1, <2>2 DEF Init
<1>2. /\ DOMAIN drafts \subseteq DOMAIN word /\ calls = {} /\ DOMAIN newest = {}
      /\ count.calls \in Nat
      /\ DOMAIN count = {"answers", "calls", "failures", "reports"}
  BY NoDraftsEmpty DEF Init
<1> QED
  BY <1>1, <1>2 DEF Shape

-----------------------------------------------------------------------------
(* The calls under way *)

\* What the page waits for: a Continue under way holds it.
Standing ==
    /\ gate => step = "trust" /\ busy = "no"
    /\ step = "trust" => drafts = NoDrafts
    /\ busy \in {"begin", "begin again"} => step = "trust"
    /\ \A c \in calls : c.kind = "save" => busy = "save" /\ step = "intake"

\* There is one Continue at most, and no two calls of the same number.
Numbered ==
    /\ \A c, d \in calls : c.kind = "save" /\ d.kind = "save" => c = d
    /\ \A c, d \in calls : c.id = d.id => c = d
    /\ \A c \in calls : c.id <= count.calls

Frame == Shape /\ Standing /\ Numbered

LEMMA BumpCounts ==
    ASSUME Shape, NEW k \in {"answers", "calls", "failures", "reports"}, Bump(k)
    PROVE  /\ count'.calls = IF k = "calls" THEN count.calls + 1 ELSE count.calls
           /\ DOMAIN count' = {"answers", "calls", "failures", "reports"}
  BY DEF Bump, Shape

LEMMA Orphaned ==
    ASSUME NEW c, IsCall(c)
    PROVE  LET x == [c EXCEPT !.kind = "orphan", !.reply = NoDrafts]
           IN  IsCall(x) /\ x.id = c.id /\ x.kind = "orphan" /\ x.patch = c.patch
               /\ x.stage = c.stage
  BY DEF IsCall

\* c has moved on to x or is gone, and nothing else happened to the calls.
Advanced(c, x) ==
    /\ c \in calls /\ calls' \subseteq (calls \ {c}) \cup {x}
    /\ IsCall(x) /\ x.id = c.id /\ x.kind = c.kind /\ x.patch = c.patch

\* A new call, with the next number.
Sent(kind, patch) ==
    \E c : /\ calls' = calls \cup {c} /\ IsCall(c)
           /\ c.id = count.calls + 1 /\ c.kind = kind /\ c.patch = patch /\ c.stage = "sent"

LEMMA SendSends ==
    ASSUME Shape, NEW kind, NEW patch, Send(kind, patch)
    PROVE  Sent(kind, patch) /\ count'.calls = count.calls + 1
           /\ DOMAIN count' = {"answers", "calls", "failures", "reports"}
<1> DEFINE c == [id |-> count.calls + 1, kind |-> kind, patch |-> patch, stage |-> "sent",
                 reply |-> NoDrafts]
<1>1. IsCall(c) /\ c.id = count.calls + 1 /\ c.kind = kind /\ c.patch = patch /\ c.stage = "sent"
  BY DEF IsCall, Shape
<1>2. calls' = calls \cup {c} /\ Bump("calls")
  BY DEF Send
<1>3. Sent(kind, patch)
  BY <1>1, <1>2 DEF Sent
<1> QED
  BY <1>2, <1>3, BumpCounts

\* The number of calls does not change.
Counted ==
    /\ count'.calls = count.calls
    /\ DOMAIN count' = {"answers", "calls", "failures", "reports"}

LEMMA CountUnchanged == ASSUME Shape, UNCHANGED count PROVE Counted
  BY DEF Shape, Counted

LEMMA CountBumped ==
    ASSUME Shape, NEW k \in {"answers", "failures", "reports"}, Bump(k) PROVE Counted
  BY BumpCounts DEF Counted

LEMMA NumberedAdvance ==
    ASSUME Frame, Counted, NEW c, NEW x, Advanced(c, x)
    PROVE  Numbered'
<1>1. \A d \in calls' : (d \in calls /\ d # c) \/ d = x
  BY DEF Advanced
<1>2. /\ c \in calls /\ x.id = c.id /\ x.kind = c.kind /\ count'.calls = count.calls
  BY DEF Advanced, Counted
<1>3. \A d \in calls' : d.id <= count'.calls
  BY <1>1, <1>2 DEF Frame, Numbered
<1>4. \A d, e \in calls' : d.id = e.id => d = e
  BY <1>1, <1>2 DEF Frame, Numbered
<1>5. \A d, e \in calls' : d.kind = "save" /\ e.kind = "save" => d = e
  BY <1>1, <1>2 DEF Frame, Numbered
<1> QED
  BY <1>3, <1>4, <1>5 DEF Numbered

LEMMA NumberedSend ==
    ASSUME Frame, NEW kind, NEW patch, Sent(kind, patch), count'.calls = count.calls + 1,
           kind = "save" => \A c \in calls : c.kind # "save"
    PROVE  Numbered'
<1>1. PICK c : /\ calls' = calls \cup {c} /\ IsCall(c)
               /\ c.id = count.calls + 1 /\ c.kind = kind
  BY DEF Sent
<1>2. count.calls \in Nat /\ \A d \in calls : d.id \in Nat /\ d.id <= count.calls
  BY DEF Frame, Shape, Numbered, IsCall
<1>3. \A d \in calls' : d.id <= count'.calls
  BY <1>1, <1>2
<1>4. \A d, e \in calls' : d.id = e.id => d = e
  BY <1>1, <1>2 DEF Frame, Numbered
<1>5. \A d, e \in calls' : d.kind = "save" /\ e.kind = "save" => d = e
  BY <1>1 DEF Frame, Numbered
<1> QED
  BY <1>3, <1>4, <1>5 DEF Numbered

\* The actions that touch no draft, no save and no stored answer.
Quiet ==
    \/ Begin \/ LoadFails \/ Gate \/ Reflect \/ AdvanceAfterReflection \/ Back
    \/ SeeReadiness \/ Finish \/ FinishFails \/ BackToIntake

core == <<fields, drafts, calls, word, newest, exposed>>

LEMMA QuietCore ==
    ASSUME Frame, Quiet
    PROVE  UNCHANGED core /\ Counted /\ Standing'
<1> USE DEF Frame, core, server, page, history
<1>1. CASE Begin
  <2>1. UNCHANGED core /\ Standing'
    BY <1>1 DEF Begin, Standing
  <2> QED
    BY <1>1, <2>1, CountUnchanged, CountBumped DEF Begin
<1>2. CASE LoadFails
  BY <1>2, CountBumped DEF LoadFails, Standing
<1>3. CASE Gate
  BY <1>3, CountUnchanged DEF Gate, Standing
<1>4. CASE Reflect
  BY <1>4, CountUnchanged, CountBumped DEF Reflect, Standing
<1>5. CASE AdvanceAfterReflection
  BY <1>5, CountUnchanged DEF AdvanceAfterReflection, Standing
<1>6. CASE Back
  BY <1>6, CountUnchanged DEF Back, Standing
<1>7. CASE SeeReadiness
  BY <1>7, CountUnchanged DEF SeeReadiness, Standing
<1>8. CASE Finish
  <2>0. /\ UNCHANGED core /\ gate' = gate /\ busy = "finish" /\ busy' = "no"
        /\ step' \in {step, "report"}
    BY <1>8 DEF Finish
  <2>1. UNCHANGED core /\ Standing'
    BY <2>0 DEF Standing
  <2>2. CASE Bump("reports")
    BY <2>1, <2>2, CountBumped
  <2>3. CASE count' = [count EXCEPT !.reports = @ + 1, !.failures = @ + 1]
    BY <2>1, <2>3 DEF Counted, Shape
  <2> QED
    BY <1>8, <2>2, <2>3 DEF Finish
<1>9. CASE FinishFails
  BY <1>9, CountBumped DEF FinishFails, Standing
<1>10. CASE BackToIntake
  BY <1>10, CountUnchanged DEF BackToIntake, Standing
<1> QED
  BY <1>1, <1>2, <1>3, <1>4, <1>5, <1>6, <1>7, <1>8, <1>9, <1>10 DEF Quiet

LEMMA FrameKept ==
    ASSUME Frame, UNCHANGED core, Counted, Standing'
    PROVE  Frame'
  BY DEF Frame, Shape, Numbered, Counted, core

LEMMA ShapeAdvance ==
    ASSUME Frame, NEW c, NEW x, Advanced(c, x), UNCHANGED word
    PROVE  \A d \in calls' : IsCall(d) /\ DOMAIN d.patch \subseteq DOMAIN word'
  BY DEF Frame, Shape, Advanced

LEMMA LoadFrame == ASSUME Frame, Load PROVE Frame'
<1> USE DEF Frame
<1>1. UNCHANGED <<fields, calls, newest>> /\ Counted
  BY CountUnchanged DEF Load
<1>2. DOMAIN word \subseteq DOMAIN word' /\ DOMAIN drafts' \subseteq DOMAIN word'
  BY NoDraftsEmpty DEF Load, Shape, With, Standing
<1>3. Shape'
  BY <1>1, <1>2 DEF Shape, Counted
<1>4. Standing'
  BY <1>1 DEF Standing, Load
<1>5. Numbered'
  BY <1>1 DEF Numbered, Counted
<1> QED
  BY <1>3, <1>4, <1>5

LEMMA ReopenFrame ==
    ASSUME Frame, Reopen
    PROVE  /\ Frame'
           /\ \A c \in calls' : /\ c.kind = "orphan"
                                /\ \E d \in calls : c.id = d.id /\ c.patch = d.patch
<1> USE DEF Frame
<1>1. UNCHANGED <<fields, word, newest>> /\ Counted /\ drafts' = NoDrafts
  BY CountBumped DEF Reopen, server
<1>2. ASSUME NEW c \in calls'
      PROVE  /\ IsCall(c) /\ c.kind = "orphan"
             /\ \E d \in calls : /\ c = [d EXCEPT !.kind = "orphan", !.reply = NoDrafts]
                                 /\ c.id = d.id /\ c.patch = d.patch
  <2>1. PICK d \in calls : c = [d EXCEPT !.kind = "orphan", !.reply = NoDrafts]
    BY DEF Reopen
  <2>2. IsCall(d)
    BY DEF Shape
  <2> QED
    BY <2>1, <2>2, Orphaned
<1>3. Shape'
  BY <1>1, <1>2, NoDraftsEmpty DEF Shape, Counted
<1>4. Standing'
  BY <1>2 DEF Standing, Reopen
<1>5. ASSUME NEW c \in calls', NEW d \in calls', c.id = d.id PROVE c = d
  <2>1. PICK e \in calls : c = [e EXCEPT !.kind = "orphan", !.reply = NoDrafts] /\ c.id = e.id
    BY <1>2
  <2>2. PICK f \in calls : d = [f EXCEPT !.kind = "orphan", !.reply = NoDrafts] /\ d.id = f.id
    BY <1>2
  <2>3. e = f
    BY <1>5, <2>1, <2>2 DEF Numbered
  <2> QED
    BY <2>1, <2>2, <2>3
<1>6. Numbered'
  BY <1>1, <1>2, <1>5 DEF Numbered, Counted
<1> QED
  BY <1>2, <1>3, <1>4, <1>6

LEMMA EnterFrame == ASSUME Frame, NEW a, Enter(a) PROVE Frame'
<1> USE DEF Frame
<1>1. UNCHANGED <<fields, calls, newest>> /\ Counted
  BY CountBumped DEF Enter, server
<1>2. DOMAIN word \subseteq DOMAIN word' /\ DOMAIN drafts' \subseteq DOMAIN word'
  BY DEF Enter, Shape, With
<1>3. Shape'
  BY <1>1, <1>2 DEF Shape, Counted
<1>4. Standing'
  BY <1>1 DEF Standing, Enter
<1>5. Numbered'
  BY <1>1 DEF Numbered, Counted
<1> QED
  BY <1>3, <1>4, <1>5

LEMMA CompleteFrame == ASSUME Frame, NEW r \in Clicks, Complete(r) PROVE Frame'
<1> USE DEF Frame
<1>1. UNCHANGED <<drafts, calls, newest, step, busy, gate>> /\ Counted
  BY CountUnchanged DEF Complete
<1>2. Settled(fields')
  BY MergePatches DEF Shape, Complete, CompleteAction
<1>3. DOMAIN word \subseteq DOMAIN word'
  BY DEF Complete, With
<1>4. Shape'
  BY <1>1, <1>2, <1>3 DEF Shape, Counted
<1>5. Standing' /\ Numbered'
  BY <1>1 DEF Standing, Numbered, Counted
<1> QED
  BY <1>4, <1>5

\* An action that sends no call, and moves one on at most.
LEMMA AdvanceFrame ==
    ASSUME Frame, Counted, NEW c, NEW x, Advanced(c, x), UNCHANGED word,
           Settled(fields'), DOMAIN drafts' \subseteq DOMAIN word,
           \A q \in DOMAIN newest' : newest'[q] \in Nat, Standing'
    PROVE  Frame'
<1>1. \A d \in calls' : IsCall(d) /\ DOMAIN d.patch \subseteq DOMAIN word'
  BY ShapeAdvance
<1>2. Shape'
  BY <1>1 DEF Shape, Counted, Frame
<1> QED
  BY <1>2, NumberedAdvance DEF Frame

\* Drafts are sent as they are on the page.
LEMMA SendDraftsFrame ==
    ASSUME Frame, NEW kind, NEW qs, Send(kind, Only(drafts, qs)), Standing',
           UNCHANGED <<fields, drafts, word, newest>>,
           kind = "save" => \A c \in calls : c.kind # "save"
    PROVE  Frame' /\ Sent(kind, Only(drafts, qs))
<1>1. /\ Sent(kind, Only(drafts, qs)) /\ count'.calls = count.calls + 1
      /\ DOMAIN count' = {"answers", "calls", "failures", "reports"}
  BY SendSends DEF Frame
<1>2. \A d \in calls' : IsCall(d) /\ DOMAIN d.patch \subseteq DOMAIN word'
  BY <1>1 DEF Sent, Only, Frame, Shape
<1>3. count'.calls \in Nat /\ DOMAIN count' = {"answers", "calls", "failures", "reports"}
  BY <1>1 DEF Shape, Frame
<1>4. /\ Settled(fields') /\ DOMAIN drafts' \subseteq DOMAIN word'
      /\ \A q \in DOMAIN newest' : newest'[q] \in Nat
  BY DEF Shape, Frame
<1>5. Shape'
  BY <1>2, <1>3, <1>4 DEF Shape
<1>6. Numbered'
  BY <1>1, NumberedSend
<1> QED
  BY <1>1, <1>5, <1>6 DEF Frame

LEMMA SaveAndContinueFrame ==
    ASSUME Frame, SaveAndContinue
    PROVE  Frame' /\ Sent("save", Only(drafts, Asked(seen, Section)))
<1>1. /\ UNCHANGED <<fields, drafts, word, newest, step, gate>>
      /\ step = "intake" /\ busy = "no" /\ busy' = "save"
      /\ Send("save", Only(drafts, Asked(seen, Section)))
  BY DEF SaveAndContinue, server, history
<1>2. \A c \in calls : c.kind # "save"
  BY <1>1 DEF Frame, Standing
<1>3. Standing'
  BY <1>1, <1>2 DEF Frame, Standing
<1> QED
  BY <1>1, <1>2, <1>3, SendDraftsFrame

LEMMA AutosaveFrame ==
    ASSUME Frame, Autosave, ~timer.busy
    PROVE  Frame' /\ Sent("auto", Only(drafts, timer.asked))
<1>1. /\ UNCHANGED <<fields, drafts, word, newest, step, gate, busy>>
      /\ Send("auto", Only(drafts, timer.asked))
  BY DEF Autosave, server, history
<1>2. \A c \in calls' \ calls : c.kind = "auto"
  BY <1>1, SendSends DEF Sent, Frame
<1>3. Standing'
  BY <1>1, <1>2 DEF Frame, Standing
<1> QED
  BY <1>1, <1>3, SendDraftsFrame

\* What the server does with a save: it stores its words, and the call goes on.
LEMMA PutIntakeFrame ==
    ASSUME Frame, NEW c \in calls, PutIntake(c)
    PROVE  /\ Frame'
           /\ \E x : Advanced(c, x) /\ x.stage = "served"
           /\ \A q \in DOMAIN c.patch : q \in DOMAIN newest' /\ newest'[q] >= c.id
           /\ \A q \in DOMAIN newest : q \in DOMAIN newest' /\ newest'[q] >= newest[q]
           /\ \A n \in FieldNames :
                fields'[n] = IF n \in DOMAIN c.patch THEN NormalizeField(c.patch[n])
                                                     ELSE fields[n]
<1> USE DEF Frame
<1> DEFINE x == [c EXCEPT !.stage = "served", !.reply = fields']
<1>1. UNCHANGED <<drafts, word, step, busy, gate>> /\ Counted
  BY CountUnchanged DEF PutIntake, page
<1>2. c.id \in Nat /\ \A q \in DOMAIN newest : newest[q] \in Nat
  BY DEF Shape, IsCall
<1>3. IsCall(x) /\ x.id = c.id /\ x.kind = c.kind /\ x.patch = c.patch /\ x.stage = "served"
  <2>1. IsCall(c)
    BY DEF Shape
  <2> QED
    BY <2>1 DEF IsCall
<1>4. Advanced(c, x)
  BY <1>3 DEF PutIntake, Advanced
<1>5. /\ Settled(fields')
      /\ \A n \in FieldNames :
           fields'[n] = IF n \in DOMAIN c.patch THEN NormalizeField(c.patch[n]) ELSE fields[n]
  BY MergePatches DEF Shape, PutIntake
<1>6. /\ \A q \in DOMAIN newest' : newest'[q] \in Nat
      /\ \A q \in DOMAIN c.patch : q \in DOMAIN newest' /\ newest'[q] >= c.id
      /\ \A q \in DOMAIN newest : q \in DOMAIN newest' /\ newest'[q] >= newest[q]
  BY <1>2 DEF PutIntake
<1>7. Standing'
  BY <1>1, <1>3, <1>4 DEF Standing, Advanced
<1>8. Frame'
  BY <1>1, <1>4, <1>5, <1>6, <1>7, AdvanceFrame DEF Shape
<1> QED
  BY <1>3, <1>4, <1>5, <1>6, <1>8

\* The calls that end, or are lost: nothing but the call and the page changes.
LEMMA CallFailsFrame ==
    ASSUME Frame, NEW c \in calls, CallFails(c)
    PROVE  Frame' /\ \E x : Advanced(c, x) /\ x.stage = "failed"
<1> USE DEF Frame
<1> DEFINE x == [c EXCEPT !.stage = "failed", !.reply = NoDrafts]
<1>1. UNCHANGED <<fields, newest, drafts, word, step, busy, gate>> /\ Counted
  BY CountBumped DEF CallFails, page, server, history
<1>2. IsCall(x) /\ x.id = c.id /\ x.kind = c.kind /\ x.patch = c.patch /\ x.stage = "failed"
  <2>1. IsCall(c)
    BY DEF Shape
  <2> QED
    BY <2>1 DEF IsCall
<1>3. Advanced(c, x)
  BY <1>2 DEF CallFails, Advanced
<1>4. Standing'
  BY <1>1, <1>2, <1>3 DEF Standing, Advanced
<1>5. Frame'
  BY <1>1, <1>3, <1>4, AdvanceFrame DEF Shape
<1> QED
  BY <1>2, <1>3, <1>5

LEMMA CallDoneFrame ==
    ASSUME Frame, NEW c \in calls, ContinueSaved(c) \/ AutoSaved(c) \/ SaveFailed(c)
    PROVE  Frame' /\ calls' = calls \ {c}
<1> USE DEF Frame
<1>1. UNCHANGED <<fields, newest, word, step, gate>> /\ Counted /\ calls' = calls \ {c}
  BY CountUnchanged DEF ContinueSaved, AutoSaved, SaveFailed, server, history
<1>2. drafts' \in {drafts, NoDrafts}
  BY DEF ContinueSaved, AutoSaved, SaveFailed
<1>3. Advanced(c, c)
  BY <1>1 DEF Advanced, Shape
<1>4. DOMAIN drafts' \subseteq DOMAIN word
  BY <1>2, NoDraftsEmpty DEF Shape
<1>5. Standing'
  <2>1. CASE c.kind = "save"
    <3>1. busy = "save" /\ busy' \in {"no", "reflect"} /\ \A d \in calls' : d.kind # "save"
      BY <1>1, <2>1 DEF Standing, Numbered, ContinueSaved, AutoSaved, SaveFailed
    <3> QED
      BY <1>1, <1>2, <3>1 DEF Standing
  <2>2. CASE c.kind # "save"
    <3>1. busy' = busy
      BY <2>2 DEF ContinueSaved, AutoSaved, SaveFailed
    <3> QED
      BY <1>1, <1>2, <3>1 DEF Standing
  <2> QED
    BY <2>1, <2>2
<1>6. Frame'
  BY <1>1, <1>3, <1>4, <1>5, AdvanceFrame DEF Shape
<1> QED
  BY <1>1, <1>6

LEMMA AutosaveNothing ==
    ASSUME Frame, Autosave, timer.busy
    PROVE  UNCHANGED core /\ timer' = NoTimer /\ Frame'
<1>1. UNCHANGED core /\ UNCHANGED <<step, busy, gate, count>> /\ timer' = NoTimer
  BY DEF Autosave, server, history, core
<1>2. Standing'
  BY <1>1 DEF Standing, Frame, core
<1> QED
  BY <1>1, <1>2, CountUnchanged, FrameKept DEF Frame

LEMMA FrameInit == Init => Frame
  BY InitShape DEF Init, Frame, Standing, Numbered

LEMMA FrameStep == Frame /\ [Next]_vars => Frame'
<1> SUFFICES ASSUME Frame, [Next]_vars PROVE Frame'
  OBVIOUS
<1>1. CASE Quiet
  BY <1>1, QuietCore, FrameKept
<1>2. CASE Load
  BY <1>2, LoadFrame
<1>3. CASE Reopen
  BY <1>3, ReopenFrame
<1>4. CASE \E a \in Answers : Enter(a)
  BY <1>4, EnterFrame
<1>5. CASE Autosave
  BY <1>5, AutosaveFrame, AutosaveNothing
<1>6. CASE SaveAndContinue
  BY <1>6, SaveAndContinueFrame
<1>7. CASE \E c \in calls :
              PutIntake(c) \/ CallFails(c) \/ ContinueSaved(c) \/ AutoSaved(c) \/ SaveFailed(c)
  BY <1>7, PutIntakeFrame, CallFailsFrame, CallDoneFrame
<1>8. CASE \E r \in Clicks : Complete(r)
  BY <1>8, CompleteFrame
<1>9. CASE UNCHANGED vars
  <2>1. UNCHANGED core /\ UNCHANGED <<step, busy, gate, count>>
    BY <1>9 DEF vars, server, page, history, core
  <2>2. Standing'
    BY <2>1 DEF Standing, Frame, core
  <2> QED
    BY <2>1, <2>2, CountUnchanged, FrameKept DEF Frame
<1> QED
  BY <1>1, <1>2, <1>3, <1>4, <1>5, <1>6, <1>7, <1>8, <1>9 DEF Next, Quiet

\* The shape of the state and of its calls: a Continue is under way only while
\* the page waits for it, and there is never a second (page.jsx 215-246).
THEOREM OneContinueAtATime == Spec => []Frame
<1> QED
  BY FrameInit, FrameStep, PTL DEF Spec

-----------------------------------------------------------------------------
(* Whose words the record holds *)

\* The stored record is patched by a save and by a click, and by nothing else.
LEMMA WhoPatches ==
    ASSUME Frame, [Next]_vars
    PROVE  \/ UNCHANGED fields
           \/ \E c \in calls : PutIntake(c)
           \/ \E r \in Clicks : Complete(r)
<1> USE DEF server, page, history, core
<1>1. CASE Quiet
  BY <1>1, QuietCore
<1>2. CASE Load
  BY <1>2 DEF Load
<1>3. CASE Reopen
  BY <1>3 DEF Reopen
<1>4. CASE \E a \in Answers : Enter(a)
  BY <1>4 DEF Enter
<1>5. CASE Autosave \/ SaveAndContinue
  BY <1>5 DEF Autosave, SaveAndContinue
<1>6. CASE \E c \in calls : CallFails(c) \/ ContinueSaved(c) \/ AutoSaved(c) \/ SaveFailed(c)
  BY <1>6 DEF CallFails, ContinueSaved, AutoSaved, SaveFailed
<1>7. CASE UNCHANGED vars
  BY <1>7 DEF vars
<1> QED
  BY <1>1, <1>2, <1>3, <1>4, <1>5, <1>6, <1>7 DEF Next, Quiet

LEMMA OwnStep ==
    ASSUME Frame, [Next]_vars, NEW n \in FieldNames, fields'[n] # fields[n]
    PROVE  n \in DOMAIN word'
<1>1. ASSUME NEW c \in calls, PutIntake(c) PROVE n \in DOMAIN word'
  <2>1. n \in DOMAIN c.patch
    BY <1>1, PutIntakeFrame
  <2> QED
    BY <1>1, <2>1 DEF PutIntake, Frame, Shape
<1>2. ASSUME NEW r \in Clicks, Complete(r) PROVE n \in DOMAIN word'
  <2> DEFINE patch == [m \in {r.field} |-> [value |-> r.goodValue, status |-> "answered"]]
  <2>1. fields' = MergeIntakePatch(fields, patch)
    BY <1>2 DEF Complete, CompleteAction
  <2>2. n \in DOMAIN patch
    BY <2>1, MergePatches DEF Frame, Shape
  <2> QED
    BY <1>2, <2>2 DEF Complete, With
<1> QED
  BY <1>1, <1>2, WhoPatches

\* Whatever the owner enters, clicks, leaves or loses, the stored record
\* changes on no question the owner has not spoken on (intake_state.py 329-431).
THEOREM RecordIsOwners == Spec => OnlyOwnWords
<1>1. Frame /\ [Next]_vars
         => [\A n \in FieldNames : fields'[n] # fields[n] => n \in DOMAIN word']_vars
  BY OwnStep
<1> QED
  BY <1>1, OneContinueAtATime, PTL DEF Spec, OnlyOwnWords

-----------------------------------------------------------------------------
(* The questions the owner speaks on *)

\* The questions the one-click steps answer are fields of the record.
LEMMA StepFields ==
    /\ {"booksUpToDate", "financialsDocumented", "profitabilityClear", "ownerCompNormalized"}
          \subseteq FieldNames
    /\ {"keyPersonRisk", "managementDepth", "systemsDocumented"} \subseteq FieldNames
    /\ {"sopsExist", "tribalKnowledgeRisk"} \subseteq FieldNames
    /\ {"alignmentLevel", "expectationsKnown"} \subseteq FieldNames
    /\ {"readinessToLetGo"} \subseteq FieldNames
<1>1. DOMAIN SectionFields =
        {"business", "owner", "financialClarity", "operationalTransferability",
         "processDocumentation", "familyAlignment", "emotionalReadiness",
         "protectedInterests", "successorPreferences"}
  BY DEF SectionFields
<1>2. SectionFields["financialClarity"] =
        <<"booksUpToDate", "financialsDocumented", "revenueTrend", "profitabilityClear",
          "ownerCompNormalized">>
  BY DEF SectionFields
<1>3. SectionFields["operationalTransferability"] =
        <<"functionsDependentOnOwner", "keyPersonRisk", "managementDepth", "systemsDocumented">>
  BY DEF SectionFields
<1>4. SectionFields["processDocumentation"] =
        <<"sopsExist", "documentedAreas", "tribalKnowledgeRisk">>
  BY DEF SectionFields
<1>5. SectionFields["familyAlignment"] =
        <<"familyInBusiness", "expectationsKnown", "alignmentLevel", "conflictRisk">>
  BY DEF SectionFields
<1>6. SectionFields["emotionalReadiness"] =
        <<"primaryMotivation", "urgencyDrivers", "readinessToLetGo", "topConcerns">>
  BY DEF SectionFields
<1>7. {"booksUpToDate", "financialsDocumented", "profitabilityClear", "ownerCompNormalized"}
        \subseteq FieldNames
  BY <1>1, <1>2 DEF FieldNames, ToSet
<1>8. {"keyPersonRisk", "managementDepth", "systemsDocumented"} \subseteq FieldNames
  BY <1>1, <1>3 DEF FieldNames, ToSet
<1>9. {"sopsExist", "tribalKnowledgeRisk"} \subseteq FieldNames
  BY <1>1, <1>4 DEF FieldNames, ToSet
<1>10. {"alignmentLevel", "expectationsKnown"} \subseteq FieldNames
  BY <1>1, <1>5 DEF FieldNames, ToSet
<1>11. {"readinessToLetGo"} \subseteq FieldNames
  BY <1>1, <1>6 DEF FieldNames, ToSet
<1> QED
  BY <1>7, <1>8, <1>9, <1>10, <1>11

LEMMA ClicksAsk == \A r \in Clicks : r.field \in FieldNames
<1>1. \A r \in Clicks : r \in Rules /\ r.goodValue # {}
  BY PageAssumption DEF QuickSteps
<1>2. \A r \in Rules :
        r.goodValue # {} =>
           r.field \in {"booksUpToDate", "financialsDocumented", "profitabilityClear",
                        "ownerCompNormalized", "keyPersonRisk", "managementDepth",
                        "systemsDocumented", "sopsExist", "tribalKnowledgeRisk",
                        "alignmentLevel", "expectationsKnown", "readinessToLetGo"}
  BY DEF Rules, Step
<1> QED
  BY <1>1, <1>2, StepFields

\* The owner speaks on questions of the record.
Asking == DOMAIN word \subseteq FieldNames /\ staged \in Answers \cup {NoAnswer}

LEMMA AskingStep == Asking /\ [Next]_vars => Asking'
<1> SUFFICES ASSUME Asking, [Next]_vars PROVE Asking'
  OBVIOUS
<1> USE DEF Asking, server, page, history
<1>1. \A a \in Answers : a.question \in FieldNames
  BY PageAssumption
<1>2. CASE Begin
  BY <1>2 DEF Begin
<1>3. CASE Load
  BY <1>1, <1>3 DEF Load, With
<1>4. ASSUME NEW a \in Answers, Enter(a) PROVE Asking'
  BY <1>1, <1>4 DEF Enter, With
<1>5. ASSUME NEW r \in Clicks, Complete(r) PROVE Asking'
  BY <1>5, ClicksAsk DEF Complete, With
<1>6. CASE LoadFails \/ Gate \/ Reopen \/ BackToIntake \/ Autosave \/ SaveAndContinue
  BY <1>6 DEF LoadFails, Gate, Reopen, BackToIntake, Autosave, SaveAndContinue
<1>7. CASE Reflect \/ AdvanceAfterReflection \/ Back \/ SeeReadiness \/ Finish \/ FinishFails
  BY <1>7 DEF Reflect, AdvanceAfterReflection, Back, SeeReadiness, Finish, FinishFails
<1>8. ASSUME NEW c \in calls,
             PutIntake(c) \/ CallFails(c) \/ ContinueSaved(c) \/ AutoSaved(c) \/ SaveFailed(c)
      PROVE  Asking'
  BY <1>8 DEF PutIntake, CallFails, ContinueSaved, AutoSaved, SaveFailed
<1>9. CASE UNCHANGED vars
  BY <1>9 DEF vars
<1> QED
  BY <1>2, <1>3, <1>4, <1>5, <1>6, <1>7, <1>8, <1>9 DEF Next

-----------------------------------------------------------------------------
(* Why no word is lost *)

\* A word is held by the page, or stored.
Held(q) == q \in DOMAIN drafts /\ drafts[q] = word[q]
Stored(q) == fields[q] = NormalizeField(word[q])
Safe == DOMAIN word \ exposed

\* The drafts are the owner's last words.
DraftsAreWords == \A q \in DOMAIN drafts \ exposed : q \in DOMAIN word /\ drafts[q] = word[q]

\* Once a word is off the page, no save under way brings an older one: it
\* carries the word itself, or a later save has been carried out.
SentAgrees ==
    \A q \in Safe : ~Held(q) =>
       \A c \in calls : c.stage = "sent" /\ q \in DOMAIN c.patch =>
          c.patch[q] = word[q] \/ (q \in DOMAIN newest /\ newest[q] > c.id)

\* While a Continue waits for its answer, what it sent is stored, ...
SavedStored ==
    \A c \in calls : c.kind = "save" /\ c.stage = "served" =>
       \A q \in DOMAIN c.patch \ exposed : fields[q] = NormalizeField(c.patch[q])

\* ... what is sent after it agrees with it, ...
LaterAgrees ==
    \A c, d \in calls : c.kind = "save" /\ d.id > c.id =>
       \A q \in DOMAIN c.patch \cap DOMAIN d.patch : d.patch[q] = c.patch[q]

\* ... because a timer that may still send saw the drafts it was made of.
DraftsSent ==
    \A c \in calls : c.kind = "save" /\ ~timer.busy =>
       \A q \in DOMAIN c.patch : q \in DOMAIN drafts /\ drafts[q] = c.patch[q]

\* A save that was carried out counts among the newest.
ServedNewest ==
    \A c \in calls : c.stage = "served" =>
       \A q \in DOMAIN c.patch : q \in DOMAIN newest /\ newest[q] >= c.id

Kept ==
    /\ WordKept /\ DraftsAreWords /\ SentAgrees /\ SavedStored
    /\ LaterAgrees /\ DraftsSent /\ ServedNewest

IInv == Frame /\ Asking /\ Kept

LEMMA KeptInit == Init => Kept
  BY NoDraftsEmpty
  DEF Init, Kept, WordKept, DraftsAreWords, SentAgrees, SavedStored, LaterAgrees, DraftsSent,
      ServedNewest, Safe

\* Where nothing of this changes, the timer alone could do harm.
LEMMA QuietKept ==
    ASSUME IInv, UNCHANGED core,
           \/ UNCHANGED timer
           \/ timer'.busy
           \/ \A c \in calls : c.kind # "save"
    PROVE  Kept'
<1> USE DEF IInv, Kept, core
<1>1. DraftsSent'
  BY DEF DraftsSent
<1>2. WordKept' /\ DraftsAreWords' /\ SavedStored' /\ LaterAgrees' /\ ServedNewest'
  BY DEF WordKept, DraftsAreWords, SavedStored, LaterAgrees, ServedNewest
<1>3. SentAgrees'
  BY DEF SentAgrees, Safe, Held
<1> QED
  BY <1>1, <1>2, <1>3

LEMMA QuietTimer ==
    ASSUME Frame, Quiet
    PROVE  \/ UNCHANGED timer
           \/ timer'.busy
           \/ \A c \in calls : c.kind # "save"
<1>1. CASE busy = "save" /\ step = "intake"
  BY <1>1
  DEF Quiet, Begin, LoadFails, Gate, Reflect, AdvanceAfterReflection, Back, SeeReadiness,
      Finish, FinishFails, BackToIntake, page
<1>2. CASE ~(busy = "save" /\ step = "intake")
  BY <1>2 DEF Frame, Standing
<1> QED
  BY <1>1, <1>2

LEMMA LoadKept == ASSUME IInv, Load PROVE Kept'
<1> USE DEF IInv, Kept, Frame
<1>1. /\ UNCHANGED <<fields, calls, newest, exposed>>
      /\ drafts = NoDrafts /\ \A c \in calls : c.kind # "save"
  BY DEF Load, Standing
<1>2. \A q : q \in DOMAIN word /\ (staged = NoAnswer \/ q # staged.question)
               => q \in DOMAIN word' /\ word'[q] = word[q]
  BY DEF Load, With
<1>3. CASE staged = NoAnswer
  <2>1. UNCHANGED <<drafts, word>>
    BY <1>1, <1>3 DEF Load
  <2> QED
    BY <1>1, <2>1, QuietKept DEF core
<1>4. CASE staged # NoAnswer
  <2> DEFINE p == staged.question
  <2>1. /\ DOMAIN drafts' = {p} /\ DOMAIN word' = DOMAIN word \cup {p}
        /\ drafts'[p] = Draft(staged) /\ word'[p] = Draft(staged)
    BY <1>4, NoDraftsEmpty DEF Load, With
  <2>2. \A q \in DOMAIN word : q # p => word'[q] = word[q] /\ ~Held(q)
    BY <1>1, <1>2, NoDraftsEmpty DEF Held
  <2>3. WordKept'
    BY <1>1, <2>1, <2>2 DEF WordKept, Held
  <2>4. DraftsAreWords'
    BY <2>1 DEF DraftsAreWords
  <2>5. SentAgrees'
    BY <1>1, <2>1, <2>2 DEF SentAgrees, Safe, Held
  <2>6. SavedStored' /\ LaterAgrees' /\ DraftsSent' /\ ServedNewest'
    BY <1>1 DEF SavedStored, LaterAgrees, DraftsSent, ServedNewest
  <2> QED
    BY <2>3, <2>4, <2>5, <2>6
<1> QED
  BY <1>3, <1>4

LEMMA ReopenKept == ASSUME IInv, Reopen PROVE Kept'
<1> USE DEF IInv, Kept
<1>1. /\ UNCHANGED <<fields, word, newest>> /\ drafts' = NoDrafts
      /\ exposed \subseteq exposed'
      /\ \A q \in DOMAIN drafts \ exposed' : fields[q] = NormalizeField(drafts[q])
      /\ \A q \in DOMAIN word \ exposed' :
            \A c \in calls : q \in DOMAIN c.patch => c.patch[q] = word[q]
  BY DEF Reopen, server
<1>2. \A c \in calls' : /\ c.kind = "orphan"
                        /\ \E d \in calls : c.id = d.id /\ c.patch = d.patch
  BY ReopenFrame
<1>3. calls' = {[c EXCEPT !.kind = "orphan", !.reply = NoDrafts] :
                  c \in {d \in calls : d.stage = "sent"}}
  BY DEF Reopen
<1>4. \A c \in calls' : c.stage = "sent"
  <2> SUFFICES ASSUME NEW d \in calls, d.stage = "sent"
               PROVE  [d EXCEPT !.kind = "orphan", !.reply = NoDrafts].stage = "sent"
    BY <1>3
  <2> QED
    BY DEF Frame, Shape, IsCall
<1>5. WordKept'
  BY <1>1 DEF WordKept
<1>6. DraftsAreWords'
  BY <1>1, NoDraftsEmpty DEF DraftsAreWords
<1>7. SentAgrees'
  BY <1>1, <1>2 DEF SentAgrees, Safe
<1>8. SavedStored' /\ LaterAgrees' /\ DraftsSent' /\ ServedNewest'
  BY <1>2, <1>4 DEF SavedStored, LaterAgrees, DraftsSent, ServedNewest
<1> QED
  BY <1>5, <1>6, <1>7, <1>8

LEMMA EnterKept == ASSUME IInv, NEW a \in Answers, Enter(a) PROVE Kept'
<1> USE DEF IInv, Kept
<1> DEFINE p == a.question
<1>1. /\ UNCHANGED <<fields, calls, newest>>
      /\ DOMAIN drafts' = DOMAIN drafts \cup {p} /\ DOMAIN word' = DOMAIN word \cup {p}
      /\ drafts'[p] = Draft(a) /\ word'[p] = Draft(a)
      /\ \A q \in DOMAIN drafts : q # p => drafts'[q] = drafts[q]
      /\ \A q \in DOMAIN word : q # p => word'[q] = word[q]
  BY DEF Enter, With, server
<1>2. /\ exposed' \subseteq exposed /\ exposed \subseteq exposed' \cup {p}
      /\ \A c \in calls : \A q \in DOMAIN c.patch : q \notin exposed' => q \notin exposed
  BY DEF Enter, Underway
<1>3. WordKept'
  BY <1>1, <1>2 DEF WordKept
<1>4. DraftsAreWords'
  BY <1>1, <1>2 DEF DraftsAreWords
<1>5. SentAgrees'
  BY <1>1, <1>2 DEF SentAgrees, Safe, Held
<1>6. SavedStored'
  BY <1>1, <1>2 DEF SavedStored
<1>7. LaterAgrees' /\ ServedNewest'
  BY <1>1 DEF LaterAgrees, ServedNewest
<1>8. DraftsSent'
  <2>1. CASE \E c \in calls : c.kind = "save"
    <3>1. busy = "save"
      BY <2>1 DEF Frame, Standing
    <3>2. timer'.busy
      BY <3>1 DEF Enter, Debounce, NoTimer
    <3> QED
      BY <3>2 DEF DraftsSent
  <2>2. CASE \A c \in calls : c.kind # "save"
    BY <1>1, <2>2 DEF DraftsSent
  <2> QED
    BY <2>1, <2>2
<1> QED
  BY <1>3, <1>4, <1>5, <1>6, <1>7, <1>8

LEMMA CompleteKept == ASSUME IInv, NEW r \in Clicks, Complete(r) PROVE Kept'
<1> USE DEF IInv, Kept
<1> DEFINE p == r.field
           good == [value |-> r.goodValue, status |-> "answered"]
<1>1. /\ UNCHANGED <<drafts, calls, newest, timer>>
      /\ DOMAIN word' = DOMAIN word \cup {p} /\ word'[p] = good
      /\ \A q \in DOMAIN word : q # p => word'[q] = word[q]
      /\ \A c \in calls : c.kind # "save"
  BY DEF Complete, With, Frame, Standing
<1>2. /\ fields'[p] = NormalizeField(good)
      /\ \A n \in FieldNames : n # p => fields'[n] = fields[n]
  <2>1. fields' = MergeIntakePatch(fields, [n \in {p} |-> good])
    BY DEF Complete, CompleteAction
  <2> QED
    BY <2>1, MergePatches, ClicksAsk DEF Frame, Shape
<1>3. /\ exposed \subseteq exposed' \cup {p} /\ exposed' \subseteq exposed \cup {p}
      /\ p \notin exposed' => p \notin DOMAIN drafts
      /\ p \notin exposed' => \A c \in calls : p \notin DOMAIN c.patch
  BY DEF Complete, Underway
<1>4. WordKept'
  BY <1>1, <1>2, <1>3 DEF WordKept, Asking
<1>5. DraftsAreWords'
  BY <1>1, <1>3 DEF DraftsAreWords
<1>6. SentAgrees'
  BY <1>1, <1>3 DEF SentAgrees, Safe, Held
<1>7. SavedStored' /\ LaterAgrees' /\ DraftsSent' /\ ServedNewest'
  BY <1>1 DEF SavedStored, LaterAgrees, DraftsSent, ServedNewest
<1> QED
  BY <1>4, <1>5, <1>6, <1>7

\* A save of the drafts as they are: a Continue finds no other, and what a
\* timer sends while a Continue waits agrees with it.
LEMMA SendKept ==
    ASSUME IInv, NEW kind, NEW qs, Sent(kind, Only(drafts, qs)),
           UNCHANGED <<fields, drafts, word, newest, exposed>>,
           \/ kind = "save" /\ \A c \in calls : c.kind # "save"
           \/ kind = "auto" /\ ~timer.busy /\ timer' = NoTimer
    PROVE  Kept'
<1> USE DEF IInv, Kept
<1>1. PICK x : /\ calls' = calls \cup {x} /\ x.id = count.calls + 1 /\ x.kind = kind
               /\ x.patch = Only(drafts, qs) /\ x.stage = "sent"
  BY DEF Sent
<1>2. /\ DOMAIN x.patch \subseteq DOMAIN drafts
      /\ \A q \in DOMAIN x.patch : x.patch[q] = drafts[q]
  BY <1>1 DEF Only
<1>3. x.id \in Nat /\ \A c \in calls : c.id \in Nat /\ c.id < x.id
  BY <1>1 DEF Frame, Shape, Numbered, IsCall
<1>4. WordKept' /\ DraftsAreWords'
  BY DEF WordKept, DraftsAreWords
<1>5. SentAgrees'
  <2>1. \A q \in DOMAIN x.patch \ exposed : x.patch[q] = word[q]
    BY <1>2 DEF DraftsAreWords
  <2> QED
    BY <1>1, <2>1 DEF SentAgrees, Safe, Held
<1>6. SavedStored' /\ ServedNewest'
  BY <1>1 DEF SavedStored, ServedNewest
<1>7. LaterAgrees'
  <2> SUFFICES ASSUME NEW c \in calls', NEW d \in calls', c.kind = "save", d.id > c.id,
                      NEW q \in DOMAIN c.patch \cap DOMAIN d.patch
               PROVE  d.patch[q] = c.patch[q]
    BY DEF LaterAgrees
  <2>1. CASE c = x
    BY <1>1, <1>3, <2>1
  <2>2. CASE c \in calls /\ d \in calls
    BY <2>2 DEF LaterAgrees
  <2>3. CASE c \in calls /\ d = x
    BY <1>2, <2>3 DEF DraftsSent
  <2> QED
    BY <1>1, <2>1, <2>2, <2>3
<1>8. DraftsSent'
  <2>1. CASE kind = "save" /\ \A c \in calls : c.kind # "save"
    BY <1>1, <1>2, <2>1 DEF DraftsSent
  <2>2. CASE timer' = NoTimer
    BY <2>2 DEF DraftsSent, NoTimer
  <2> QED
    BY <2>1, <2>2
<1> QED
  BY <1>4, <1>5, <1>6, <1>7, <1>8

LEMMA SaveAndContinueKept == ASSUME IInv, SaveAndContinue PROVE Kept'
<1>1. UNCHANGED <<fields, drafts, word, newest, exposed>> /\ busy = "no"
  BY DEF SaveAndContinue, server, history
<1>2. \A c \in calls : c.kind # "save"
  BY <1>1 DEF IInv, Frame, Standing
<1> QED
  BY <1>1, <1>2, SaveAndContinueFrame, SendKept DEF IInv

LEMMA AutosaveKept == ASSUME IInv, Autosave PROVE Kept'
<1>1. CASE timer.busy
  BY <1>1, AutosaveNothing, QuietKept DEF IInv, NoTimer
<1>2. CASE ~timer.busy
  <2>1. UNCHANGED <<fields, drafts, word, newest, exposed>> /\ timer' = NoTimer
    BY DEF Autosave, server, history
  <2> QED
    BY <1>2, <2>1, AutosaveFrame, SendKept DEF IInv
<1> QED
  BY <1>1, <1>2

\* A save is carried out.
LEMMA PutIntakeKept == ASSUME IInv, NEW c \in calls, PutIntake(c) PROVE Kept'
<1> USE DEF IInv, Kept
<1>1. /\ UNCHANGED <<drafts, word, timer>>
      /\ exposed' = exposed \cup {q \in DOMAIN c.patch \cap DOMAIN newest : newest[q] > c.id}
      /\ c.stage = "sent"
  BY DEF PutIntake, page
<1>2. /\ \A q \in DOMAIN c.patch : q \in DOMAIN newest' /\ newest'[q] >= c.id
      /\ \A q \in DOMAIN newest : q \in DOMAIN newest' /\ newest'[q] >= newest[q]
      /\ \A n \in FieldNames :
           fields'[n] = IF n \in DOMAIN c.patch THEN NormalizeField(c.patch[n]) ELSE fields[n]
  BY PutIntakeFrame
<1>3. \A d \in calls' :
        \/ d \in calls /\ d # c
        \/ d.id = c.id /\ d.kind = c.kind /\ d.patch = c.patch /\ d.stage = "served"
  BY PutIntakeFrame DEF Advanced
<1>4. /\ \A q \in DOMAIN newest : newest[q] \in Nat
      /\ \A q \in DOMAIN newest' : newest'[q] \in Nat
      /\ \A d \in calls : d.id \in Nat /\ DOMAIN d.patch \subseteq FieldNames
  <2>1. Frame'
    BY PutIntakeFrame
  <2> QED
    BY <2>1 DEF Frame, Shape, IsCall, Asking
<1>5. WordKept'
  <2> SUFFICES ASSUME NEW q \in DOMAIN word, q \notin exposed', ~Held(q) PROVE Stored(q)'
    BY <1>1 DEF WordKept, Held, Stored
  <2>1. q \in Safe /\ q \in FieldNames /\ Stored(q)
    BY <1>1 DEF Safe, Asking, WordKept, Held, Stored
  <2>2. CASE q \in DOMAIN c.patch
    <3>1. c.patch[q] = word[q]
      BY <1>1, <2>1, <2>2 DEF SentAgrees
    <3> QED
      BY <1>1, <1>2, <2>1, <2>2, <3>1 DEF Stored
  <2>3. CASE q \notin DOMAIN c.patch
    BY <1>1, <1>2, <2>1, <2>3 DEF Stored
  <2> QED
    BY <2>2, <2>3
<1>6. DraftsAreWords'
  BY <1>1 DEF DraftsAreWords
<1>7. SentAgrees'
  <2> SUFFICES ASSUME NEW q \in DOMAIN word, q \notin exposed', ~Held(q), NEW d \in calls',
                      d.stage = "sent", q \in DOMAIN d.patch
               PROVE  d.patch[q] = word[q] \/ (q \in DOMAIN newest' /\ newest'[q] > d.id)
    BY <1>1 DEF SentAgrees, Safe, Held
  <2>1. d \in calls /\ q \in Safe
    BY <1>1, <1>3 DEF Safe
  <2>2. d.patch[q] = word[q] \/ (q \in DOMAIN newest /\ newest[q] > d.id)
    BY <2>1 DEF SentAgrees
  <2> QED
    BY <1>2, <1>4, <2>1, <2>2
<1>8. SavedStored'
  <2> SUFFICES ASSUME NEW d \in calls', d.kind = "save", d.stage = "served",
                      NEW q \in DOMAIN d.patch, q \notin exposed'
               PROVE  fields'[q] = NormalizeField(d.patch[q])
    BY DEF SavedStored
  <2>1. q \in FieldNames
    BY <1>3, <1>4
  <2>2. CASE d.patch = c.patch
    BY <1>2, <2>1, <2>2
  <2>3. CASE d \in calls /\ d # c
    <3>1. fields[q] = NormalizeField(d.patch[q])
      BY <1>1, <2>3 DEF SavedStored
    <3>2. CASE q \in DOMAIN c.patch
      <4>1. q \in DOMAIN newest /\ newest[q] >= d.id
        BY <2>3 DEF ServedNewest
      <4>2. ~(newest[q] > c.id)
        BY <1>1, <3>2, <4>1
      <4>3. d.id # c.id
        BY <2>3 DEF Frame, Numbered
      <4>4. c.id > d.id
        BY <1>4, <2>3, <4>1, <4>2, <4>3
      <4>5. c.patch[q] = d.patch[q]
        BY <2>3, <3>2, <4>4 DEF LaterAgrees
      <4> QED
        BY <1>2, <2>1, <3>2, <4>5
    <3>3. CASE q \notin DOMAIN c.patch
      BY <1>2, <2>1, <3>1, <3>3
    <3> QED
      BY <3>2, <3>3
  <2> QED
    BY <1>3, <2>2, <2>3
<1>9. LaterAgrees'
  <2> SUFFICES ASSUME NEW d \in calls', NEW e \in calls', d.kind = "save", e.id > d.id,
                      NEW q \in DOMAIN d.patch \cap DOMAIN e.patch
               PROVE  e.patch[q] = d.patch[q]
    BY DEF LaterAgrees
  <2>1. PICK f \in calls : f.id = d.id /\ f.kind = d.kind /\ f.patch = d.patch
    BY <1>3
  <2>2. PICK g \in calls : g.id = e.id /\ g.patch = e.patch
    BY <1>3
  <2> QED
    BY <2>1, <2>2 DEF LaterAgrees
<1>10. DraftsSent'
  BY <1>1, <1>3 DEF DraftsSent
<1>11. ServedNewest'
  <2> SUFFICES ASSUME NEW d \in calls', d.stage = "served", NEW q \in DOMAIN d.patch
               PROVE  q \in DOMAIN newest' /\ newest'[q] >= d.id
    BY DEF ServedNewest
  <2>1. CASE d \in calls
    <3>1. q \in DOMAIN newest /\ newest[q] >= d.id
      BY <2>1 DEF ServedNewest
    <3> QED
      BY <1>2, <1>4, <2>1, <3>1
  <2>2. CASE d.id = c.id /\ d.patch = c.patch
    BY <1>2, <2>2
  <2> QED
    BY <1>3, <2>1, <2>2
<1> QED
  BY <1>5, <1>6, <1>7, <1>8, <1>9, <1>10, <1>11

\* A call is lost: it is neither on its way nor carried out any more.
LEMMA CallFailsKept == ASSUME IInv, NEW c \in calls, CallFails(c) PROVE Kept'
<1> USE DEF IInv, Kept
<1>1. UNCHANGED <<fields, drafts, word, newest, exposed, timer>>
  BY DEF CallFails, server, page, history
<1>2. \A d \in calls' :
        \E e \in calls : /\ d.id = e.id /\ d.kind = e.kind /\ d.patch = e.patch
                         /\ d = e \/ d.stage = "failed"
  BY CallFailsFrame DEF Advanced
<1>3. WordKept' /\ DraftsAreWords'
  BY <1>1 DEF WordKept, DraftsAreWords
<1>4. SentAgrees'
  BY <1>1, <1>2 DEF SentAgrees, Safe, Held
<1>5. SavedStored' /\ ServedNewest'
  BY <1>1, <1>2 DEF SavedStored, ServedNewest
<1>6. LaterAgrees'
  <2> SUFFICES ASSUME NEW d \in calls', NEW e \in calls', d.kind = "save", e.id > d.id,
                      NEW q \in DOMAIN d.patch \cap DOMAIN e.patch
               PROVE  e.patch[q] = d.patch[q]
    BY DEF LaterAgrees
  <2>1. PICK f \in calls : f.id = d.id /\ f.kind = d.kind /\ f.patch = d.patch
    BY <1>2
  <2>2. PICK g \in calls : g.id = e.id /\ g.patch = e.patch
    BY <1>2
  <2> QED
    BY <2>1, <2>2 DEF LaterAgrees
<1>7. DraftsSent'
  BY <1>1, <1>2 DEF DraftsSent
<1> QED
  BY <1>3, <1>4, <1>5, <1>6, <1>7

\* The answer of an autosave, and a failure, touch no draft.
LEMMA CallDoneKept ==
    ASSUME IInv, NEW c \in calls, AutoSaved(c) \/ SaveFailed(c)
    PROVE  Kept'
<1> USE DEF IInv, Kept
<1>1. UNCHANGED <<fields, drafts, word, newest, exposed, timer>>
  BY DEF AutoSaved, SaveFailed, server, history
<1>2. calls' \subseteq calls
  BY CallDoneFrame
<1>3. WordKept' /\ DraftsAreWords'
  BY <1>1 DEF WordKept, DraftsAreWords
<1>4. SentAgrees'
  BY <1>1, <1>2 DEF SentAgrees, Safe, Held
<1>5. SavedStored' /\ LaterAgrees' /\ DraftsSent' /\ ServedNewest'
  BY <1>1, <1>2 DEF SavedStored, LaterAgrees, DraftsSent, ServedNewest
<1> QED
  BY <1>3, <1>4, <1>5

\* The answer of a Continue throws the drafts away.  What it sent is stored,
\* and what is still on its way is the same word or was overtaken.
LEMMA ContinueSavedKept == ASSUME IInv, NEW c \in calls, ContinueSaved(c) PROVE Kept'
<1> USE DEF IInv, Kept
<1>1. /\ UNCHANGED <<fields, word, newest>> /\ drafts' = NoDrafts
      /\ c.kind = "save" /\ c.stage = "served"
      /\ exposed' = exposed \cup
            {q \in DOMAIN drafts : ~(q \in DOMAIN c.patch /\ c.patch[q] = drafts[q])}
  BY DEF ContinueSaved, server
<1>2. calls' = calls \ {c} /\ \A d \in calls' : d.kind # "save"
  BY <1>1, CallDoneFrame DEF Frame, Numbered
<1>3. ASSUME NEW q \in DOMAIN word, q \notin exposed', Held(q)
      PROVE  q \in DOMAIN c.patch /\ c.patch[q] = word[q]
  BY <1>1, <1>3 DEF Held
<1>4. WordKept'
  <2> SUFFICES ASSUME NEW q \in DOMAIN word, q \notin exposed' PROVE Stored(q)
    BY <1>1 DEF WordKept, Stored
  <2>1. CASE Held(q)
    BY <1>1, <1>3, <2>1 DEF SavedStored, Stored
  <2>2. CASE ~Held(q)
    BY <1>1, <2>2 DEF WordKept, Held, Stored
  <2> QED
    BY <2>1, <2>2
<1>5. SentAgrees'
  <2> SUFFICES ASSUME NEW q \in DOMAIN word, q \notin exposed',
                      NEW d \in calls, d # c, d.stage = "sent", q \in DOMAIN d.patch
               PROVE  d.patch[q] = word[q] \/ (q \in DOMAIN newest /\ newest[q] > d.id)
    BY <1>1, <1>2 DEF SentAgrees, Safe
  <2>1. CASE Held(q)
    <3>1. q \in DOMAIN c.patch /\ c.patch[q] = word[q]
      BY <1>3, <2>1
    <3>2. q \in DOMAIN newest /\ newest[q] >= c.id /\ newest[q] \in Nat
      BY <1>1, <3>1 DEF ServedNewest, Frame, Shape
    <3>3. c.id \in Nat /\ d.id \in Nat /\ c.id # d.id
      BY DEF Frame, Shape, Numbered, IsCall
    <3>4. CASE d.id > c.id
      BY <1>1, <3>1, <3>4 DEF LaterAgrees
    <3>5. CASE c.id > d.id
      BY <3>2, <3>3, <3>5
    <3> QED
      BY <3>3, <3>4, <3>5
  <2>2. CASE ~Held(q)
    BY <1>1, <2>2 DEF SentAgrees, Safe
  <2> QED
    BY <2>1, <2>2
<1>6. DraftsAreWords'
  BY <1>1, NoDraftsEmpty DEF DraftsAreWords
<1>7. SavedStored' /\ LaterAgrees' /\ DraftsSent' /\ ServedNewest'
  BY <1>1, <1>2 DEF SavedStored, LaterAgrees, DraftsSent, ServedNewest
<1> QED
  BY <1>4, <1>5, <1>6, <1>7

LEMMA KeptStep == IInv /\ [Next]_vars => Kept'
<1> SUFFICES ASSUME IInv, [Next]_vars PROVE Kept'
  OBVIOUS
<1>1. CASE Quiet
  BY <1>1, QuietCore, QuietTimer, QuietKept DEF IInv
<1>2. CASE Load \/ Reopen
  BY <1>2, LoadKept, ReopenKept
<1>3. CASE \E a \in Answers : Enter(a)
  BY <1>3, EnterKept
<1>4. CASE Autosave \/ SaveAndContinue
  BY <1>4, AutosaveKept, SaveAndContinueKept
<1>5. CASE \E c \in calls :
              PutIntake(c) \/ CallFails(c) \/ ContinueSaved(c) \/ AutoSaved(c) \/ SaveFailed(c)
  BY <1>5, PutIntakeKept, CallFailsKept, ContinueSavedKept, CallDoneKept
<1>6. CASE \E r \in Clicks : Complete(r)
  BY <1>6, CompleteKept
<1>7. CASE UNCHANGED vars
  BY <1>7, QuietKept DEF vars, server, page, history, core
<1> QED
  BY <1>1, <1>2, <1>3, <1>4, <1>5, <1>6, <1>7 DEF Next, Quiet

\* However many saves and failures there are, and in whatever order saves are
\* carried out and answered, a word that was not put at risk in one of the
\* ways the actions name is on the page or stored (page.jsx 172-246).
THEOREM NoWordLost == Spec => []WordKept
<1>1. Init => IInv
  BY FrameInit, KeptInit, NoDraftsEmpty DEF IInv, Asking, Init
<1>2. IInv /\ [Next]_vars => IInv'
  BY FrameStep, AskingStep, KeptStep DEF IInv
<1>3. IInv => WordKept
  BY DEF IInv, Kept
<1> QED
  BY <1>1, <1>2, <1>3, PTL DEF Spec
=============================================================================
