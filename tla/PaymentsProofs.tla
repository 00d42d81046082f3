--------------------------- MODULE PaymentsProofs ---------------------------
(***************************************************************************)
(* Proofs about Payments, for any number of owners, products, sessions,    *)
(* pool threads and half-way stops.                                        *)
(***************************************************************************)
EXTENDS Payments, TLAPS

\* A busy thread has a session, and only paid sessions are finalized.
Finalizing == {"read", "rewrite", "claim", "grant", "receipt"}

ThreadsInv ==
    /\ \A t \in Threads : pc[t] # "idle" => session[t] \in Sessions
    /\ \A t \in Threads : pc[t] \in Finalizing => checkout[session[t]] = "complete"
    /\ \A e \in events : checkout[e.session] = "complete"
    /\ \A s \in Sessions : subscription[s] # "none" => checkout[s] = "complete"

\* Every row, on the ledger or in a thread's copy of it, was appended, and a
\* thread past the look-up has found one.
LedgerInv ==
    /\ \A s \in Sessions : ledger[s] # "absent" => s \in recorded
    /\ \A t \in Threads, s \in Sessions : rows[t][s] # "absent" => s \in recorded
    /\ \A t \in Threads : pc[t] \in {"rewrite", "claim"} => session[t] \in recorded
    /\ claimed \subseteq recorded

\* One thread at a time holds the claim of a session, and it has granted or
\* notified nothing that its next step is still to do.
Holding == {"grant", "receipt"}

ClaimInv ==
    /\ \A t \in Threads : pc[t] \in Holding => session[t] \in claimed
    /\ \A t, u \in Threads :
          pc[t] \in Holding /\ pc[u] \in Holding /\ session[t] = session[u] => t = u
    /\ \A t \in Threads : pc[t] = "grant" => grants[session[t]] = 0
    /\ \A t \in Threads : pc[t] = "receipt" =>
          grants[session[t]] = 1 /\ receipts[session[t]] = 0
    /\ \A s \in Sessions \ claimed : grants[s] = 0
    /\ \A s \in Sessions : receipts[s] > 0 => grants[s] = 1

\* A row of entitlements stands for a granted session of its key; its
\* subscription is that session's own, and its status follows from events.
AccessRow(k) ==
    LET s == entitlement[k].session
    IN  /\ KeyOf(s) = k
        /\ s \in Sessions
        /\ checkout[s] = "complete"
        /\ grants[s] > 0
        /\ entitlement[k].sub = IF ProductOf[s] \in Recurring THEN s ELSE NoSession
        /\ ~Troubled(s) => entitlement[k].status = "active"

AccessInv == \A k \in Keys : entitlement[k] # NoRow => AccessRow(k)

IInv ==
    /\ TypeOK
    /\ ThreadsInv
    /\ LedgerInv
    /\ ClaimInv
    /\ AccessInv
    /\ FinalizedUnlessStopped

-----------------------------------------------------------------------------
(* What the UPDATE of set_status_by_subscription leaves of a row. *)

LEMMA SetStatusEffect ==
    ASSUME TypeOK, NEW x \in Sessions \cup {NoSession}, NEW status \in AccessStatus,
           SetStatusBySubscription(x, status)
    PROVE  /\ entitlement' \in [Keys -> Rows \cup {NoRow}]
           /\ \A k \in Keys :
                /\ entitlement'[k] = NoRow <=> entitlement[k] = NoRow
                /\ entitlement'[k].session = entitlement[k].session
                /\ entitlement'[k].sub = entitlement[k].sub
                /\ \/ entitlement'[k] = entitlement[k]
                   \/ /\ x # NoSession
                      /\ entitlement[k].sub = x
                      /\ entitlement'[k].status = status
<1> DEFINE New(r) == [r EXCEPT !.status = status]
<1>1. ASSUME NEW r \in Rows
      PROVE  /\ New(r) \in Rows
             /\ New(r).status = status
             /\ New(r).session = r.session
             /\ New(r).sub = r.sub
  BY DEF Rows
<1>2. ASSUME NEW r \in Rows PROVE r # NoRow
  BY DEF Rows, NoRow, AccessStatus
<1>3. NoRow.sub = NoSession /\ NoRow.session = NoSession
  BY DEF NoRow
<1>4. ASSUME NEW k \in Keys
      PROVE  \/ entitlement'[k] = entitlement[k] /\ entitlement[k] \in Rows \cup {NoRow}
             \/ /\ entitlement[k] \in Rows
                /\ entitlement'[k] = New(entitlement[k])
                /\ x # NoSession
                /\ entitlement[k].sub = x
  BY <1>3 DEF SetStatusBySubscription, TypeOK
<1> HIDE DEF New
<1>5. entitlement' = [k \in Keys |-> entitlement'[k]]
  BY DEF SetStatusBySubscription
<1>6. \A k \in Keys : entitlement'[k] \in Rows \cup {NoRow}
  BY <1>1, <1>4
<1> QED
  BY <1>1, <1>2, <1>4, <1>5, <1>6

LEMMA GrantEffect ==
    ASSUME TypeOK, ThreadsInv, NEW t \in Threads, GrantEntitlement(t)
    PROVE  /\ session[t] \in Sessions
           /\ KeyOf(session[t]) \in Keys
           /\ entitlement' \in [Keys -> Rows \cup {NoRow}]
           /\ \A k \in Keys : k # KeyOf(session[t]) => entitlement'[k] = entitlement[k]
           /\ entitlement'[KeyOf(session[t])] = GrantedRow(session[t])
<1>1. session[t] \in Sessions
  BY DEF GrantEntitlement, ThreadsInv
<1>2. KeyOf(session[t]) \in Keys
  BY <1>1, CatalogAssumption DEF Keys, KeyOf
<1>3. entitlement[KeyOf(session[t])].sub \in Sessions \cup {NoSession}
  BY <1>2 DEF TypeOK, Rows, NoRow
<1>4. GrantedRow(session[t]) \in Rows
  BY <1>1, <1>3 DEF GrantedRow, Rows, AccessStatus
<1> QED
  BY <1>1, <1>2, <1>4 DEF GrantEntitlement, TypeOK

LEMMA StatusOfType ==
    ASSUME NEW type \in EventTypes \ {"completed"}
    PROVE  StatusOf(type) \in AccessStatus
  BY DEF EventTypes, StatusOf, AccessStatus

-----------------------------------------------------------------------------
(* The initial states satisfy the invariant, and each step keeps each part. *)

LEMMA InitIInv == Init => IInv
  BY NamesAssumption, CatalogAssumption
  DEF Init, IInv, TypeOK, ThreadsInv, LedgerInv, ClaimInv, AccessInv,
      FinalizedUnlessStopped, NoRows, Ledgers, OrderStatus, Steps, Threads,
      Finalizing, Holding, Events, Rows, AccessStatus

\* Types: a step past the start of a handler finds a session in its thread.
LEMMA TypeStep == IInv /\ [Next]_vars => TypeOK'
<1> SUFFICES ASSUME TypeOK, ThreadsInv, [Next]_vars PROVE TypeOK'
  BY DEF IInv
<1>0. \A t \in Threads : pc[t] # "idle" => session[t] \in Sessions
  BY DEF ThreadsInv
<1> USE NamesAssumption, <1>0 DEF vars, stripeVars, storeVars, threadVars, historyVars, TypeOK, Ledgers, NoRows, OrderStatus, Steps, Threads,
        Events, EventTypes, AccessStatus
<1>1. ASSUME NEW s \in Sessions, Pay(s)
      PROVE  TypeOK'
  BY <1>1 DEF Pay, Emit, Event
<1>2. ASSUME NEW s \in Sessions, RenewalFails(s)
      PROVE  TypeOK'
  BY <1>2 DEF RenewalFails, SubscriptionChange, Emit, Event
<1>3. ASSUME NEW s \in Sessions, RenewalRecovers(s)
      PROVE  TypeOK'
  BY <1>3 DEF RenewalRecovers, SubscriptionChange, Emit, Event
<1>4. ASSUME NEW s \in Sessions, SubscriptionEnds(s)
      PROVE  TypeOK'
  BY <1>4 DEF SubscriptionEnds, SubscriptionChange, Emit, Event
<1>5. ASSUME NEW t \in Threads, NEW s \in Sessions, CreateCheckoutSession(t, s)
      PROVE  TypeOK'
  BY <1>5 DEF CreateCheckoutSession, Begin
<1>6. ASSUME NEW t \in Threads, NEW s \in Sessions, SuccessPage(t, s)
      PROVE  TypeOK'
  BY <1>6 DEF SuccessPage, Begin
<1>7. ASSUME NEW s \in Sessions, WebhookCompleted(s)
      PROVE  TypeOK'
  BY <1>7 DEF WebhookCompleted, Begin, Event
<1>8. ASSUME NEW t \in Threads, AppendOrder(t)
      PROVE  TypeOK'
  BY <1>8 DEF AppendOrder, Return
<1>9. ASSUME NEW t \in Threads, ReadLedger(t)
      PROVE  TypeOK'
  BY <1>9 DEF ReadLedger, Goto, Return
<1>10. ASSUME NEW t \in Threads, RewriteLedger(t)
      PROVE  TypeOK'
  BY <1>10 DEF RewriteLedger, Goto
<1>11. ASSUME NEW t \in Threads, ClaimFinalization(t)
      PROVE  TypeOK'
  BY <1>11 DEF ClaimFinalization, Goto, Return
<1>12. ASSUME NEW t \in Threads, GrantEntitlement(t)
      PROVE  TypeOK'
  <2>1. entitlement' \in [Keys -> Rows \cup {NoRow}] /\ session[t] \in Sessions
    BY <1>12, GrantEffect
  <2> QED
    BY <1>12, <2>1 DEF GrantEntitlement, Goto
<1>13. ASSUME NEW t \in Threads, SendReceipt(t)
      PROVE  TypeOK'
  BY <1>13 DEF SendReceipt, Return
<1>14. ASSUME NEW s \in Sessions, NEW type \in EventTypes \ {"completed"},
              WebhookSubscription(s, type)
      PROVE  TypeOK'
  BY <1>14, SetStatusEffect, StatusOfType DEF WebhookSubscription
<1>15. CASE WebhookInvoice
  BY <1>15, SetStatusEffect DEF WebhookInvoice, AccessStatus
<1>16. ASSUME NEW t \in Threads, Stop(t)
      PROVE  TypeOK'
  BY <1>16 DEF Stop, Return
<1>17. CASE UNCHANGED vars
  BY <1>17
<1> QED
  BY <1>1, <1>2, <1>3, <1>4, <1>5, <1>6, <1>7, <1>8, <1>9, <1>10, <1>11, <1>12, <1>13, <1>14, <1>15, <1>16, <1>17
  DEF Next, Stripe, Request, Webhook, HandlerStep

\* Completed sessions stay completed, and only they are finalized.
LEMMA ThreadsStep == IInv /\ [Next]_vars => ThreadsInv'
<1> SUFFICES ASSUME TypeOK, ThreadsInv, [Next]_vars PROVE ThreadsInv'
  BY DEF IInv
<1> USE NamesAssumption DEF vars, stripeVars, storeVars, threadVars, historyVars, TypeOK, Ledgers, NoRows, OrderStatus, Steps, Threads,
        ThreadsInv, Finalizing, Events
<1>1. ASSUME NEW s \in Sessions, Pay(s)
      PROVE  ThreadsInv'
  BY <1>1 DEF Pay, Emit, Event
<1>2. ASSUME NEW s \in Sessions, RenewalFails(s)
      PROVE  ThreadsInv'
  BY <1>2 DEF RenewalFails, SubscriptionChange, Emit, Event
<1>3. ASSUME NEW s \in Sessions, RenewalRecovers(s)
      PROVE  ThreadsInv'
  BY <1>3 DEF RenewalRecovers, SubscriptionChange, Emit, Event
<1>4. ASSUME NEW s \in Sessions, SubscriptionEnds(s)
      PROVE  ThreadsInv'
  BY <1>4 DEF SubscriptionEnds, SubscriptionChange, Emit, Event
<1>5. ASSUME NEW t \in Threads, NEW s \in Sessions, CreateCheckoutSession(t, s)
      PROVE  ThreadsInv'
  BY <1>5 DEF CreateCheckoutSession, Begin
<1>6. ASSUME NEW t \in Threads, NEW s \in Sessions, SuccessPage(t, s)
      PROVE  ThreadsInv'
  BY <1>6 DEF SuccessPage, Begin
<1>7. ASSUME NEW s \in Sessions, WebhookCompleted(s)
      PROVE  ThreadsInv'
  BY <1>7 DEF WebhookCompleted, Begin, Event
<1>8. ASSUME NEW t \in Threads, AppendOrder(t)
      PROVE  ThreadsInv'
  BY <1>8 DEF AppendOrder, Return
<1>9. ASSUME NEW t \in Threads, ReadLedger(t)
      PROVE  ThreadsInv'
  BY <1>9 DEF ReadLedger, Goto, Return
<1>10. ASSUME NEW t \in Threads, RewriteLedger(t)
      PROVE  ThreadsInv'
  BY <1>10 DEF RewriteLedger, Goto
<1>11. ASSUME NEW t \in Threads, ClaimFinalization(t)
      PROVE  ThreadsInv'
  BY <1>11 DEF ClaimFinalization, Goto, Return
<1>12. ASSUME NEW t \in Threads, GrantEntitlement(t)
      PROVE  ThreadsInv'
  BY <1>12 DEF GrantEntitlement, GrantedRow, Goto
<1>13. ASSUME NEW t \in Threads, SendReceipt(t)
      PROVE  ThreadsInv'
  BY <1>13 DEF SendReceipt, Return
<1>14. ASSUME NEW s \in Sessions, NEW type \in EventTypes \ {"completed"},
              WebhookSubscription(s, type)
      PROVE  ThreadsInv'
  BY <1>14 DEF WebhookSubscription
<1>15. CASE WebhookInvoice
  BY <1>15 DEF WebhookInvoice
<1>16. ASSUME NEW t \in Threads, Stop(t)
      PROVE  ThreadsInv'
  BY <1>16 DEF Stop, Return
<1>17. CASE UNCHANGED vars
  BY <1>17
<1> QED
  BY <1>1, <1>2, <1>3, <1>4, <1>5, <1>6, <1>7, <1>8, <1>9, <1>10, <1>11, <1>12, <1>13, <1>14, <1>15, <1>16, <1>17
  DEF Next, Stripe, Request, Webhook, HandlerStep

\* Rewrites put back copies of what was appended.
LEMMA LedgerStep == IInv /\ [Next]_vars => LedgerInv'
<1> SUFFICES ASSUME TypeOK, ThreadsInv, LedgerInv, [Next]_vars PROVE LedgerInv'
  BY DEF IInv
<1> USE NamesAssumption DEF vars, stripeVars, storeVars, threadVars, historyVars, TypeOK, Ledgers, NoRows, OrderStatus, Steps, Threads,
        ThreadsInv, LedgerInv
<1>1. ASSUME NEW s \in Sessions, Pay(s)
      PROVE  LedgerInv'
  BY <1>1 DEF Pay, Emit, Event
<1>2. ASSUME NEW s \in Sessions, RenewalFails(s)
      PROVE  LedgerInv'
  BY <1>2 DEF RenewalFails, SubscriptionChange, Emit, Event
<1>3. ASSUME NEW s \in Sessions, RenewalRecovers(s)
      PROVE  LedgerInv'
  BY <1>3 DEF RenewalRecovers, SubscriptionChange, Emit, Event
<1>4. ASSUME NEW s \in Sessions, SubscriptionEnds(s)
      PROVE  LedgerInv'
  BY <1>4 DEF SubscriptionEnds, SubscriptionChange, Emit, Event
<1>5. ASSUME NEW t \in Threads, NEW s \in Sessions, CreateCheckoutSession(t, s)
      PROVE  LedgerInv'
  BY <1>5 DEF CreateCheckoutSession, Begin
<1>6. ASSUME NEW t \in Threads, NEW s \in Sessions, SuccessPage(t, s)
      PROVE  LedgerInv'
  BY <1>6 DEF SuccessPage, Begin
<1>7. ASSUME NEW s \in Sessions, WebhookCompleted(s)
      PROVE  LedgerInv'
  BY <1>7 DEF WebhookCompleted, Begin, Event
<1>8. ASSUME NEW t \in Threads, AppendOrder(t)
      PROVE  LedgerInv'
  BY <1>8 DEF AppendOrder, Return
<1>9. ASSUME NEW t \in Threads, ReadLedger(t)
      PROVE  LedgerInv'
  BY <1>9 DEF ReadLedger, Goto, Return
<1>10. ASSUME NEW t \in Threads, RewriteLedger(t)
      PROVE  LedgerInv'
  BY <1>10 DEF RewriteLedger, Goto
<1>11. ASSUME NEW t \in Threads, ClaimFinalization(t)
      PROVE  LedgerInv'
  BY <1>11 DEF ClaimFinalization, Goto, Return
<1>12. ASSUME NEW t \in Threads, GrantEntitlement(t)
      PROVE  LedgerInv'
  BY <1>12 DEF GrantEntitlement, GrantedRow, Goto
<1>13. ASSUME NEW t \in Threads, SendReceipt(t)
      PROVE  LedgerInv'
  BY <1>13 DEF SendReceipt, Return
<1>14. ASSUME NEW s \in Sessions, NEW type \in EventTypes \ {"completed"},
              WebhookSubscription(s, type)
      PROVE  LedgerInv'
  BY <1>14 DEF WebhookSubscription
<1>15. CASE WebhookInvoice
  BY <1>15 DEF WebhookInvoice
<1>16. ASSUME NEW t \in Threads, Stop(t)
      PROVE  LedgerInv'
  BY <1>16 DEF Stop, Return
<1>17. CASE UNCHANGED vars
  BY <1>17
<1> QED
  BY <1>1, <1>2, <1>3, <1>4, <1>5, <1>6, <1>7, <1>8, <1>9, <1>10, <1>11, <1>12, <1>13, <1>14, <1>15, <1>16, <1>17
  DEF Next, Stripe, Request, Webhook, HandlerStep

\* finalized_orders admits one holder per session.
LEMMA ClaimStep == IInv /\ [Next]_vars => ClaimInv'
<1> SUFFICES ASSUME TypeOK, ThreadsInv, ClaimInv, [Next]_vars PROVE ClaimInv'
  BY DEF IInv
<1> USE NamesAssumption DEF vars, stripeVars, storeVars, threadVars, historyVars, TypeOK, Ledgers, NoRows, OrderStatus, Steps, Threads,
        ThreadsInv, ClaimInv, Holding
<1>1. ASSUME NEW s \in Sessions, Pay(s)
      PROVE  ClaimInv'
  BY <1>1 DEF Pay, Emit, Event
<1>2. ASSUME NEW s \in Sessions, RenewalFails(s)
      PROVE  ClaimInv'
  BY <1>2 DEF RenewalFails, SubscriptionChange, Emit, Event
<1>3. ASSUME NEW s \in Sessions, RenewalRecovers(s)
      PROVE  ClaimInv'
  BY <1>3 DEF RenewalRecovers, SubscriptionChange, Emit, Event
<1>4. ASSUME NEW s \in Sessions, SubscriptionEnds(s)
      PROVE  ClaimInv'
  BY <1>4 DEF SubscriptionEnds, SubscriptionChange, Emit, Event
<1>5. ASSUME NEW t \in Threads, NEW s \in Sessions, CreateCheckoutSession(t, s)
      PROVE  ClaimInv'
  BY <1>5 DEF CreateCheckoutSession, Begin
<1>6. ASSUME NEW t \in Threads, NEW s \in Sessions, SuccessPage(t, s)
      PROVE  ClaimInv'
  BY <1>6 DEF SuccessPage, Begin
<1>7. ASSUME NEW s \in Sessions, WebhookCompleted(s)
      PROVE  ClaimInv'
  BY <1>7 DEF WebhookCompleted, Begin, Event
<1>8. ASSUME NEW t \in Threads, AppendOrder(t)
      PROVE  ClaimInv'
  BY <1>8 DEF AppendOrder, Return
<1>9. ASSUME NEW t \in Threads, ReadLedger(t)
      PROVE  ClaimInv'
  BY <1>9 DEF ReadLedger, Goto, Return
<1>10. ASSUME NEW t \in Threads, RewriteLedger(t)
      PROVE  ClaimInv'
  BY <1>10 DEF RewriteLedger, Goto
<1>11. ASSUME NEW t \in Threads, ClaimFinalization(t)
      PROVE  ClaimInv'
  BY <1>11 DEF ClaimFinalization, Goto, Return
<1>12. ASSUME NEW t \in Threads, GrantEntitlement(t)
      PROVE  ClaimInv'
  BY <1>12 DEF GrantEntitlement, GrantedRow, Goto
<1>13. ASSUME NEW t \in Threads, SendReceipt(t)
      PROVE  ClaimInv'
  BY <1>13 DEF SendReceipt, Return
<1>14. ASSUME NEW s \in Sessions, NEW type \in EventTypes \ {"completed"},
              WebhookSubscription(s, type)
      PROVE  ClaimInv'
  BY <1>14 DEF WebhookSubscription
<1>15. CASE WebhookInvoice
  BY <1>15 DEF WebhookInvoice
<1>16. ASSUME NEW t \in Threads, Stop(t)
      PROVE  ClaimInv'
  BY <1>16 DEF Stop, Return
<1>17. CASE UNCHANGED vars
  BY <1>17
<1> QED
  BY <1>1, <1>2, <1>3, <1>4, <1>5, <1>6, <1>7, <1>8, <1>9, <1>10, <1>11, <1>12, <1>13, <1>14, <1>15, <1>16, <1>17
  DEF Next, Stripe, Request, Webhook, HandlerStep

\* Rows are written by a grant and re-marked by events of their own subscription.
LEMMA AccessStep == IInv /\ [Next]_vars => AccessInv'
<1> SUFFICES ASSUME TypeOK, ThreadsInv, ClaimInv, AccessInv, [Next]_vars PROVE AccessInv'
  BY DEF IInv
<1> USE NamesAssumption DEF vars, stripeVars, storeVars, threadVars, historyVars, TypeOK, Ledgers, NoRows, OrderStatus, Steps, Threads,
        AccessInv, AccessRow, ThreadsInv, Finalizing, Troubled, Event
<1>1. ASSUME NEW s \in Sessions, Pay(s)
      PROVE  AccessInv'
  BY <1>1 DEF Pay, Emit, Event
<1>2. ASSUME NEW s \in Sessions, RenewalFails(s)
      PROVE  AccessInv'
  BY <1>2 DEF RenewalFails, SubscriptionChange, Emit, Event
<1>3. ASSUME NEW s \in Sessions, RenewalRecovers(s)
      PROVE  AccessInv'
  BY <1>3 DEF RenewalRecovers, SubscriptionChange, Emit, Event
<1>4. ASSUME NEW s \in Sessions, SubscriptionEnds(s)
      PROVE  AccessInv'
  BY <1>4 DEF SubscriptionEnds, SubscriptionChange, Emit, Event
<1>5. ASSUME NEW t \in Threads, NEW s \in Sessions, CreateCheckoutSession(t, s)
      PROVE  AccessInv'
  BY <1>5 DEF CreateCheckoutSession, Begin
<1>6. ASSUME NEW t \in Threads, NEW s \in Sessions, SuccessPage(t, s)
      PROVE  AccessInv'
  BY <1>6 DEF SuccessPage, Begin
<1>7. ASSUME NEW s \in Sessions, WebhookCompleted(s)
      PROVE  AccessInv'
  BY <1>7 DEF WebhookCompleted, Begin, Event
<1>8. ASSUME NEW t \in Threads, AppendOrder(t)
      PROVE  AccessInv'
  BY <1>8 DEF AppendOrder, Return
<1>9. ASSUME NEW t \in Threads, ReadLedger(t)
      PROVE  AccessInv'
  BY <1>9 DEF ReadLedger, Goto, Return
<1>10. ASSUME NEW t \in Threads, RewriteLedger(t)
      PROVE  AccessInv'
  BY <1>10 DEF RewriteLedger, Goto
<1>11. ASSUME NEW t \in Threads, ClaimFinalization(t)
      PROVE  AccessInv'
  BY <1>11 DEF ClaimFinalization, Goto, Return
<1>12. ASSUME NEW t \in Threads, GrantEntitlement(t)
      PROVE  AccessInv'
  <2>1. PICK x \in Sessions : x = session[t] /\ checkout[x] = "complete"
    BY <1>12 DEF GrantEntitlement
  <2>2. /\ \A k \in Keys : k # KeyOf(x) => entitlement'[k] = entitlement[k]
        /\ entitlement'[KeyOf(x)] = GrantedRow(x)
    BY <1>12, GrantEffect, <2>1
  <2>3. /\ \A s \in Sessions : grants[s] > 0 => grants'[s] > 0
        /\ grants'[x] > 0
        /\ UNCHANGED <<events, checkout>>
    BY <1>12, <2>1 DEF GrantEntitlement
  <2>4. ASSUME NEW k \in Keys, k # KeyOf(x), entitlement'[k] # NoRow
        PROVE  AccessRow(k)'
    BY <2>2, <2>3, <2>4 DEF Rows
  <2>5. ASSUME ProductOf[x] \notin Recurring PROVE entitlement[KeyOf(x)].sub = NoSession
    <3>1. CASE entitlement[KeyOf(x)] = NoRow
      BY <3>1 DEF NoRow
    <3>2. CASE entitlement[KeyOf(x)] # NoRow
      BY <2>5, <3>2, <2>1, <1>12, GrantEffect DEF KeyOf
    <3> QED
      BY <3>1, <3>2
  <2>6. /\ GrantedRow(x).session = x
        /\ GrantedRow(x).status = "active"
        /\ GrantedRow(x).sub = IF ProductOf[x] \in Recurring THEN x ELSE NoSession
    BY <2>5 DEF GrantedRow
  <2>7. AccessRow(KeyOf(x))'
    BY <2>1, <2>2, <2>3, <2>6
  <2> QED
    BY <2>4, <2>7 DEF AccessInv
<1>13. ASSUME NEW t \in Threads, SendReceipt(t)
      PROVE  AccessInv'
  BY <1>13 DEF SendReceipt, Return
<1>14. ASSUME NEW s \in Sessions, NEW type \in EventTypes \ {"completed"},
              WebhookSubscription(s, type)
      PROVE  AccessInv'
  <2>1. /\ SetStatusBySubscription(s, StatusOf(type))
        /\ Event(type, s) \in events
        /\ UNCHANGED <<events, checkout, grants>>
    BY <1>14 DEF WebhookSubscription
  <2>2. StatusOf(type) = "active" \/ Troubled(s)
    BY <2>1 DEF StatusOf, EventTypes
  <2> QED
    BY <2>1, <2>2, SetStatusEffect, StatusOfType
<1>15. CASE WebhookInvoice
  BY <1>15, SetStatusEffect DEF WebhookInvoice, AccessStatus
<1>16. ASSUME NEW t \in Threads, Stop(t)
      PROVE  AccessInv'
  BY <1>16 DEF Stop, Return
<1>17. CASE UNCHANGED vars
  BY <1>17
<1> QED
  BY <1>1, <1>2, <1>3, <1>4, <1>5, <1>6, <1>7, <1>8, <1>9, <1>10, <1>11, <1>12, <1>13, <1>14, <1>15, <1>16, <1>17
  DEF Next, Stripe, Request, Webhook, HandlerStep

\* Only a stop separates a claim from its grant.
LEMMA FinalizedStep == IInv /\ [Next]_vars => FinalizedUnlessStopped'
<1> SUFFICES ASSUME TypeOK, ThreadsInv, ClaimInv, FinalizedUnlessStopped, [Next]_vars PROVE FinalizedUnlessStopped'
  BY DEF IInv
<1> USE NamesAssumption DEF vars, stripeVars, storeVars, threadVars, historyVars, TypeOK, Ledgers, NoRows, OrderStatus, Steps, Threads,
        ThreadsInv, ClaimInv, FinalizedUnlessStopped
<1>1. ASSUME NEW s \in Sessions, Pay(s)
      PROVE  FinalizedUnlessStopped'
  BY <1>1 DEF Pay, Emit, Event
<1>2. ASSUME NEW s \in Sessions, RenewalFails(s)
      PROVE  FinalizedUnlessStopped'
  BY <1>2 DEF RenewalFails, SubscriptionChange, Emit, Event
<1>3. ASSUME NEW s \in Sessions, RenewalRecovers(s)
      PROVE  FinalizedUnlessStopped'
  BY <1>3 DEF RenewalRecovers, SubscriptionChange, Emit, Event
<1>4. ASSUME NEW s \in Sessions, SubscriptionEnds(s)
      PROVE  FinalizedUnlessStopped'
  BY <1>4 DEF SubscriptionEnds, SubscriptionChange, Emit, Event
<1>5. ASSUME NEW t \in Threads, NEW s \in Sessions, CreateCheckoutSession(t, s)
      PROVE  FinalizedUnlessStopped'
  BY <1>5 DEF CreateCheckoutSession, Begin
<1>6. ASSUME NEW t \in Threads, NEW s \in Sessions, SuccessPage(t, s)
      PROVE  FinalizedUnlessStopped'
  BY <1>6 DEF SuccessPage, Begin
<1>7. ASSUME NEW s \in Sessions, WebhookCompleted(s)
      PROVE  FinalizedUnlessStopped'
  BY <1>7 DEF WebhookCompleted, Begin, Event
<1>8. ASSUME NEW t \in Threads, AppendOrder(t)
      PROVE  FinalizedUnlessStopped'
  BY <1>8 DEF AppendOrder, Return
<1>9. ASSUME NEW t \in Threads, ReadLedger(t)
      PROVE  FinalizedUnlessStopped'
  <2>1. UNCHANGED <<claimed, grants, failures>>
    BY <1>9 DEF ReadLedger
  <2>2. \A u \in Threads : pc[u] = "grant" => pc'[u] = "grant" /\ session'[u] = session[u]
    BY <1>9 DEF ReadLedger, Goto, Return
  <2> QED
    BY <2>1, <2>2
<1>10. ASSUME NEW t \in Threads, RewriteLedger(t)
      PROVE  FinalizedUnlessStopped'
  BY <1>10 DEF RewriteLedger, Goto
<1>11. ASSUME NEW t \in Threads, ClaimFinalization(t)
      PROVE  FinalizedUnlessStopped'
  BY <1>11 DEF ClaimFinalization, Goto, Return
<1>12. ASSUME NEW t \in Threads, GrantEntitlement(t)
      PROVE  FinalizedUnlessStopped'
  BY <1>12 DEF GrantEntitlement, GrantedRow, Goto
<1>13. ASSUME NEW t \in Threads, SendReceipt(t)
      PROVE  FinalizedUnlessStopped'
  BY <1>13 DEF SendReceipt, Return
<1>14. ASSUME NEW s \in Sessions, NEW type \in EventTypes \ {"completed"},
              WebhookSubscription(s, type)
      PROVE  FinalizedUnlessStopped'
  BY <1>14 DEF WebhookSubscription
<1>15. CASE WebhookInvoice
  BY <1>15 DEF WebhookInvoice
<1>16. ASSUME NEW t \in Threads, Stop(t)
      PROVE  FinalizedUnlessStopped'
  BY <1>16 DEF Stop, Return
<1>17. CASE UNCHANGED vars
  BY <1>17
<1> QED
  BY <1>1, <1>2, <1>3, <1>4, <1>5, <1>6, <1>7, <1>8, <1>9, <1>10, <1>11, <1>12, <1>13, <1>14, <1>15, <1>16, <1>17
  DEF Next, Stripe, Request, Webhook, HandlerStep

-----------------------------------------------------------------------------
(* The theorems *)

LEMMA NextIInv == IInv /\ [Next]_vars => IInv'
  BY TypeStep, ThreadsStep, LedgerStep, ClaimStep, AccessStep, FinalizedStep
  DEF IInv

\* The strengthening holds of every reachable state.
THEOREM Invariance == Spec => []IInv
  BY InitIInv, NextIInv, PTL DEF Spec

\* The state keeps its types.
THEOREM TypeCorrect == Spec => []TypeOK
  BY Invariance, PTL DEF IInv

\* The one-time claim of finalized_orders is only ever spent on a session
\* whose order had been appended to the ledger.
THEOREM ClaimSafety == Spec => []ClaimedOrderWasRecorded
<1>1. IInv => ClaimedOrderWasRecorded
  BY DEF IInv, LedgerInv, ClaimedOrderWasRecorded
<1> QED
  BY <1>1, Invariance, PTL

\* Unless some handler stopped half way, a spent claim has become access or
\* its holder is at the grant.
THEOREM ClaimBecomesAccess == Spec => []FinalizedUnlessStopped
  BY Invariance, PTL DEF IInv

\* Access is backed by a completed session of that owner and product.
THEOREM AccessIsPaidFor == Spec => []EntitlementIsPaidFor
<1>1. IInv => EntitlementIsPaidFor
  BY DEF IInv, AccessInv, AccessRow, EntitlementIsPaidFor
<1> QED
  BY <1>1, Invariance, PTL

\* The events of another subscription do not take access away.
THEOREM AccessIsKept == Spec => []AccessNotLost
<1>1. IInv => AccessNotLost
  BY DEF IInv, AccessInv, AccessRow, AccessNotLost
<1> QED
  BY <1>1, Invariance, PTL

\* No repeated confirmation reopens access that was suspended or ended: only
\* the grant of another session or a reported recovery changes the status back.
THEOREM RevocationHolds == Spec => RevokedStaysRevoked
<1>1. ASSUME IInv, [Next]_vars, NEW k \in Keys,
             entitlement[k].status \in {"past_due", "canceled"},
             entitlement'[k].status = "active"
      PROVE  \/ entitlement'[k].session # entitlement[k].session
             \/ Event("updated", entitlement[k].sub) \in events
  <2>1. entitlement[k] # NoRow
    BY <1>1 DEF NoRow
  <2>2. AccessRow(k)
    BY <1>1, <2>1 DEF IInv, AccessInv
  <2>3. entitlement'[k] # entitlement[k]
    BY <1>1
  <2>4. CASE \E t \in Threads : GrantEntitlement(t)
    <3>1. PICK t \in Threads : GrantEntitlement(t)
      BY <2>4
    <3>2. entitlement'[k] = GrantedRow(session[t])
      BY <1>1, <2>3, <3>1, GrantEffect DEF IInv
    <3>3. entitlement'[k].session = session[t] /\ grants[session[t]] = 0
      BY <1>1, <3>1, <3>2 DEF GrantedRow, GrantEntitlement, IInv, ClaimInv
    <3> QED
      BY <2>2, <3>3 DEF AccessRow
  <2>5. CASE \E s \in Sessions, type \in EventTypes \ {"completed"} :
                WebhookSubscription(s, type)
    <3>1. PICK s \in Sessions, type \in EventTypes \ {"completed"} :
              WebhookSubscription(s, type)
      BY <2>5
    <3>2. entitlement[k].sub = s /\ entitlement'[k].status = StatusOf(type)
      BY <1>1, <2>3, <3>1, SetStatusEffect, StatusOfType DEF WebhookSubscription, IInv
    <3>3. type = "updated"
      BY <1>1, <3>2 DEF StatusOf, EventTypes
    <3> QED
      BY <3>1, <3>2, <3>3 DEF WebhookSubscription
  <2>6. CASE WebhookInvoice
    BY <1>1, <2>3, <2>6, SetStatusEffect DEF WebhookInvoice, IInv, AccessStatus
  <2>7. CASE UNCHANGED entitlement
    BY <2>3, <2>7
  <2> QED
    BY <1>1, <2>4, <2>5, <2>6, <2>7
    DEF Next, Stripe, Request, Webhook, HandlerStep, vars, storeVars,
        Pay, RenewalFails, RenewalRecovers, SubscriptionEnds, SubscriptionChange,
        CreateCheckoutSession, SuccessPage, WebhookCompleted, AppendOrder, ReadLedger,
        RewriteLedger, ClaimFinalization, SendReceipt, Stop
<1>2. IInv /\ [Next]_vars =>
        [\A k \in Keys :
          (/\ entitlement[k].status \in {"past_due", "canceled"}
           /\ entitlement'[k].status = "active")
          => \/ entitlement'[k].session # entitlement[k].session
             \/ Event("updated", entitlement[k].sub) \in events]_vars
  BY <1>1
<1> QED
  BY <1>2, Invariance, PTL DEF Spec, RevokedStaysRevoked

-----------------------------------------------------------------------------
(* Payments implements Purchases: a payment, a grant and a receipt are the  *)
(* abstract steps, every other step of the code is a stutter.               *)

LEMMA AbstractInit == Init => Abstract!Init
  BY DEF Init, Abstract!Init

LEMMA AbstractPay ==
    ASSUME IInv, NEW s \in Sessions, Pay(s)
    PROVE  Abstract!Pay(s)
  BY DEF IInv, TypeOK, Pay, historyVars, Abstract!Pay

LEMMA AbstractGrant ==
    ASSUME IInv, NEW t \in Threads, GrantEntitlement(t)
    PROVE  session[t] \in Sessions /\ Abstract!Grant(session[t])
<1>1. /\ session[t] \in Sessions
      /\ checkout[session[t]] = "complete"
      /\ grants[session[t]] = 0
  BY DEF IInv, ThreadsInv, ClaimInv, Finalizing, GrantEntitlement
<1> QED
  BY <1>1 DEF IInv, TypeOK, GrantEntitlement, stripeVars, Abstract!Grant

LEMMA AbstractNotify ==
    ASSUME IInv, NEW t \in Threads, SendReceipt(t)
    PROVE  session[t] \in Sessions /\ Abstract!Notify(session[t])
<1>1. /\ session[t] \in Sessions
      /\ grants[session[t]] = 1
      /\ receipts[session[t]] = 0
  BY DEF IInv, ThreadsInv, ClaimInv, SendReceipt
<1> QED
  BY <1>1 DEF IInv, TypeOK, SendReceipt, stripeVars, Abstract!Notify

\* Starting a checkout changes Stripe's view of a session, but not which
\* sessions are complete.
LEMMA AbstractStutter ==
    ASSUME IInv, NEW t \in Threads, NEW s \in Sessions, CreateCheckoutSession(t, s)
    PROVE  UNCHANGED Abstract!vars
  BY DEF IInv, TypeOK, CreateCheckoutSession, historyVars, Abstract!vars

LEMMA AbstractNext == IInv /\ [Next]_vars => [Abstract!Next]_Abstract!vars
<1> SUFFICES ASSUME IInv, [Next]_vars PROVE [Abstract!Next]_Abstract!vars
  OBVIOUS
<1>1. ASSUME NEW s \in Sessions, Pay(s) PROVE Abstract!Next
  BY <1>1, AbstractPay DEF Abstract!Next
<1>2. ASSUME NEW t \in Threads, GrantEntitlement(t) PROVE Abstract!Next
  BY <1>2, AbstractGrant DEF Abstract!Next
<1>3. ASSUME NEW t \in Threads, SendReceipt(t) PROVE Abstract!Next
  BY <1>3, AbstractNotify DEF Abstract!Next
<1>4. ASSUME NEW t \in Threads, NEW s \in Sessions, CreateCheckoutSession(t, s)
      PROVE  UNCHANGED Abstract!vars
  BY <1>4, AbstractStutter
<1>5. CASE UNCHANGED <<checkout, grants, receipts>>
  BY <1>5 DEF Abstract!vars
<1> QED
  BY <1>1, <1>2, <1>3, <1>4, <1>5
  DEF Next, Stripe, Request, Webhook, HandlerStep, vars, stripeVars, historyVars,
      RenewalFails, RenewalRecovers, SubscriptionEnds, SubscriptionChange,
      SuccessPage, WebhookCompleted, AppendOrder, ReadLedger, RewriteLedger,
      ClaimFinalization, WebhookSubscription, WebhookInvoice, Stop

\* Each session is granted at most once and notified at most once, whatever
\* the webhook, the success page and their failures do.
THEOREM AtMostOnce == Spec => AtMostOnceFinalization
  BY AbstractInit, AbstractNext, Invariance, PTL
  DEF Spec, AtMostOnceFinalization, Abstract!Spec
=============================================================================
