------------------------------ MODULE Payments ------------------------------
(***************************************************************************)
(* Checkout, the orders ledger and the finalization of a paid session.     *)
(*                                                                         *)
(* One uvicorn process runs the synchronous handlers (POST /checkout, GET  *)
(* /checkout/session) on a thread pool and the asynchronous webhook on its *)
(* event loop, so one webhook at a time interleaves with any number of     *)
(* pool threads.  What they share is on disk: orders.jsonl, read and       *)
(* rewritten whole, and the SQLite tables finalized_orders and             *)
(* entitlements, whose statements are atomic.  A step below is one file or *)
(* table access with the local work around it.  The append of one line is  *)
(* one step.                                                               *)
(*                                                                         *)
(* Stripe completes sessions and delivers signed events at least once, in  *)
(* any order; the webhook answers 200 whether or not it found the order.   *)
(* A handler may stop between two steps (an exception from a store, or the *)
(* process ending): what it wrote stays, the rest is lost.                 *)
(***************************************************************************)
EXTENDS Naturals

CONSTANTS
    Owners,         \* signed-in owners
    OneTime,        \* catalog products charged once (report, concierge)
    Recurring,      \* catalog products billed as a subscription (advisor)
    Sessions,       \* the checkout sessions Stripe may create
    OwnerOf,        \* the owner who starts each of them
    ProductOf,      \* and the product it sells
    Pool,           \* threads of the request pool
    Loop,           \* the event loop, which runs the webhook
    NoSession,      \* no checkout session, and the empty subscription id
    MaxFailures     \* bound: handlers that stop half way

Products == OneTime \cup Recurring
Threads == Pool \cup {Loop}

ASSUME CatalogAssumption ==
    /\ OneTime \cap Recurring = {}
    /\ OwnerOf \in [Sessions -> Owners]
    /\ ProductOf \in [Sessions -> Products]

ASSUME NamesAssumption ==
    /\ NoSession \notin Sessions
    /\ Loop \notin Pool
    /\ MaxFailures \in Nat

VARIABLES
    \* Stripe
    checkout,       \* checkout[s]: how far the hosted payment page got
    subscription,   \* subscription[s]: the subscription the session started
    events,         \* events Stripe has emitted; any may be delivered again
    \* the data directory and auth.db
    ledger,         \* orders.jsonl: the status of the order of each session
    claimed,        \* finalized_orders
    entitlement,    \* entitlements, keyed by owner and product
    \* the handlers
    pc, session, rows,  \* each thread's next step, session and ledger copy
    failures,       \* handlers that stopped half way
    \* history
    recorded,       \* sessions whose order was appended at some time
    grants,         \* grants[s]: times grant_entitlement ran for s
    receipts        \* receipts[s]: receipts handed to the mailer for s

stripeVars == <<checkout, subscription, events>>
storeVars == <<ledger, claimed, entitlement>>
threadVars == <<pc, session, rows>>
historyVars == <<recorded, grants, receipts>>
vars == <<stripeVars, storeVars, threadVars, failures, historyVars>>

-----------------------------------------------------------------------------
OrderStatus == {"absent", "pending", "paid"}
Ledgers == [Sessions -> OrderStatus]
NoRows == [s \in Sessions |-> "absent"]

\* A row of entitlements.  Stripe's subscription id is named by the session
\* that started it; a one-time purchase stores the empty id.
AccessStatus == {"active", "past_due", "canceled"}
Rows == [status : AccessStatus, session : Sessions,
         sub : Sessions \cup {NoSession}]
NoRow == [status |-> "none", session |-> NoSession, sub |-> NoSession]
Keys == Owners \X Products
KeyOf(s) == <<OwnerOf[s], ProductOf[s]>>

\* Events name a subscription by the session that started it.
EventTypes == {"completed", "deleted", "payment_failed", "updated"}
Events == [type : EventTypes, session : Sessions]
Event(type, s) == [type |-> type, session |-> s]

Steps == {"idle", "append", "read", "rewrite", "claim", "grant", "receipt"}

TypeOK ==
    /\ checkout \in [Sessions -> {"none", "open", "complete"}]
    /\ subscription \in [Sessions -> AccessStatus \cup {"none"}]
    /\ events \subseteq Events
    /\ ledger \in Ledgers
    /\ claimed \subseteq Sessions
    /\ entitlement \in [Keys -> Rows \cup {NoRow}]
    /\ pc \in [Threads -> Steps]
    /\ session \in [Threads -> Sessions \cup {NoSession}]
    /\ rows \in [Threads -> Ledgers]
    /\ failures \in 0 .. MaxFailures
    /\ recorded \subseteq Sessions
    /\ grants \in [Sessions -> Nat]
    /\ receipts \in [Sessions -> Nat]

Init ==
    /\ checkout = [s \in Sessions |-> "none"]
    /\ subscription = [s \in Sessions |-> "none"]
    /\ events = {}
    /\ ledger = NoRows
    /\ claimed = {}
    /\ entitlement = [k \in Keys |-> NoRow]
    /\ pc = [t \in Threads |-> "idle"]
    /\ session = [t \in Threads |-> NoSession]
    /\ rows = [t \in Threads |-> NoRows]
    /\ failures = 0
    /\ recorded = {}
    /\ grants = [s \in Sessions |-> 0]
    /\ receipts = [s \in Sessions |-> 0]

-----------------------------------------------------------------------------
(* Stripe *)

Emit(type, s) == events' = events \cup {Event(type, s)}

\* The owner pays on the hosted page.
Pay(s) ==
    /\ checkout[s] = "open"
    /\ checkout' = [checkout EXCEPT ![s] = "complete"]
    /\ subscription' = [subscription EXCEPT
            ![s] = IF ProductOf[s] \in Recurring THEN "active" ELSE "none"]
    /\ Emit("completed", s)
    /\ UNCHANGED <<storeVars, threadVars, failures, historyVars>>

SubscriptionChange(s, from, to, type) ==
    /\ subscription[s] \in from
    /\ subscription' = [subscription EXCEPT ![s] = to]
    /\ Emit(type, s)
    /\ UNCHANGED <<checkout, storeVars, threadVars, failures, historyVars>>

RenewalFails(s) == SubscriptionChange(s, {"active"}, "past_due", "payment_failed")
RenewalRecovers(s) == SubscriptionChange(s, {"past_due"}, "active", "updated")
SubscriptionEnds(s) ==
    SubscriptionChange(s, {"active", "past_due"}, "canceled", "deleted")

-----------------------------------------------------------------------------
(* Handlers *)

Begin(t, s, step) ==
    /\ pc[t] = "idle"
    /\ pc' = [pc EXCEPT ![t] = step]
    /\ session' = [session EXCEPT ![t] = s]
    /\ UNCHANGED rows

Goto(t, step) ==
    /\ pc' = [pc EXCEPT ![t] = step]
    /\ UNCHANGED session

\* The handler is over, and its locals with it.
Return(t) ==
    /\ pc' = [pc EXCEPT ![t] = "idle"]
    /\ session' = [session EXCEPT ![t] = NoSession]
    /\ rows' = [rows EXCEPT ![t] = NoRows]

\* POST /checkout by a signed-in owner for a catalog product: the Stripe
\* session exists, and can be paid, before the order is recorded.
CreateCheckoutSession(t, s) ==
    /\ t \in Pool
    /\ checkout[s] = "none"
    /\ checkout' = [checkout EXCEPT ![s] = "open"]
    /\ Begin(t, s, "append")
    /\ UNCHANGED <<subscription, events, storeVars, failures, historyVars>>

AppendOrder(t) ==
    /\ pc[t] = "append"
    /\ ledger' = [ledger EXCEPT ![session[t]] = "pending"]
    /\ recorded' = recorded \cup {session[t]}
    /\ Return(t)
    /\ UNCHANGED <<stripeVars, claimed, entitlement, failures, grants, receipts>>

\* Mutant of SuccessPage: it does not look at what Stripe says of the session.
SuccessPageUnpaid(t, s) ==
    /\ t \in Pool
    /\ checkout[s] # "none"
    /\ Begin(t, s, "read")
    /\ UNCHANGED <<stripeVars, storeVars, failures, historyVars>>

\* GET /checkout/session/{id}: finalizes a session Stripe reports as paid.
SuccessPage(t, s) ==
    /\ t \in Pool
    /\ checkout[s] = "complete"
    /\ Begin(t, s, "read")
    /\ UNCHANGED <<stripeVars, storeVars, failures, historyVars>>

\* POST /stripe/webhook with checkout.session.completed.
WebhookCompleted(s) ==
    /\ Event("completed", s) \in events
    /\ Begin(Loop, s, "read")
    /\ UNCHANGED <<stripeVars, storeVars, failures, historyVars>>

\* Mutant of ReadLedger: a session without an order is finalized too.
ReadLedgerAnyway(t) ==
    /\ pc[t] = "read"
    /\ rows' = [rows EXCEPT ![t] = ledger]
    /\ Goto(t, "rewrite")
    /\ UNCHANGED <<stripeVars, storeVars, failures, historyVars>>

\* mark_order_paid reads the whole file; a session without a row ends the
\* handler before anything is claimed.
ReadLedger(t) ==
    /\ pc[t] = "read"
    /\ \/ /\ ledger[session[t]] # "absent"
          /\ rows' = [rows EXCEPT ![t] = ledger]
          /\ Goto(t, "rewrite")
       \/ /\ ledger[session[t]] = "absent"
          /\ Return(t)
    /\ UNCHANGED <<stripeVars, storeVars, failures, historyVars>>

\* ... and replaces it by its own copy with this order paid.
RewriteLedger(t) ==
    /\ pc[t] = "rewrite"
    /\ ledger' = [rows[t] EXCEPT ![session[t]] = "paid"]
    /\ Goto(t, "claim")
    /\ UNCHANGED <<stripeVars, claimed, entitlement, rows, failures, historyVars>>

\* Mutant of ClaimFinalization: the gate is mark_order_paid's newly_paid flag.
ClaimNewlyPaid(t) ==
    /\ pc[t] = "claim"
    /\ \/ /\ rows[t][session[t]] # "paid"
          /\ claimed' = claimed \cup {session[t]}
          /\ Goto(t, "grant")
          /\ UNCHANGED rows
       \/ /\ rows[t][session[t]] = "paid"
          /\ Return(t)
          /\ UNCHANGED claimed
    /\ UNCHANGED <<stripeVars, ledger, entitlement, failures, historyVars>>

\* Mutant of ClaimFinalization: the claim is taken, then the flag is asked too.
ClaimThenNewlyPaid(t) ==
    /\ pc[t] = "claim"
    /\ claimed' = claimed \cup {session[t]}
    /\ \/ /\ session[t] \notin claimed /\ rows[t][session[t]] # "paid"
          /\ Goto(t, "grant")
          /\ UNCHANGED rows
       \/ /\ session[t] \in claimed \/ rows[t][session[t]] = "paid"
          /\ Return(t)
    /\ UNCHANGED <<stripeVars, ledger, entitlement, failures, historyVars>>

\* Mutant of ClaimFinalization: every confirmation runs the side effects.
ClaimAlways(t) ==
    /\ pc[t] = "claim"
    /\ claimed' = claimed \cup {session[t]}
    /\ Goto(t, "grant")
    /\ UNCHANGED <<stripeVars, ledger, entitlement, rows, failures, historyVars>>

\* INSERT OR IGNORE into finalized_orders: only the first caller goes on.
ClaimFinalization(t) ==
    /\ pc[t] = "claim"
    /\ \/ /\ session[t] \notin claimed
          /\ claimed' = claimed \cup {session[t]}
          /\ Goto(t, "grant")
          /\ UNCHANGED rows
       \/ /\ session[t] \in claimed
          /\ Return(t)
          /\ UNCHANGED claimed
    /\ UNCHANGED <<stripeVars, ledger, entitlement, failures, historyVars>>

\* Mutant of GrantedRow: COALESCE with its arguments swapped.
GrantedRowKeepsSub(s) ==
    [status |-> "active",
     session |-> s,
     sub |-> IF entitlement[KeyOf(s)].sub # NoSession THEN entitlement[KeyOf(s)].sub
             ELSE IF ProductOf[s] \in Recurring THEN s ELSE NoSession]

\* The upsert of grant_entitlement: an empty subscription id keeps the old.
GrantedRow(s) ==
    [status |-> "active",
     session |-> s,
     sub |-> IF ProductOf[s] \in Recurring THEN s ELSE entitlement[KeyOf(s)].sub]

GrantEntitlement(t) ==
    /\ pc[t] = "grant"
    /\ entitlement' = [entitlement EXCEPT ![KeyOf(session[t])] = GrantedRow(session[t])]
    /\ grants' = [grants EXCEPT ![session[t]] = @ + 1]
    /\ Goto(t, "receipt")
    /\ UNCHANGED <<stripeVars, ledger, claimed, rows, failures, recorded, receipts>>

\* A mailer that raises is audited and the handler still answers 200.
SendReceipt(t) ==
    /\ pc[t] = "receipt"
    /\ receipts' = [receipts EXCEPT ![session[t]] = @ + 1]
    /\ Return(t)
    /\ UNCHANGED <<stripeVars, storeVars, failures, recorded, grants>>

\* UPDATE entitlements SET status WHERE stripe_subscription_id = the event's,
\* unless the event names none.
SetStatusBySubscription(s, status) ==
    entitlement' = [k \in Keys |->
        IF s # NoSession /\ entitlement[k].sub = s
          THEN [entitlement[k] EXCEPT !.status = status]
          ELSE entitlement[k]]

\* Mutant of StatusOf: a failed renewal stores the status Stripe reports.
StatusOfAsReported(type) ==
    CASE type = "deleted" -> "canceled"
      [] type = "payment_failed" -> "unpaid"
      [] type = "updated" -> "active"

StatusOf(type) ==
    CASE type = "deleted" -> "canceled"
      [] type = "payment_failed" -> "past_due"
      [] type = "updated" -> "active"

\* POST /stripe/webhook with one of the three subscription events.
WebhookSubscription(s, type) ==
    /\ Event(type, s) \in events
    /\ pc[Loop] = "idle"
    /\ SetStatusBySubscription(s, StatusOf(type))
    /\ UNCHANGED <<stripeVars, ledger, claimed, threadVars,
                   failures, historyVars>>

\* The same webhook with invoice.payment_failed for a charge outside any
\* subscription, which Stripe may send at any time.
WebhookInvoice ==
    /\ pc[Loop] = "idle"
    /\ SetStatusBySubscription(NoSession, "past_due")
    /\ UNCHANGED <<stripeVars, ledger, claimed, threadVars, failures, historyVars>>

\* A handler stops between two steps; nothing it wrote is undone.
Stop(t) ==
    /\ pc[t] # "idle"
    /\ failures < MaxFailures
    /\ failures' = failures + 1
    /\ Return(t)
    /\ UNCHANGED <<stripeVars, storeVars, historyVars>>

-----------------------------------------------------------------------------
Stripe(s) == Pay(s) \/ RenewalFails(s) \/ RenewalRecovers(s) \/ SubscriptionEnds(s)

Request(t, s) == CreateCheckoutSession(t, s) \/ SuccessPage(t, s)

Webhook ==
    \/ \E s \in Sessions : WebhookCompleted(s)
    \/ \E s \in Sessions, type \in EventTypes \ {"completed"} :
            WebhookSubscription(s, type)
    \/ WebhookInvoice

HandlerStep(t) ==
    \/ AppendOrder(t)
    \/ ReadLedger(t)
    \/ RewriteLedger(t)
    \/ ClaimFinalization(t)
    \/ GrantEntitlement(t)
    \/ SendReceipt(t)

Next ==
    \/ \E s \in Sessions : Stripe(s)
    \/ Webhook
    \/ \E t \in Threads, s \in Sessions : Request(t, s)
    \/ \E t \in Threads : HandlerStep(t) \/ Stop(t)

Spec == Init /\ [][Next]_vars

-----------------------------------------------------------------------------
(* Properties *)

\* Access is always backed by a session Stripe completed, sold to that owner
\* for that product, and is tied to a subscription of the same sale: neither
\* the success page nor a webhook of another session can open it.
EntitlementIsPaidFor ==
    \A k \in Keys : entitlement[k] # NoRow =>
        /\ checkout[entitlement[k].session] = "complete"
        /\ KeyOf(entitlement[k].session) = k
        /\ entitlement[k].sub # NoSession => KeyOf(entitlement[k].sub) = k

\* The one-time claim is never burnt on a session whose order is not recorded
\* yet: a webhook that overtakes POST /checkout leaves the claim for a later
\* finalizer, which has an order to grant from.
ClaimedOrderWasRecorded == claimed \subseteq recorded

\* As long as no handler stopped half way, a claimed session has been turned
\* into access, or the one handler that won the claim is about to do it.
FinalizedUnlessStopped ==
    failures = 0 =>
        \A s \in claimed : grants[s] > 0 \/ \E t \in Threads :
            session[t] = s /\ pc[t] = "grant"

\* What an owner paid for last is not taken away by the events of another
\* subscription, by an invoice without one, or by a purchase it replaced.
Troubled(s) ==
    Event("deleted", s) \in events \/ Event("payment_failed", s) \in events

AccessNotLost ==
    \A k \in Keys :
        LET s == entitlement[k].session
        IN  entitlement[k] # NoRow /\ ~Troubled(s) => entitlement[k].status = "active"

\* Access that was suspended or ended comes back only through a new purchase
\* or a recovery Stripe reported: reloading the success page or receiving
\* checkout.session.completed again never reopens it.
RevokedStaysRevoked ==
    [][\A k \in Keys :
          (/\ entitlement[k].status \in {"past_due", "canceled"}
           /\ entitlement'[k].status = "active")
          => \/ entitlement'[k].session # entitlement[k].session
             \/ Event("updated", entitlement[k].sub) \in events]_vars

\* Whatever the interleaving of webhook and success page, the duplicates, the
\* overtaking and the handlers that stop, each session is granted at most once
\* and then notified at most once, only after it was paid.
Abstract == INSTANCE Purchases WITH
    paid <- {s \in Sessions : checkout[s] = "complete"}

AtMostOnceFinalization == Abstract!Spec

\* projects.py says of mark_order_paid that "a read-modify-write rewrite is
\* fine here": an order on the ledger stays on it, and a paid one stays paid.
LedgerKeepsOrders ==
    [][\A s \in Sessions :
          /\ ledger[s] # "absent" => ledger'[s] # "absent"
          /\ ledger[s] = "paid" => ledger'[s] = "paid"]_vars

\* auth_db.py says of claim_finalization that it "guarantees the one-time side
\* effects (receipt email, audit event) run exactly once": when no handler is
\* left holding the claim of a session, its receipt has been sent.
ClaimedMeansNotified ==
    \A s \in claimed : receipts[s] = 1 \/ \E t \in Threads :
        session[t] = s /\ pc[t] \in {"grant", "receipt"}
=============================================================================
