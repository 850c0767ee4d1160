-------------------------- MODULE FreelancePayments --------------------------
(***************************************************************************)
(* Orders that are paid through a Stripe payment link or a subscription    *)
(* (apps/freelance/services/freelance_service.py, webhook_service.py and   *)
(* idempotency.py, and the webhook route): the delivery that creates the   *)
(* link or the subscription, the webhooks that tell what became of it, the *)
(* refund and the cancellation.                                            *)
(*                                                                         *)
(* Requests run side by side and each is a list of commits with calls of   *)
(* Stripe between them.  A session writes the columns it changed from the  *)
(* row it loaded (`seen`), which another request may have changed since.   *)
(* Stripe knows links, payment intents and subscriptions; it sends each    *)
(* event at least once, in any order, and again when the answer did not    *)
(* reach it.                                                               *)
(***************************************************************************)
EXTENDS Naturals, FiniteSets, Sequences

CONSTANTS
    Orders,         \* orders, each named by the idempotency key of its creation
    Intents,        \* Stripe's payment intents
    RefundKeys,     \* the idempotency keys of refund requests
    Types,          \* the delivery types an order may have
    Threads,        \* requests that can be served at once
    None,           \* a null column
    Declinable,     \* the intents whose first card may be declined
    EventsFail,     \* may a required system event be refused?
    StripeFails,    \* may a call of Stripe fail, or lose its answer?
    Retyped,        \* the orders whose delivery type the owner may change
    MaxDeliveries,  \* bound: deliveries
    MaxChanges,     \* bound: how often a subscription's status changes
    MaxEvents,      \* bound: events Stripe manages to deliver
    MaxCrashes      \* bound: how often the process dies

ASSUME PaymentsAssumption ==
    /\ None \notin Intents \cup Orders \cup [of : Orders, n : 1 .. MaxDeliveries]
    /\ Types \subseteq {"payment", "subscription", "manual"}
    /\ Declinable \subseteq Intents /\ Retyped \subseteq Orders
    /\ EventsFail \in BOOLEAN /\ StripeFails \in BOOLEAN
    /\ MaxDeliveries \in Nat /\ MaxChanges \in Nat \ {0}
    /\ MaxEvents \in Nat /\ MaxCrashes \in Nat

VARIABLES
    order,          \* freelance_orders
    payment,        \* freelance_payment_records: one for each intent
    refund,         \* freelance_refund_records: one for each key
    task,           \* the task linked to each order
    event,          \* freelance_webhook_events: the outcome of each event
    begun,          \* how many deliveries were begun
    req,            \* what each thread is doing
    stripe,         \* external: links shown, intents, subscriptions, events raised
    posts,          \* history: refunds asked of Stripe, for each key
    told,           \* history: PAYMENT_CONFIRMED emitted, for each intent
    crashes         \* how often the process has died

vars == <<order, payment, refund, task, event, begun, req, stripe, posts, told, crashes>>

-----------------------------------------------------------------------------
(* Rows.                                                                   *)

\* What a delivery makes at Stripe: a payment link or a subscription.
Links == [of : Orders, n : 1 .. MaxDeliveries]

\* The events of a subscription tell of its nth status.
SubKinds == {"updated", "deleted", "paid", "unpaid"}
SubEvents == [kind : SubKinds, sub : Links, nth : 1 .. MaxChanges]
Events == [kind : {"checkout", "succeeded", "failed"}, intent : Intents] \cup SubEvents

\* Stripe's statuses of a subscription; the code's own word is "cancelled".
SubStates == {"incomplete", "active", "past_due"}

OrderRows ==
    [status : {"absent", "pending", "delivered", "delivery_failed",
               "payment_confirmed", "payment_failed", "refunded",
               "subscription_active", "subscription_cancelled", "subscription_restricted"},
     type : {"payment", "subscription", "manual"},
     payment : {"none", "confirmed", "failed", "refunded"},
     link : Links \cup {None},       \* stripe_payment_link_id
     sent : Links \cup {None},       \* external_response["payment_link_id"]
     intent : Intents \cup {None},   \* stripe_payment_intent_id
     sub : Links \cup {None},        \* stripe_subscription_id
     subscribed : {"none", "cancelled"} \cup SubStates]   \* subscription_status

NoOrder == [status |-> "absent", type |-> "payment", payment |-> "none",
            link |-> None, sent |-> None, intent |-> None,
            sub |-> None, subscribed |-> "none"]
NoRecord == [status |-> "absent", order |-> None]

Exists(o) == order[o].status # "absent"

\* Mutant: the session writes every column of the row it loaded.
Written_WholeRow(o, seen, mine) == mine

\* A commit updates the columns that differ from the row as it was loaded.
Written(o, seen, mine) ==
    [c \in DOMAIN mine |-> IF mine[c] # seen[c] THEN mine[c] ELSE order[o][c]]

Idle == [pc |-> "idle"]
At(t, pc) == req[t].pc = pc
Go(t, pc) == req' = [req EXCEPT ![t].pc = pc]
GoWith(t, pc, row) == req' = [req EXCEPT ![t].pc = pc, ![t].seen = row]
Forget(t, pc) == GoWith(t, pc, NoOrder)
Done(t) == req' = [req EXCEPT ![t] = Idle]

Init ==
    /\ order = [o \in Orders |-> NoOrder]
    /\ payment = [i \in Intents |-> NoRecord]
    /\ refund = [k \in RefundKeys |-> NoRecord]
    /\ task = [o \in Orders |-> "open"]
    /\ event = [e \in Events |-> "absent"]
    /\ begun = 0
    /\ req = [t \in Threads |-> Idle]
    /\ stripe = [shown |-> {}, raised |-> {}, life |-> [s \in Links |-> <<>>],
                 intent |-> [i \in Intents |-> [state |-> "unused", link |-> None, key |-> None]]]
    /\ posts = [k \in RefundKeys |-> 0]
    /\ told = [i \in Intents |-> 0]
    /\ crashes = 0

-----------------------------------------------------------------------------
(* Stripe and the customer.                                                *)

LinkOf(i) == stripe.intent[i].link
Unrefunded == {i \in Intents : stripe.intent[i].state = "charged"}
Charged(i) == stripe.intent[i].state \in {"charged", "refunded"}

\* A customer opens a link that an order has shown, now or earlier.
Pay(i, link) ==
    /\ stripe.intent[i].state = "unused"
    /\ stripe' = [stripe EXCEPT
         !.intent[i] = [state |-> "charged", link |-> link, key |-> None],
         !.raised = @ \cup [kind : {"checkout", "succeeded"}, intent : {i}]]
    /\ UNCHANGED <<order, payment, refund, task, event, begun, req, posts, told, crashes>>

\* A card is declined: the intent stays open and may be charged later.
Decline(i) ==
    /\ i \in Declinable /\ stripe.shown # {} /\ stripe.intent[i].state = "unused"
    /\ [kind |-> "failed", intent |-> i] \notin stripe.raised
    /\ stripe' = [stripe EXCEPT !.raised = @ \cup {[kind |-> "failed", intent |-> i]}]
    /\ UNCHANGED <<order, payment, refund, task, event, begun, req, posts, told, crashes>>

\* A subscription's next status, and the events that tell of it.
Tells(s, status) ==
    LET kinds == CASE status = "active" -> {"updated", "paid"}
                   [] status = "past_due" -> {"updated", "unpaid"}
                   [] status = "canceled" -> {"deleted"}
                   [] OTHER -> {"updated"}
    IN [kind : kinds, sub : {s}, nth : {Len(stripe.life[s]) + 1}]
Turned(s, status) ==
    [stripe EXCEPT !.life[s] = Append(@, status), !.raised = @ \cup Tells(s, status)]

Alive(s) == stripe.life[s] # <<>> /\ stripe.life[s][Len(stripe.life[s])] # "canceled"
HasBeen(s, status) == \E n \in DOMAIN stripe.life[s] : stripe.life[s][n] = status

\* An invoice is paid or not, or the customer's side cancels.
SubscriptionTurns(s, status) ==
    /\ Alive(s) /\ Len(stripe.life[s]) < MaxChanges
    /\ stripe.life[s][Len(stripe.life[s])] # status
    /\ status = "past_due" => HasBeen(s, "active")
    /\ stripe' = Turned(s, status)
    /\ UNCHANGED <<order, payment, refund, task, event, begun, req, posts, told, crashes>>

-----------------------------------------------------------------------------
(* create_order and update_delivery_config: one commit each.  An order     *)
(* whose key exists is returned as it is.                                  *)

CreateOrder(o, type) ==
    /\ ~Exists(o)
    /\ order' = [order EXCEPT ![o] = [NoOrder EXCEPT !.status = "pending", !.type = type]]
    /\ UNCHANGED <<payment, refund, task, event, begun, req, stripe, posts, told, crashes>>

UpdateDeliveryConfig(o, type) ==
    /\ o \in Retyped /\ Exists(o) /\ type # order[o].type
    /\ order' = [order EXCEPT ![o].type = type]
    /\ UNCHANGED <<payment, refund, task, event, begun, req, stripe, posts, told, crashes>>

-----------------------------------------------------------------------------
(* deliver_order and _perform_delivery.                                    *)

Deliver(t, o) ==
    /\ At(t, "idle") /\ Exists(o) /\ begun < MaxDeliveries
    /\ begun' = begun + 1
    /\ req' = [req EXCEPT ![t] = [pc |-> "deliver", order |-> o, seen |-> order[o],
                                  link |-> [of |-> o, n |-> begun + 1]]]
    /\ UNCHANGED <<order, payment, refund, task, event, stripe, posts, told, crashes>>

\* _dispatch_delivery: a new payment link for a payment order, a subscription
\* whose first invoice is open for a subscription order.  When the call fails
\* or its answer is lost, the link is not known to anybody, and a subscription
\* may live on.
MakeLink(t) ==
    LET type == req[t].seen.type IN
    /\ At(t, "deliver")
    /\ \/ type = "payment" /\ Go(t, "deliver_commit") /\ UNCHANGED stripe
       \/ type = "subscription" /\ stripe' = Turned(req[t].link, "incomplete")
          /\ \E answered \in {TRUE} \cup {~StripeFails} :
               Go(t, IF answered THEN "deliver_commit" ELSE "deliver_fail")
       \/ type # "manual" /\ StripeFails /\ Go(t, "deliver_fail") /\ UNCHANGED stripe
       \/ type = "manual" /\ UNCHANGED stripe
          /\ req' = [req EXCEPT ![t].pc = "deliver_commit", ![t].link = None]
    /\ UNCHANGED <<order, payment, refund, task, event, begun, posts, told, crashes>>

\* Mutant: the order takes the delivery's status as its own.
Delivered_Manual(seen, link) ==
    [seen EXCEPT !.status = IF link = None THEN "manual" ELSE "delivered"]

\* The first link stays in stripe_payment_link_id; a subscription is replaced.
Delivered(seen, link) ==
    IF seen.type = "subscription"
    THEN [seen EXCEPT !.status = "delivered", !.sub = link, !.subscribed = "incomplete"]
    ELSE [seen EXCEPT !.status = "delivered", !.link = IF @ = None THEN link ELSE @]

\* external_response is a new value each time: the latest link, or none.
WithResponse(o, seen, mine, link) == [Written(o, seen, mine) EXCEPT !.sent = link]

\* DELIVERY_COMPLETED and SUBSCRIPTION_CREATED are required: if one is refused,
\* the handler of every failure runs although the delivery was committed.
DeliverCommit(t) ==
    LET o == req[t].order
        link == IF req[t].seen.type = "payment" THEN req[t].link ELSE None
        row == WithResponse(o, req[t].seen, Delivered(req[t].seen, req[t].link), link)
    IN
    /\ At(t, "deliver_commit")
    /\ order' = [order EXCEPT ![o] = row]
    /\ \/ Forget(t, "feedback")
       \/ EventsFail /\ GoWith(t, "deliver_fail", row)
    /\ stripe' = [stripe EXCEPT !.shown = @ \cup ({link} \ {None})]
    /\ UNCHANGED <<payment, refund, task, event, begun, posts, told, crashes>>

DeliverFail(t) ==
    LET o == req[t].order
        seen == req[t].seen
    IN
    /\ At(t, "deliver_fail")
    /\ order' = [order EXCEPT
         ![o] = WithResponse(o, seen, [seen EXCEPT !.status = "delivery_failed"], None)]
    /\ Done(t)
    /\ UNCHANGED <<payment, refund, task, event, begun, stripe, posts, told, crashes>>

\* _update_linked_task_feedback, which swallows a failure.
TaskFeedback(t) ==
    /\ At(t, "feedback")
    /\ task' \in {task, [task EXCEPT ![req[t].order] = "completed"]}
    /\ Done(t)
    /\ UNCHANGED <<order, payment, refund, event, begun, stripe, posts, told, crashes>>

-----------------------------------------------------------------------------
(* The Stripe webhook: stripe_webhook, handle_stripe_event, record_payment.*)

\* Mutant: only the latest link is looked at.
Found_LatestLink(i, link) == {o \in Orders :
    order[o].intent = i \/ (link # None /\ order[o].type = "payment" /\ order[o].sent = link)}

\* _find_order_by_stripe_ids: by intent, then by link, then by the link in
\* the external response of a payment order.  Only a checkout names the link.
Found(i, link) ==
    LET byIntent == {o \in Orders : order[o].intent = i}
        byLink == {o \in Orders : link # None /\ order[o].link = link}
        bySent == {o \in Orders : link # None /\ order[o].type = "payment" /\ order[o].sent = link}
    IN IF byIntent # {} THEN byIntent
       ELSE IF byLink # {} THEN byLink ELSE bySent

\* _find_order_by_subscription_id
Subscribed(s) == {o \in Orders : order[o].sub = s}

Handler(kind) ==
    CASE kind \in SubKinds -> "subscription"
      [] kind = "failed" -> "payment_failed"
      [] OTHER -> "reserve"

\* claim_webhook_event: the event's row is inserted once.  Whoever finds it
\* there changes nothing and answers, with status 200, that the event has been
\* processed already.  The look-up that follows reads what the claim's commit
\* left; a payment's order is loaded later.
Receive(t, e) ==
    LET found == IF e.kind \in SubKinds THEN Subscribed(e.sub)
                 ELSE Found(e.intent, IF e.kind = "checkout" THEN LinkOf(e.intent) ELSE None)
        Begin(pc, o, row) == [pc |-> pc, event |-> e, order |-> o, seen |-> row]
    IN
    /\ At(t, "idle") /\ e \in stripe.raised /\ event[e] = "absent"
    /\ Cardinality({f \in Events : event[f] # "absent"}) < MaxEvents
    /\ event' = [event EXCEPT ![e] = "processing"]
    /\ \/ found = {} /\ req' = [req EXCEPT ![t] = Begin("mark", None, NoOrder)]
       \/ \E o \in found :
            LET pc == Handler(e.kind) IN
            req' = [req EXCEPT ![t] = Begin(pc, o, IF pc = "reserve" THEN NoOrder ELSE order[o])]
    /\ UNCHANGED <<order, payment, refund, task, begun, stripe, posts, told, crashes>>

\* Mutant: no unique key.
Fresh_Always(i) == TRUE

\* check_or_create by the intent: the first event of an intent goes on, the
\* others find the record.
Fresh(i) == payment[i].status = "absent"

\* The insert's commit expires the order, which is then read again.
Reserve(t) ==
    LET i == req[t].event.intent
        row == order[req[t].order]
    IN
    /\ At(t, "reserve")
    /\ \/ ~Fresh(i) /\ Go(t, "mark") /\ UNCHANGED payment
       \/ /\ Fresh(i)
          /\ payment' = [payment EXCEPT ![i] = [status |-> "pending", order |-> req[t].order]]
          /\ IF row.payment = "confirmed" THEN Go(t, "record_again")
             ELSE GoWith(t, "confirm", row)
    /\ UNCHANGED <<order, refund, task, event, begun, stripe, posts, told, crashes>>

Confirmed(seen, e) ==
    [seen EXCEPT !.payment = "confirmed", !.status = "payment_confirmed",
                 !.intent = IF @ = None THEN e.intent ELSE @,
                 !.link = IF @ = None /\ e.kind = "checkout" THEN LinkOf(e.intent) ELSE @]

ConfirmOrder(t) ==
    LET o == req[t].order IN
    /\ At(t, "confirm")
    /\ order' = [order EXCEPT ![o] = Written(o, req[t].seen, Confirmed(req[t].seen, req[t].event))]
    /\ Forget(t, "record")
    /\ UNCHANGED <<payment, refund, task, event, begun, stripe, posts, told, crashes>>

ConfirmRecord(t) ==
    /\ At(t, "record") \/ At(t, "record_again")
    /\ payment' = [payment EXCEPT ![req[t].event.intent].status = "confirmed"]
    /\ Go(t, IF At(t, "record") THEN "announce" ELSE "complete")
    /\ UNCHANGED <<order, refund, task, event, begun, stripe, posts, told, crashes>>

\* PAYMENT_CONFIRMED is required: refused, it fails the whole webhook.
Announce(t) ==
    /\ At(t, "announce")
    /\ \/ /\ told' = [told EXCEPT ![req[t].event.intent] = @ + 1]
          /\ Go(t, "complete")
       \/ EventsFail /\ Go(t, "mark_failed") /\ UNCHANGED told
    /\ UNCHANGED <<order, payment, refund, task, event, begun, stripe, posts, crashes>>

\* _complete_linked_task_via_syscall: a completed task is left alone; another
\* is completed by its name, which finds any task of that name.  The reading
\* may be refused, open dependencies refuse the completion, and every failure
\* is swallowed: then no task changes.
CompleteTask(t) ==
    LET named == IF task[req[t].order] = "open" THEN Orders ELSE {} IN
    /\ At(t, "complete")
    /\ task' \in {task} \cup {[task EXCEPT ![o] = "completed"] : o \in named}
    /\ Go(t, "mark")
    /\ UNCHANGED <<order, payment, refund, event, begun, stripe, posts, told, crashes>>

\* _fail_payment.  Its order was found by its intent, which only a confirmed
\* payment stores.
PaymentFailed(t) ==
    LET o == req[t].order
        seen == req[t].seen
    IN
    /\ At(t, "payment_failed")
    /\ order' = IF seen.payment \in {"confirmed", "refunded"} THEN order
                ELSE [order EXCEPT ![o] = Written(o, seen,
                        [seen EXCEPT !.payment = "failed", !.status = "payment_failed"])]
    /\ Forget(t, "mark")
    /\ UNCHANGED <<payment, refund, task, event, begun, stripe, posts, told, crashes>>

\* _update_subscription_status, _cancel_subscription_from_webhook,
\* _renew_subscription, _subscription_payment_failed: one commit.
Told(seen, e) ==
    CASE e.kind = "updated" -> [seen EXCEPT !.subscribed = stripe.life[e.sub][e.nth]]
      [] e.kind = "deleted" -> [seen EXCEPT !.subscribed = "cancelled",
                                            !.status = "subscription_cancelled"]
      [] e.kind = "paid" -> [seen EXCEPT !.subscribed = "active"]
      [] e.kind = "unpaid" -> [seen EXCEPT !.subscribed = "past_due"]

UpdateSubscription(t) ==
    LET o == req[t].order
        e == req[t].event
    IN
    /\ At(t, "subscription")
    /\ order' = [order EXCEPT ![o] = Written(o, req[t].seen, Told(req[t].seen, e))]
    /\ Forget(t, "find_again")
    /\ UNCHANGED <<payment, refund, task, event, begun, stripe, posts, told, crashes>>

\* All but an update emit a required event, whose refusal fails the webhook;
\* then the order is looked for again.
FindAgain(t) ==
    LET e == req[t].event IN
    /\ At(t, "find_again")
    /\ \/ e.kind # "updated" /\ EventsFail /\ Go(t, "mark_failed")
       \/ Subscribed(e.sub) = {} /\ Go(t, "mark")
       \/ \E o \in Subscribed(e.sub) : GoWith(t, "access", order[o])
    /\ UNCHANGED <<order, payment, refund, task, event, begun, stripe, posts, told, crashes>>

\* Mutant: whoever is not cancelled has access.
Access_NotCancelled(row) ==
    [row EXCEPT !.status = IF row.subscribed = "cancelled" THEN "subscription_cancelled"
                           ELSE "subscription_active"]

\* _apply_subscription_access_state, from the row as it was found again.
Access(row) ==
    [row EXCEPT !.status = CASE row.subscribed = "active" -> "subscription_active"
                             [] row.subscribed = "cancelled" -> "subscription_cancelled"
                             [] OTHER -> "subscription_restricted"]

ApplyAccess(t) ==
    LET o == req[t].order IN
    /\ At(t, "access")
    /\ order' = [order EXCEPT ![o] = Written(o, req[t].seen, Access(req[t].seen))]
    /\ Forget(t, "mark")
    /\ UNCHANGED <<payment, refund, task, event, begun, stripe, posts, told, crashes>>

\* mark_webhook_outcome; the answer has status 200 either way.
MarkOutcome(t) ==
    /\ At(t, "mark") \/ At(t, "mark_failed")
    /\ event' = [event EXCEPT ![req[t].event] =
                   IF At(t, "mark") THEN "fulfilled" ELSE "failed"]
    /\ Done(t)
    /\ UNCHANGED <<order, payment, refund, task, begun, stripe, posts, told, crashes>>

-----------------------------------------------------------------------------
(* issue_refund.                                                           *)

Refundable(row) ==
    row.type = "payment" /\ row.payment = "confirmed" /\ row.intent # None

Refund(t, o, k) ==
    /\ At(t, "idle") /\ refund[k].status = "absent" /\ Refundable(order[o])
    /\ req' = [req EXCEPT ![t] = [pc |-> "refund", order |-> o, key |-> k, seen |-> order[o]]]
    /\ UNCHANGED <<order, payment, refund, task, event, begun, stripe, posts, told, crashes>>

\* check_or_create by the key of the request.
FreshKey(k) == refund[k].status = "absent"

ReserveRefund(t) ==
    LET k == req[t].key IN
    /\ At(t, "refund")
    /\ IF FreshKey(k)
       THEN /\ refund' = [refund EXCEPT ![k] = [status |-> "pending", order |-> req[t].order]]
            /\ GoWith(t, "post", order[req[t].order])
       ELSE Done(t) /\ UNCHANGED refund
    /\ UNCHANGED <<order, payment, task, event, begun, stripe, posts, told, crashes>>

\* Mutant: the exception is swallowed.
AfterPost_Refunded(answered) == "refunded"

\* Any exception, a lost answer included, is a failed refund.
AfterPost(answered) == IF answered THEN "refunded" ELSE "refund_failed"

\* POST /v1/refunds, which names no idempotency key: Stripe refunds an intent
\* once and refuses it the second time.
PostRefund(t) ==
    LET i == req[t].seen.intent IN
    /\ At(t, "post")
    /\ posts' = [posts EXCEPT ![req[t].key] = @ + 1]
    /\ \/ /\ i \in Unrefunded
          /\ stripe' = [stripe EXCEPT
               !.intent[i] = [@ EXCEPT !.state = "refunded", !.key = req[t].key]]
          /\ \E answered \in {TRUE} \cup {~StripeFails} : Go(t, AfterPost(answered))
       \/ /\ i \notin Unrefunded \/ StripeFails
          /\ Go(t, AfterPost(FALSE))
          /\ UNCHANGED stripe
    /\ UNCHANGED <<order, payment, refund, task, event, begun, told, crashes>>

\* Mutant: the order's payment_status is forgotten.
Refunded_StatusOnly(seen) == [seen EXCEPT !.status = "refunded"]

Refunded(seen) == [seen EXCEPT !.payment = "refunded", !.status = "refunded"]

RefundOrder(t) ==
    LET o == req[t].order IN
    /\ At(t, "refunded")
    /\ order' = [order EXCEPT ![o] = Written(o, req[t].seen, Refunded(req[t].seen))]
    /\ Forget(t, "refund_record")
    /\ UNCHANGED <<payment, refund, task, event, begun, stripe, posts, told, crashes>>

\* Mutant: the record is left as it was reserved.
RefundOutcome_None(pc) == "pending"

RefundOutcome(pc) == IF pc = "refund_record" THEN "succeeded" ELSE "failed"

RecordRefund(t) ==
    /\ At(t, "refund_record") \/ At(t, "refund_failed")
    /\ refund' = [refund EXCEPT ![req[t].key].status = RefundOutcome(req[t].pc)]
    /\ Done(t)
    /\ UNCHANGED <<order, payment, task, event, begun, stripe, posts, told, crashes>>

-----------------------------------------------------------------------------
(* cancel_subscription.                                                    *)

Cancellable(row) ==
    row.type = "subscription" /\ row.sub # None /\ row.subscribed # "cancelled"

Cancel(t, o) ==
    /\ At(t, "idle") /\ Cancellable(order[o])
    /\ req' = [req EXCEPT ![t] = [pc |-> "cancel", order |-> o, seen |-> order[o]]]
    /\ UNCHANGED <<order, payment, refund, task, event, begun, stripe, posts, told, crashes>>

\* Mutant: the exception is swallowed.
AfterDelete_Cancelled(answered) == "cancelled"

\* Any exception ends the request before it has written anything.
AfterDelete(answered) == IF answered THEN "cancelled" ELSE "give_up"

\* DELETE /v1/subscriptions/{id}, which fails for one that is canceled.
DeleteSubscription(t) ==
    LET s == req[t].seen.sub IN
    /\ At(t, "cancel")
    /\ \/ /\ Alive(s) /\ Len(stripe.life[s]) < MaxChanges
          /\ stripe' = Turned(s, "canceled")
          /\ \E answered \in {TRUE} \cup {~StripeFails} : Go(t, AfterDelete(answered))
       \/ /\ ~Alive(s) \/ StripeFails \/ Len(stripe.life[s]) = MaxChanges
          /\ Go(t, AfterDelete(FALSE))
          /\ UNCHANGED stripe
    /\ UNCHANGED <<order, payment, refund, task, event, begun, posts, told, crashes>>

CancelOrder(t) ==
    LET o == req[t].order
        seen == req[t].seen
    IN
    /\ At(t, "cancelled") \/ At(t, "give_up")
    /\ order' = IF At(t, "give_up") THEN order
                ELSE [order EXCEPT ![o] = Written(o, seen,
                        [seen EXCEPT !.subscribed = "cancelled",
                                     !.status = "subscription_cancelled"])]
    /\ Done(t)
    /\ UNCHANGED <<payment, refund, task, event, begun, stripe, posts, told, crashes>>

-----------------------------------------------------------------------------
\* The process dies: what was committed stays, every request is gone.
Crash ==
    /\ crashes < MaxCrashes
    /\ \E t \in Threads : req[t] # Idle
    /\ crashes' = crashes + 1
    /\ req' = [t \in Threads |-> Idle]
    /\ UNCHANGED <<order, payment, refund, task, event, begun, stripe, posts, told>>

Step(t) ==
    \/ MakeLink(t) \/ DeliverCommit(t) \/ DeliverFail(t) \/ TaskFeedback(t)
    \/ Reserve(t) \/ ConfirmOrder(t) \/ ConfirmRecord(t)
    \/ Announce(t) \/ CompleteTask(t) \/ PaymentFailed(t) \/ MarkOutcome(t)
    \/ UpdateSubscription(t) \/ FindAgain(t) \/ ApplyAccess(t)
    \/ ReserveRefund(t) \/ PostRefund(t) \/ RefundOrder(t) \/ RecordRefund(t)
    \/ DeleteSubscription(t) \/ CancelOrder(t)

Next ==
    \/ \E o \in Orders, type \in Types :
         CreateOrder(o, type) \/ UpdateDeliveryConfig(o, type)
    \/ \E i \in Intents : Decline(i) \/ \E link \in stripe.shown : Pay(i, link)
    \/ \E s \in Links, status \in {"active", "past_due", "canceled"} : SubscriptionTurns(s, status)
    \/ \E t \in Threads :
         \/ \E o \in Orders : Deliver(t, o) \/ Cancel(t, o) \/ \E k \in RefundKeys : Refund(t, o, k)
         \/ \E e \in Events : Receive(t, e)
         \/ Step(t)
    \/ Crash

Spec == Init /\ [][Next]_vars

\* Stripe sends an event until a request takes it, and a request that was
\* begun goes on; nobody is bound to pay, to deliver or to refund.
Fairness ==
    /\ \A t \in Threads : WF_vars(Step(t))
    /\ SF_vars(\E t \in Threads, e \in Events : Receive(t, e))

FairSpec == Spec /\ Fairness

-----------------------------------------------------------------------------
(* Properties.                                                             *)

Steps ==
    {"idle", "deliver", "deliver_commit", "deliver_fail", "feedback",
     "payment_failed", "reserve", "confirm", "record", "record_again", "announce",
     "complete", "mark", "mark_failed", "subscription", "find_again", "access",
     "refund", "post", "refunded", "refund_record", "refund_failed",
     "cancel", "cancelled", "give_up"}
Field(r, f, S) == f \in DOMAIN r => r[f] \in S
RequestOK(r) ==
    /\ r.pc \in Steps /\ Field(r, "order", Orders \cup {None}) /\ Field(r, "seen", OrderRows)
    /\ Field(r, "link", Links \cup {None}) /\ Field(r, "event", Events)
    /\ Field(r, "key", RefundKeys)

\* The types of the variables.
TypeOK ==
    /\ order \in [Orders -> OrderRows]
    /\ payment \in [Intents -> [status : {"absent", "pending", "confirmed"},
                               order : Orders \cup {None}]]
    /\ refund \in [RefundKeys -> [status : {"absent", "pending", "succeeded", "failed"},
                                 order : Orders \cup {None}]]
    /\ task \in [Orders -> {"open", "completed"}]
    /\ event \in [Events -> {"absent", "processing", "fulfilled", "failed"}]
    /\ begun \in 0 .. MaxDeliveries
    /\ DOMAIN req = Threads /\ \A t \in Threads : RequestOK(req[t])
    /\ stripe \in [shown : SUBSET Links, raised : SUBSET Events,
                   life : [Links -> Seq(SubStates \cup {"canceled"})],
                   intent : [Intents -> [state : {"unused", "charged", "refunded"},
                                         link : Links \cup {None},
                                         key : RefundKeys \cup {None}]]]
    /\ posts \in [RefundKeys -> Nat] /\ told \in [Intents -> Nat]
    /\ crashes \in 0 .. MaxCrashes

\* record_payment and issue_refund: two events tell of one payment, and Stripe
\* may repeat each; it is announced once.  A refund is asked once for a key,
\* however often that key is sent.
OncePerKey ==
    /\ \A i \in Intents : told[i] <= 1
    /\ \A k \in RefundKeys : posts[k] <= 1

\* The payments on record for an order that came through a link of its own.
Credited(o) == {i \in Intents :
    payment[i].status # "absent" /\ payment[i].order = o /\ LinkOf(i).of = o}

\* record_payment, issue_refund, cancel_subscription and the webhooks: what an
\* order says of its money is what Stripe did with a payment or a subscription
\* of that order, whichever requests overlap and in whatever order events come;
\* so is what a refund's record claims.  Access is given for a paid invoice.
RefundOf(o) == \E i \in Credited(o) : stripe.intent[i].state = "refunded"
SubscriptionWas(o, status) == \E s \in Links : s.of = o /\ HasBeen(s, status)
MoneyIsStripes ==
    /\ \A o \in Orders :
         /\ order[o].payment = "confirmed" => \E i \in Credited(o) : Charged(i)
         /\ order[o].payment = "refunded" => RefundOf(o)
         /\ order[o].subscribed = "cancelled" => SubscriptionWas(o, "canceled")
         /\ order[o].subscribed = "active" \/ order[o].status = "subscription_active"
              => SubscriptionWas(o, "active")
    /\ \A k \in RefundKeys : refund[k].status = "succeeded" => RefundOf(refund[k].order)

\* _fail_payment, deliver_order and the rest: an order leaves "refunded" only
\* for a further payment of its own.
RefundFinal == [][\A o \in Orders :
    order[o].payment = "refunded" /\ order'[o].payment # "refunded" =>
        order'[o].payment = "confirmed" /\ Cardinality(Credited(o)) > 1]_vars

\* stripe_webhook: where no call of Stripe, no event and no process fails, a
\* charge through the link the order keeps is confirmed in the end, on the
\* order and in the payment's record, in whatever order its events come and
\* whatever else is done with the order.  (An order refunded since stays so.)
PaymentsArrive == \A i \in Intents, o \in Orders :
    (Charged(i) /\ order[o].link = LinkOf(i))
        ~> \/ /\ payment[i] = [status |-> "confirmed", order |-> o]
              /\ order[o].payment \in {"confirmed", "refunded"}
           \/ order[o].link # LinkOf(i)

\* issue_refund: where nothing fails, what Stripe refunded at the asking of a
\* key is recorded as succeeded under that key, for the order whose payment it
\* was, and that order is refunded or, since, paid once more.
RefundsRecorded == \A i \in Intents, k \in RefundKeys, o \in Orders :
    (stripe.intent[i].key = k /\ payment[i].order = o)
        ~> /\ refund[k] = [status |-> "succeeded", order |-> o]
           /\ \/ order[o].payment = "refunded"
              \/ order[o].payment = "confirmed" /\ Cardinality(Credited(o)) > 1

\* stripe_webhook answers "already_processed" for every event it has a row of:
\* an event with a row, that no request is handling, was processed.
AlreadyProcessed == \A e \in Events :
    event[e] \in {"processing", "failed"} =>
        \E t \in Threads : "event" \in DOMAIN req[t] /\ req[t].event = e
=============================================================================
