----------------------- MODULE FreelancePayments_proofs -----------------------
(***************************************************************************)
(* Proofs about FreelancePayments, for every number of orders, payments,   *)
(* refund keys and requests: what is announced and asked for happens once, *)
(* and what an order says of its money is what Stripe did.                 *)
(***************************************************************************)
EXTENDS FreelancePayments, FiniteSetTheorems, TLAPS

-----------------------------------------------------------------------------
(* The inductive invariant.                                                *)

DeliverPcs == {"deliver", "deliver_commit", "deliver_fail", "feedback"}
PaymentPcs == {"reserve", "confirm", "record", "record_again", "announce", "complete"}
SubscriptionPcs == {"subscription", "find_again", "access"}
WebhookPcs == PaymentPcs \cup SubscriptionPcs \cup {"payment_failed", "mark", "mark_failed"}
RefundPcs == {"refund", "post", "refunded", "refund_record", "refund_failed"}
CancelPcs == {"cancel", "cancelled", "give_up"}

\* A request, and what it remembers, by what it is about.
Requests ==
    [pc : {"idle"}]
    \cup [pc : DeliverPcs, order : Orders, seen : OrderRows, link : Links \cup {None}]
    \cup [pc : WebhookPcs, event : Events, order : Orders \cup {None}, seen : OrderRows]
    \cup [pc : RefundPcs, order : Orders, key : RefundKeys, seen : OrderRows]
    \cup [pc : CancelPcs, order : Orders, seen : OrderRows]

Shaped == req \in [Threads -> Requests]

\* What a row of an order says is what Stripe did, now or earlier.  Each clause
\* is about a column of its own, so that it holds of every mixture of true rows.
RowTrue(o, row) ==
    /\ row.payment = "confirmed" => \E i \in Credited(o) : Charged(i)
    /\ row.payment = "refunded" => RefundOf(o)
    /\ row.subscribed = "cancelled" => SubscriptionWas(o, "canceled")
    /\ row.subscribed = "active" => SubscriptionWas(o, "active")
    /\ row.status = "subscription_active" => SubscriptionWas(o, "active")
    /\ row.intent # None => row.intent \in Credited(o)
    /\ row.link # None => row.link.of = o
    /\ row.sent # None => row.sent.of = o
    /\ row.sub # None => row.sub.of = o

OrdersTrue == \A o \in Orders :
    /\ RowTrue(o, order[o])
    /\ order[o].intent # None => order[o].payment \in {"confirmed", "refunded"}
    /\ ~Exists(o) => order[o] = NoOrder

\* What a request knows is true, and stays true whatever the others do.
Honest(r) ==
    /\ r.pc # "idle" => IF r.order = None THEN r.pc = "mark"
                        ELSE Exists(r.order) /\ RowTrue(r.order, r.seen)
    /\ r.pc \in {"deliver", "deliver_commit"} /\ r.link # None => r.link.of = r.order
    /\ r.pc \in WebhookPcs => r.event \in stripe.raised
    /\ r.pc \in PaymentPcs => /\ r.event.kind \in {"checkout", "succeeded"}
                              /\ LinkOf(r.event.intent).of = r.order
    /\ r.pc \in PaymentPcs \ {"reserve"} => r.event.intent \in Credited(r.order)
    /\ r.pc = "confirm" => r.seen.payment # "confirmed"
    /\ r.pc = "payment_failed" => r.seen.payment \in {"confirmed", "refunded"}
    /\ r.pc \in SubscriptionPcs => r.event.kind \in SubKinds /\ r.event.sub.of = r.order
    /\ r.pc \in RefundPcs \ {"refund"} => /\ refund[r.key].status # "absent"
                                          /\ refund[r.key].order = r.order
    /\ r.pc = "refunded" => /\ r.seen.intent # None
                            /\ stripe.intent[r.seen.intent].state = "refunded"
    /\ r.pc = "refund_record" => RefundOf(r.order)
    /\ r.pc = "cancel" => r.seen.sub # None
    /\ r.pc = "cancelled" => SubscriptionWas(r.order, "canceled")

RequestsTrue == \A t \in Threads : Honest(req[t])

\* What Stripe's events tell has happened.
EventTrue(e) ==
    /\ e.kind \in {"checkout", "succeeded"} => Charged(e.intent)
    /\ e.kind \in SubKinds =>
         /\ e.nth \in DOMAIN stripe.life[e.sub]
         /\ e.kind = "updated" => stripe.life[e.sub][e.nth] # "canceled"
         /\ e.kind = "deleted" => stripe.life[e.sub][e.nth] = "canceled"
         /\ e.kind = "paid" => stripe.life[e.sub][e.nth] = "active"
StripeTrue ==
    /\ \A e \in stripe.raised : EventTrue(e)
    /\ \A i \in Intents : Charged(i) => LinkOf(i) \in Links
    /\ \A i \in Intents : payment[i].status # "absent" => Charged(i)

\* A delivery that calls Stripe has a link nobody has had before.
LinksFresh ==
    /\ \A s \in Links : stripe.life[s] # <<>> => s.n <= begun
    /\ \A t \in Threads : At(t, "deliver") =>
         req[t].link \in Links /\ req[t].link.n <= begun /\ stripe.life[req[t].link] = <<>>
    /\ \A t, u \in Threads : At(t, "deliver") /\ At(u, "deliver") /\ req[t].link = req[u].link
         => t = u

\* Only the request that reserved an intent's record confirms and announces it;
\* until it has confirmed the order, nothing refers to the intent.
Handles(t, i) == req[t].pc \in {"confirm", "record", "announce"} /\ req[t].event.intent = i
Unknown(i) ==
    /\ stripe.intent[i].state # "refunded"
    /\ \A o \in Orders : order[o].intent # i
    /\ \A t \in Threads : req[t].pc # "idle" => req[t].seen.intent # i
PaidOnce == \A i \in Intents :
    /\ told[i] <= 1
    /\ payment[i].status = "absent" => told[i] = 0 /\ Unknown(i) /\ \A t \in Threads : ~Handles(t, i)
    /\ \A t \in Threads : Handles(t, i) => told[i] = 0 /\ (At(t, "confirm") => Unknown(i))
    /\ \A t, u \in Threads : Handles(t, i) /\ Handles(u, i) => t = u

\* Only the request that reserved a key's record asks Stripe for the refund.
Asks(t, k) == At(t, "post") /\ req[t].key = k
AskedOnce == \A k \in RefundKeys :
    /\ posts[k] <= 1
    /\ refund[k].status = "absent" => posts[k] = 0 /\ \A t \in Threads : ~Asks(t, k)
    /\ \A t \in Threads : Asks(t, k) => posts[k] = 0
    /\ \A t, u \in Threads : Asks(t, k) /\ Asks(u, k) => t = u

RefundsTrue == \A k \in RefundKeys : refund[k].status = "succeeded" => RefundOf(refund[k].order)

OnRecord == {i \in Intents : payment[i].status # "absent"}

IInv ==
    /\ TypeOK /\ Shaped /\ OrdersTrue /\ RequestsTrue /\ StripeTrue /\ LinksFresh
    /\ PaidOnce /\ AskedOnce /\ RefundsTrue /\ IsFiniteSet(OnRecord)

-----------------------------------------------------------------------------
(* Rows, requests and what Stripe knows.                                   *)

Columns == {"status", "type", "payment", "link", "sent", "intent", "sub", "subscribed"}

LEMMA RowDomain == ASSUME NEW row \in OrderRows PROVE DOMAIN row = Columns
BY DEF OrderRows, Columns

LEMMA RowIs ==
    ASSUME NEW f, f = [c \in Columns |-> f[c]],
           f["status"] \in {"absent", "pending", "delivered", "delivery_failed",
                            "payment_confirmed", "payment_failed", "refunded",
                            "subscription_active", "subscription_cancelled",
                            "subscription_restricted"},
           f["type"] \in {"payment", "subscription", "manual"},
           f["payment"] \in {"none", "confirmed", "failed", "refunded"},
           f["link"] \in Links \cup {None}, f["sent"] \in Links \cup {None},
           f["intent"] \in Intents \cup {None},
           f["sub"] \in Links \cup {None},
           f["subscribed"] \in {"none", "cancelled"} \cup SubStates
    PROVE  f \in OrderRows
BY DEF OrderRows, Columns

\* A commit mixes two rows, column by column.
LEMMA WrittenIs ==
    ASSUME NEW o \in Orders, order \in [Orders -> OrderRows],
           NEW seen \in OrderRows, NEW mine \in OrderRows
    PROVE  LET w == Written(o, seen, mine) IN
           /\ w \in OrderRows
           /\ w.status = IF mine.status # seen.status THEN mine.status ELSE order[o].status
           /\ w.payment = IF mine.payment # seen.payment THEN mine.payment ELSE order[o].payment
           /\ w.intent = IF mine.intent # seen.intent THEN mine.intent ELSE order[o].intent
           /\ w.subscribed = IF mine.subscribed # seen.subscribed THEN mine.subscribed
                             ELSE order[o].subscribed
           /\ w.link \in {mine.link, order[o].link} /\ w.sent \in {mine.sent, order[o].sent}
           /\ w.sub \in {mine.sub, order[o].sub} /\ w.type \in {mine.type, order[o].type}
<1> DEFINE w == Written(o, seen, mine)
<1>1. w = [c \in Columns |-> IF mine[c] # seen[c] THEN mine[c] ELSE order[o][c]]
  BY RowDomain DEF Written
<1>2. \A c \in Columns : w[c] = IF mine[c] # seen[c] THEN mine[c] ELSE order[o][c]
  BY <1>1
<1>3. order[o] \in OrderRows
  OBVIOUS
<1>4. w \in OrderRows
  BY <1>1, <1>2, <1>3, RowIs DEF OrderRows, Columns
<1> QED
  BY <1>2, <1>4 DEF Columns

LEMMA NoOrderType ==
    /\ NoOrder \in OrderRows
    /\ NoOrder.status = "absent" /\ NoOrder.payment = "none" /\ NoOrder.subscribed = "none"
    /\ NoOrder.intent = None /\ NoOrder.link = None /\ NoOrder.sent = None /\ NoOrder.sub = None
BY DEF NoOrder, OrderRows

LEMMA NoOrderTrue == \A o \in Orders : RowTrue(o, NoOrder)
BY NoOrderType DEF RowTrue

\* A mixture of true rows is true.
LEMMA MixtureTrue ==
    ASSUME NEW o \in Orders, order \in [Orders -> OrderRows],
           NEW seen \in OrderRows, NEW mine \in OrderRows,
           RowTrue(o, mine), RowTrue(o, order[o])
    PROVE  RowTrue(o, Written(o, seen, mine))
<1> DEFINE w == Written(o, seen, mine)
<1>1. /\ w.status \in {mine.status, order[o].status}
      /\ w.payment \in {mine.payment, order[o].payment}
      /\ w.intent \in {mine.intent, order[o].intent}
      /\ w.subscribed \in {mine.subscribed, order[o].subscribed}
      /\ w.link \in {mine.link, order[o].link} /\ w.sent \in {mine.sent, order[o].sent}
      /\ w.sub \in {mine.sub, order[o].sub}
  BY WrittenIs
<1> HIDE DEF w
<1>2. RowTrue(o, w)
  BY <1>1 DEF RowTrue
<1> QED
  BY <1>2 DEF w

LEMMA StateTypes ==
    ASSUME TypeOK, Shaped
    PROVE  /\ order \in [Orders -> OrderRows]
           /\ payment \in [Intents -> [status : {"absent", "pending", "confirmed"},
                                       order : Orders \cup {None}]]
           /\ refund \in [RefundKeys -> [status : {"absent", "pending", "succeeded", "failed"},
                                         order : Orders \cup {None}]]
           /\ req \in [Threads -> Requests]
           /\ begun \in Nat /\ begun \in 0 .. MaxDeliveries
           /\ stripe \in [shown : SUBSET Links, raised : SUBSET Events,
                          life : [Links -> Seq(SubStates \cup {"canceled"})],
                          intent : [Intents -> [state : {"unused", "charged", "refunded"},
                                                link : Links \cup {None},
                                                key : RefundKeys \cup {None}]]]
           /\ posts \in [RefundKeys -> Nat] /\ told \in [Intents -> Nat]
<1>1. /\ stripe \in [shown : SUBSET Links, raised : SUBSET Events,
                     life : [Links -> Seq(SubStates \cup {"canceled"})],
                     intent : [Intents -> [state : {"unused", "charged", "refunded"},
                                           link : Links \cup {None},
                                           key : RefundKeys \cup {None}]]]
      /\ order \in [Orders -> OrderRows] /\ req \in [Threads -> Requests]
  BY Zenon DEF TypeOK, Shaped
<1>2. /\ payment \in [Intents -> [status : {"absent", "pending", "confirmed"},
                                  order : Orders \cup {None}]]
      /\ refund \in [RefundKeys -> [status : {"absent", "pending", "succeeded", "failed"},
                                    order : Orders \cup {None}]]
      /\ posts \in [RefundKeys -> Nat] /\ told \in [Intents -> Nat]
  BY Zenon DEF TypeOK
<1>3. begun \in 0 .. MaxDeliveries /\ begun \in Nat
  BY PaymentsAssumption DEF TypeOK
<1> QED
  BY <1>1, <1>2, <1>3, Zenon

LEMMA StripeTypes ==
    ASSUME TypeOK
    PROVE  /\ stripe.shown \subseteq Links /\ stripe.raised \subseteq Events
           /\ stripe.life \in [Links -> Seq(SubStates \cup {"canceled"})]
           /\ stripe.intent \in [Intents -> [state : {"unused", "charged", "refunded"},
                                             link : Links \cup {None},
                                             key : RefundKeys \cup {None}]]
BY DEF TypeOK

\* What a request remembers, by its step.
LEMMA RequestTypes ==
    ASSUME NEW r \in Requests
    PROVE  /\ r.pc \in {"idle"} \cup DeliverPcs \cup WebhookPcs \cup RefundPcs \cup CancelPcs
           /\ r.pc = "idle" => r = Idle
           /\ r.pc \in DeliverPcs =>
                r \in [pc : DeliverPcs, order : Orders, seen : OrderRows, link : Links \cup {None}]
           /\ r.pc \in WebhookPcs =>
                r \in [pc : WebhookPcs, event : Events, order : Orders \cup {None}, seen : OrderRows]
           /\ r.pc \in RefundPcs =>
                r \in [pc : RefundPcs, order : Orders, key : RefundKeys, seen : OrderRows]
           /\ r.pc \in CancelPcs => r \in [pc : CancelPcs, order : Orders, seen : OrderRows]
<1> DEFINE D == [pc : DeliverPcs, order : Orders, seen : OrderRows, link : Links \cup {None}]
           W == [pc : WebhookPcs, event : Events, order : Orders \cup {None}, seen : OrderRows]
           R == [pc : RefundPcs, order : Orders, key : RefundKeys, seen : OrderRows]
           C == [pc : CancelPcs, order : Orders, seen : OrderRows]
<1>1. r \in [pc : {"idle"}] => r.pc = "idle" /\ r = Idle
  BY DEF Idle
<1>2. /\ r \in D => r.pc \in DeliverPcs
      /\ r \in W => r.pc \in WebhookPcs
      /\ r \in R => r.pc \in RefundPcs
      /\ r \in C => r.pc \in CancelPcs
  OBVIOUS
<1>3. r \in [pc : {"idle"}] \/ r \in D \/ r \in W \/ r \in R \/ r \in C
  BY DEF Requests
<1> HIDE DEF D, W, R, C
<1>4. /\ r.pc \in {"idle"} \cup DeliverPcs \cup WebhookPcs \cup RefundPcs \cup CancelPcs
      /\ r.pc = "idle" => r = Idle
      /\ r.pc \in DeliverPcs => r \in D
      /\ r.pc \in WebhookPcs => r \in W
      /\ r.pc \in RefundPcs => r \in R
      /\ r.pc \in CancelPcs => r \in C
  BY <1>1, <1>2, <1>3 DEF DeliverPcs, WebhookPcs, PaymentPcs, SubscriptionPcs, RefundPcs, CancelPcs
<1> QED
  BY <1>4 DEF D, W, R, C

LEMMA RequestsOK ==
    ASSUME NEW r \in Requests PROVE RequestOK(r)
<1>1. CASE r.pc = "idle"
  BY <1>1, RequestTypes DEF RequestOK, Field, Steps, Idle
<1>2. CASE r.pc \in DeliverPcs
  BY <1>2, RequestTypes DEF RequestOK, Field, Steps, DeliverPcs
<1>3. CASE r.pc \in WebhookPcs
  BY <1>3, RequestTypes DEF RequestOK, Field, Steps, WebhookPcs, PaymentPcs, SubscriptionPcs
<1>4. CASE r.pc \in RefundPcs
  BY <1>4, RequestTypes DEF RequestOK, Field, Steps, RefundPcs
<1>5. CASE r.pc \in CancelPcs
  BY <1>5, RequestTypes DEF RequestOK, Field, Steps, CancelPcs
<1> QED
  BY <1>1, <1>2, <1>3, <1>4, <1>5, RequestTypes

\* The steps of one kind of request.
SamePart(a, b) == \E G \in {DeliverPcs, WebhookPcs, RefundPcs, CancelPcs} : a \in G /\ b \in G

\* Request r goes on from what q remembers.
Like(r, q) ==
    /\ r.order = q.order
    /\ q.pc \in DeliverPcs => r.link = q.link
    /\ q.pc \in WebhookPcs => r.event = q.event
    /\ q.pc \in RefundPcs => r.key = q.key

With(q, pc, row) == [q EXCEPT !.pc = pc, !.seen = row]

LEMMA WithIs ==
    ASSUME NEW q \in Requests, NEW pc, SamePart(q.pc, pc), NEW row \in OrderRows
    PROVE  /\ With(q, pc, row) \in Requests /\ Like(With(q, pc, row), q)
           /\ With(q, pc, row).pc = pc /\ With(q, pc, row).seen = row
<1> DEFINE r == [q EXCEPT !.pc = pc, !.seen = row]
<1> SUFFICES r \in Requests /\ Like(r, q) /\ r.pc = pc /\ r.seen = row
  BY DEF With
<1>1. CASE q.pc \in DeliverPcs /\ pc \in DeliverPcs
  <2>1. r \in [pc : DeliverPcs, order : Orders, seen : OrderRows, link : Links \cup {None}]
    BY <1>1, RequestTypes
  <2>2. r.pc = pc /\ r.seen = row /\ r.order = q.order /\ r.link = q.link
    BY <1>1, RequestTypes
  <2>3. q.pc \notin WebhookPcs \cup RefundPcs
    BY <1>1 DEF DeliverPcs, WebhookPcs, PaymentPcs, SubscriptionPcs, RefundPcs
  <2> QED
    BY <2>1, <2>2, <2>3 DEF Requests, Like
<1>2. CASE q.pc \in WebhookPcs /\ pc \in WebhookPcs
  <2>1. r \in [pc : WebhookPcs, event : Events, order : Orders \cup {None}, seen : OrderRows]
    BY <1>2, RequestTypes
  <2>2. r.pc = pc /\ r.seen = row /\ r.order = q.order /\ r.event = q.event
    BY <1>2, RequestTypes
  <2>3. q.pc \notin DeliverPcs \cup RefundPcs
    BY <1>2 DEF DeliverPcs, WebhookPcs, PaymentPcs, SubscriptionPcs, RefundPcs
  <2> QED
    BY <2>1, <2>2, <2>3 DEF Requests, Like
<1>3. CASE q.pc \in RefundPcs /\ pc \in RefundPcs
  <2>1. r \in [pc : RefundPcs, order : Orders, key : RefundKeys, seen : OrderRows]
    BY <1>3, RequestTypes
  <2>2. r.pc = pc /\ r.seen = row /\ r.order = q.order /\ r.key = q.key
    BY <1>3, RequestTypes
  <2>3. q.pc \notin DeliverPcs \cup WebhookPcs
    BY <1>3 DEF DeliverPcs, WebhookPcs, PaymentPcs, SubscriptionPcs, RefundPcs
  <2> QED
    BY <2>1, <2>2, <2>3 DEF Requests, Like
<1>4. CASE q.pc \in CancelPcs /\ pc \in CancelPcs
  <2>1. r \in [pc : CancelPcs, order : Orders, seen : OrderRows]
    BY <1>4, RequestTypes
  <2>2. r.pc = pc /\ r.seen = row /\ r.order = q.order
    BY <1>4, RequestTypes
  <2>3. q.pc \notin DeliverPcs \cup WebhookPcs \cup RefundPcs
    BY <1>4 DEF DeliverPcs, WebhookPcs, PaymentPcs, SubscriptionPcs, RefundPcs, CancelPcs
  <2> QED
    BY <2>1, <2>2, <2>3 DEF Requests, Like
<1> QED
  BY <1>1, <1>2, <1>3, <1>4 DEF SamePart

LEMMA SeenType ==
    ASSUME NEW q \in Requests, q.pc # "idle"
    PROVE  /\ q.seen \in OrderRows /\ q.order \in Orders \cup {None}
           /\ q.order = None => q.pc \in WebhookPcs
           /\ q.pc \in DeliverPcs => q.link \in Links \cup {None}
           /\ q.pc \in WebhookPcs => q.event \in Events
           /\ q.pc \in RefundPcs => q.key \in RefundKeys
<1>1. None \notin Orders
  BY PaymentsAssumption
<1>2. CASE q.pc \in DeliverPcs
  <2>1. q.pc \notin WebhookPcs \cup RefundPcs
    BY <1>2 DEF DeliverPcs, WebhookPcs, PaymentPcs, SubscriptionPcs, RefundPcs
  <2> QED
    BY <1>1, <1>2, <2>1, RequestTypes
<1>3. CASE q.pc \in WebhookPcs
  <2>1. q.pc \notin DeliverPcs \cup RefundPcs
    BY <1>3 DEF DeliverPcs, WebhookPcs, PaymentPcs, SubscriptionPcs, RefundPcs
  <2> QED
    BY <1>3, <2>1, RequestTypes
<1>4. CASE q.pc \in RefundPcs
  <2>1. q.pc \notin DeliverPcs \cup WebhookPcs
    BY <1>4 DEF DeliverPcs, WebhookPcs, PaymentPcs, SubscriptionPcs, RefundPcs
  <2> QED
    BY <1>1, <1>4, <2>1, RequestTypes
<1>5. CASE q.pc \in CancelPcs
  <2>1. q.pc \notin DeliverPcs \cup WebhookPcs \cup RefundPcs
    BY <1>5 DEF DeliverPcs, WebhookPcs, PaymentPcs, SubscriptionPcs, RefundPcs, CancelPcs
  <2> QED
    BY <1>1, <1>5, <2>1, RequestTypes
<1> QED
  BY <1>2, <1>3, <1>4, <1>5, RequestTypes

\* Thread t has become r; the others go on.
Becomes(t, r) ==
    /\ req' = [req EXCEPT ![t] = r]
    /\ req' \in [Threads -> Requests] /\ req'[t] = r
    /\ \A u \in Threads : u # t => req'[u] = req[u]

LEMMA BecomesIs ==
    ASSUME Shaped, NEW t \in Threads, NEW r \in Requests, req' = [req EXCEPT ![t] = r]
    PROVE  Becomes(t, r)
BY DEF Shaped, Becomes

LEMMA GoWithIs ==
    ASSUME Shaped, NEW t \in Threads, NEW pc, SamePart(req[t].pc, pc),
           NEW row \in OrderRows, GoWith(t, pc, row)
    PROVE  \E r \in Requests : /\ Becomes(t, r) /\ Like(r, req[t])
                               /\ r.pc = pc /\ r.seen = row
<1> DEFINE r == With(req[t], pc, row)
<1>1. req[t] \in Requests /\ req \in [Threads -> Requests]
  BY DEF Shaped
<1>2. r \in Requests /\ Like(r, req[t]) /\ r.pc = pc /\ r.seen = row
  BY <1>1, WithIs
<1>3. req' = [req EXCEPT ![t] = r]
  BY <1>1 DEF GoWith, With
<1> QED
  BY <1>2, <1>3, BecomesIs

LEMMA GoIs ==
    ASSUME Shaped, NEW t \in Threads, NEW pc, SamePart(req[t].pc, pc), Go(t, pc)
    PROVE  \E r \in Requests : /\ Becomes(t, r) /\ Like(r, req[t])
                               /\ r.pc = pc /\ r.seen = req[t].seen
<1> DEFINE r == With(req[t], pc, req[t].seen)
<1>1. req[t] \in Requests /\ req \in [Threads -> Requests]
  BY DEF Shaped
<1>2. req[t].pc # "idle"
  BY DEF SamePart, DeliverPcs, WebhookPcs, PaymentPcs, SubscriptionPcs, RefundPcs, CancelPcs
<1>3. req[t].seen \in OrderRows
  BY <1>1, <1>2, SeenType
<1>4. r \in Requests /\ Like(r, req[t]) /\ r.pc = pc /\ r.seen = req[t].seen
  BY <1>1, <1>3, WithIs
<1>5. [req[t] EXCEPT !.pc = pc, !.seen = req[t].seen] = [req[t] EXCEPT !.pc = pc]
  BY <1>1, <1>2, RequestTypes
<1>6. req' = [req EXCEPT ![t] = r]
  BY <1>1, <1>5 DEF Go, With
<1> QED
  BY <1>4, <1>6, BecomesIs

LEMMA DoneIs ==
    ASSUME Shaped, NEW t \in Threads, Done(t)
    PROVE  Becomes(t, Idle) /\ Idle \in Requests /\ Idle.pc = "idle"
<1>1. Idle \in Requests /\ Idle.pc = "idle"
  BY DEF Idle, Requests
<1> QED
  BY <1>1, BecomesIs DEF Done

\* Stripe's next word on a subscription.
LEMMA Appended ==
    ASSUME NEW S, NEW q \in Seq(S), NEW x \in S
    PROVE  /\ Append(q, x) \in Seq(S) /\ Len(q) + 1 \in DOMAIN Append(q, x)
           /\ Append(q, x)[Len(q) + 1] = x /\ Append(q, x) # <<>>
           /\ \A n \in DOMAIN q : n \in DOMAIN Append(q, x) /\ Append(q, x)[n] = q[n]
<1>1. /\ Append(q, x) \in Seq(S) /\ Len(Append(q, x)) = Len(q) + 1
      /\ Append(q, x)[Len(q) + 1] = x
      /\ \A n \in 1 .. Len(q) : Append(q, x)[n] = q[n]
  OBVIOUS
<1>2. DOMAIN q = 1 .. Len(q) /\ DOMAIN Append(q, x) = 1 .. Len(q) + 1 /\ Len(q) \in Nat
  OBVIOUS
<1>3. Len(q) + 1 \in DOMAIN Append(q, x) /\ \A n \in DOMAIN q : n \in DOMAIN Append(q, x)
  BY <1>2
<1>4. Append(q, x) # <<>>
  <2>1. Len(<<>>) = 0
    OBVIOUS
  <2>2. Len(q) + 1 # 0
    BY <1>2
  <2> QED
    BY <1>1, <2>1, <2>2, Zenon
<1> QED
  BY <1>1, <1>2, <1>3, <1>4

LEMMA TellsIs ==
    ASSUME TypeOK, NEW s \in Links, NEW status \in SubStates \cup {"canceled"},
           Len(stripe.life[s]) < MaxChanges, NEW e \in Tells(s, status)
    PROVE  /\ e \in Events /\ e.kind \in SubKinds
           /\ e.sub = s /\ e.nth = Len(stripe.life[s]) + 1
           /\ e.kind = "updated" => status # "canceled"
           /\ e.kind = "deleted" => status = "canceled"
           /\ e.kind = "paid" => status = "active"
<1>1. stripe.life[s] \in Seq(SubStates \cup {"canceled"})
  BY StripeTypes
<1>2. Len(stripe.life[s]) + 1 \in 1 .. MaxChanges
  BY <1>1, PaymentsAssumption
<1>3. /\ e \in [kind : SubKinds, sub : {s}, nth : {Len(stripe.life[s]) + 1}]
      /\ e.kind = "updated" => status # "canceled"
      /\ e.kind = "deleted" => status = "canceled"
      /\ e.kind = "paid" => status = "active"
  <2> DEFINE kinds == CASE status = "active" -> {"updated", "paid"}
                        [] status = "past_due" -> {"updated", "unpaid"}
                        [] status = "canceled" -> {"deleted"}
                        [] OTHER -> {"updated"}
  <2>1. e \in [kind : kinds, sub : {s}, nth : {Len(stripe.life[s]) + 1}]
    BY DEF Tells
  <2>2. kinds \subseteq SubKinds
    BY DEF SubKinds
  <2>3. /\ "updated" \in kinds => status # "canceled"
        /\ "deleted" \in kinds => status = "canceled"
        /\ "paid" \in kinds => status = "active"
    OBVIOUS
  <2> HIDE DEF kinds
  <2> QED
    BY <2>1, <2>2, <2>3
<1>4. e \in SubEvents
  BY <1>2, <1>3 DEF SubEvents
<1> QED
  BY <1>3, <1>4 DEF Events

LEMMA TurnedIs ==
    ASSUME TypeOK, NEW s \in Links, NEW status \in SubStates \cup {"canceled"},
           Len(stripe.life[s]) < MaxChanges, stripe' = Turned(s, status)
    PROVE  /\ stripe'.shown = stripe.shown /\ stripe'.intent = stripe.intent
           /\ stripe'.raised = stripe.raised \cup Tells(s, status)
           /\ stripe'.life = [stripe.life EXCEPT ![s] = Append(stripe.life[s], status)]
           /\ stripe' = [shown |-> stripe'.shown, raised |-> stripe'.raised,
                         life |-> stripe'.life, intent |-> stripe'.intent]
BY DEF TypeOK, Turned

-----------------------------------------------------------------------------
(* What is never taken back.                                               *)

Grows ==
    /\ \A o \in Orders : Exists(o) => Exists(o)'
    /\ \A i \in Intents : payment[i].status # "absent" =>
         payment'[i].status # "absent" /\ payment'[i].order = payment[i].order
    /\ \A k \in RefundKeys : refund[k].status # "absent" =>
         refund'[k].status # "absent" /\ refund'[k].order = refund[k].order
    /\ stripe.raised \subseteq stripe'.raised
    /\ \A i \in Intents : stripe.intent[i].state # "unused" =>
         stripe'.intent[i].state # "unused" /\ stripe'.intent[i].link = stripe.intent[i].link
    /\ \A i \in Intents : stripe.intent[i].state = "refunded" =>
         stripe'.intent[i].state = "refunded"
    /\ \A s \in Links : \A n \in DOMAIN stripe.life[s] :
         n \in DOMAIN stripe'.life[s] /\ stripe'.life[s][n] = stripe.life[s][n]

LEMMA ChargedIs ==
    ASSUME TypeOK, NEW i \in Intents
    PROVE  Charged(i) <=> stripe.intent[i].state # "unused"
<1>1. stripe.intent[i].state \in {"unused", "charged", "refunded"}
  BY StripeTypes
<1> QED
  BY <1>1 DEF Charged

LEMMA ChargedStays ==
    ASSUME TypeOK, TypeOK', Grows, NEW i \in Intents, Charged(i)
    PROVE  Charged(i)' /\ LinkOf(i)' = LinkOf(i)
<1>1. stripe'.intent[i].state \in {"unused", "charged", "refunded"}
  BY DEF TypeOK
<1> QED
  BY <1>1, ChargedIs DEF Grows, LinkOf, Charged

LEMMA CreditedStays ==
    ASSUME TypeOK, TypeOK', StripeTrue, Grows, NEW o \in Orders, NEW i \in Credited(o)
    PROVE  i \in Intents /\ Charged(i) /\ i \in Credited(o)' /\ Charged(i)'
<1>1. /\ i \in Intents /\ payment[i].status # "absent" /\ payment[i].order = o
      /\ LinkOf(i).of = o
  BY DEF Credited
<1>2. Charged(i)
  BY <1>1 DEF StripeTrue
<1>3. Charged(i)' /\ LinkOf(i)' = LinkOf(i)
  BY <1>1, <1>2, ChargedStays
<1>4. payment'[i].status # "absent" /\ payment'[i].order = payment[i].order
  BY <1>1 DEF Grows
<1> QED
  BY <1>1, <1>2, <1>3, <1>4 DEF Credited

LEMMA RefundOfStays ==
    ASSUME TypeOK, TypeOK', StripeTrue, Grows, NEW o \in Orders, RefundOf(o)
    PROVE  RefundOf(o)'
<1>1. PICK i \in Credited(o) : stripe.intent[i].state = "refunded"
  BY DEF RefundOf
<1>2. i \in Intents /\ i \in Credited(o)'
  BY <1>1, CreditedStays
<1>3. stripe'.intent[i].state = "refunded"
  BY <1>1, <1>2 DEF Grows
<1> QED
  BY <1>2, <1>3 DEF RefundOf

LEMMA SubscriptionWasStays ==
    ASSUME Grows, NEW o, NEW status, SubscriptionWas(o, status)
    PROVE  SubscriptionWas(o, status)'
BY DEF Grows, SubscriptionWas, HasBeen

LEMMA RowTrueStays ==
    ASSUME TypeOK, TypeOK', StripeTrue, Grows, NEW o \in Orders, NEW row, RowTrue(o, row)
    PROVE  RowTrue(o, row)'
<1>1. ASSUME row.payment = "confirmed" PROVE \E i \in Credited(o)' : Charged(i)'
  BY <1>1, CreditedStays DEF RowTrue
<1>2. row.payment = "refunded" => RefundOf(o)'
  BY RefundOfStays DEF RowTrue
<1>3. /\ row.subscribed = "cancelled" => SubscriptionWas(o, "canceled")'
      /\ row.subscribed = "active" => SubscriptionWas(o, "active")'
      /\ row.status = "subscription_active" => SubscriptionWas(o, "active")'
  BY SubscriptionWasStays DEF RowTrue
<1>4. row.intent # None => row.intent \in Credited(o)'
  BY CreditedStays DEF RowTrue
<1> QED
  BY <1>1, <1>2, <1>3, <1>4 DEF RowTrue

LEMMA EventTrueStays ==
    ASSUME TypeOK, TypeOK', Grows, NEW e \in Events, EventTrue(e)
    PROVE  EventTrue(e)'
<1>1. CASE e.kind \in {"checkout", "succeeded"}
  <2>1. e \notin SubEvents
    BY <1>1 DEF SubEvents, SubKinds
  <2>2. e.intent \in Intents
    BY <2>1 DEF Events
  <2> QED
    BY <1>1, <2>2, ChargedStays DEF EventTrue, SubKinds
<1>2. CASE e.kind \in SubKinds
  <2>1. e \in SubEvents
    BY <1>2 DEF Events, SubKinds
  <2>2. e.sub \in Links
    BY <2>1 DEF SubEvents
  <2> QED
    BY <1>2, <2>2 DEF EventTrue, Grows, SubKinds
<1> QED
  BY <1>1, <1>2 DEF EventTrue

\* What a request knows stays true.
LEMMA HonestStays ==
    ASSUME TypeOK, TypeOK', StripeTrue, Grows, NEW r \in Requests, Honest(r)
    PROVE  Honest(r)'
<1>a. r.pc # "idle" => /\ r.seen \in OrderRows /\ r.order \in Orders \cup {None}
                       /\ r.pc \in WebhookPcs => r.event \in Events
                       /\ r.pc \in RefundPcs => r.key \in RefundKeys
  BY SeenType
<1>b. "idle" \notin PaymentPcs /\ PaymentPcs \subseteq WebhookPcs /\ None \notin Intents
  BY PaymentsAssumption DEF PaymentPcs, WebhookPcs
<1>1. r.pc # "idle" => IF r.order = None THEN r.pc = "mark"
                       ELSE Exists(r.order)' /\ RowTrue(r.order, r.seen)'
  BY <1>a, RowTrueStays DEF Honest, Grows
<1>2. r.pc \in WebhookPcs => r.event \in stripe'.raised
  BY DEF Honest, Grows
<1>3. ASSUME r.pc \in PaymentPcs
      PROVE  /\ r.event.kind \in {"checkout", "succeeded"}
             /\ LinkOf(r.event.intent)'.of = r.order
             /\ r.pc # "reserve" => r.event.intent \in Credited(r.order)'
  <2>1. /\ r.event.kind \in {"checkout", "succeeded"} /\ r.event \in stripe.raised
        /\ LinkOf(r.event.intent).of = r.order /\ r.order # None
    BY <1>3, <1>b DEF Honest, PaymentPcs
  <2>2. r.event \in Events /\ Charged(r.event.intent)
    BY <1>3, <1>a, <1>b, <2>1 DEF StripeTrue, EventTrue
  <2>3. r.event.intent \in Intents
    BY <2>1, <2>2 DEF Events, SubEvents, SubKinds
  <2>4. LinkOf(r.event.intent)' = LinkOf(r.event.intent)
    BY <2>2, <2>3, ChargedStays
  <2>5. r.order \in Orders
    BY <1>3, <1>a, <1>b, <2>1
  <2>6. r.pc # "reserve" => r.event.intent \in Credited(r.order)'
    BY <1>3, <2>5, CreditedStays DEF Honest
  <2> QED
    BY <2>1, <2>4, <2>6
<1>4. r.pc \in RefundPcs \ {"refund"} => /\ refund'[r.key].status # "absent"
                                         /\ refund'[r.key].order = r.order
  BY <1>a DEF Honest, Grows, RefundPcs
<1>5. r.pc = "refunded" => stripe'.intent[r.seen.intent].state = "refunded"
  <2> SUFFICES ASSUME r.pc = "refunded" PROVE stripe'.intent[r.seen.intent].state = "refunded"
    OBVIOUS
  <2>1. r.seen.intent # None /\ r.seen \in OrderRows
    BY <1>a DEF Honest
  <2>2. r.seen.intent \in Intents
    BY <2>1 DEF OrderRows
  <2> QED
    BY <2>2 DEF Honest, Grows
<1>6. r.pc = "refund_record" => RefundOf(r.order)'
  BY <1>a, <1>1, RefundOfStays DEF Honest
<1>7. r.pc = "cancelled" => SubscriptionWas(r.order, "canceled")'
  BY SubscriptionWasStays DEF Honest
<1> QED
  BY <1>1, <1>2, <1>3, <1>4, <1>5, <1>6, <1>7 DEF Honest

-----------------------------------------------------------------------------
(* What a commit makes of an order's row.                                  *)

\* The row of order o becomes a true one.
Rewrites(o, row) ==
    /\ order' = [order EXCEPT ![o] = row]
    /\ row \in OrderRows /\ RowTrue(o, row) /\ row.status # "absent"
SameMoney(o, row) == row.payment = order[o].payment /\ row.intent = order[o].intent

LEMMA WriteIs ==
    ASSUME NEW o \in Orders, order \in [Orders -> OrderRows], Exists(o), RowTrue(o, order[o]),
           NEW seen \in OrderRows, NEW mine \in OrderRows, RowTrue(o, mine),
           mine.status = seen.status \/ mine.status # "absent",
           order' = [order EXCEPT ![o] = Written(o, seen, mine)]
    PROVE  \E row \in OrderRows :
             /\ Rewrites(o, row)
             /\ row.payment = IF mine.payment # seen.payment THEN mine.payment ELSE order[o].payment
             /\ row.intent = IF mine.intent # seen.intent THEN mine.intent ELSE order[o].intent
<1> DEFINE w == Written(o, seen, mine)
<1>1. RowTrue(o, w)
  BY MixtureTrue
<1>2. /\ w \in OrderRows
      /\ w.status = IF mine.status # seen.status THEN mine.status ELSE order[o].status
      /\ w.payment = IF mine.payment # seen.payment THEN mine.payment ELSE order[o].payment
      /\ w.intent = IF mine.intent # seen.intent THEN mine.intent ELSE order[o].intent
  BY WrittenIs
<1> HIDE DEF w
<1>3. w.status # "absent"
  BY <1>2 DEF Exists
<1>4. order' = [order EXCEPT ![o] = w]
  BY DEF w
<1> QED
  BY <1>1, <1>2, <1>3, <1>4 DEF Rewrites

\* What a request that is served knows of its order.
LEMMA ThreadKnows ==
    ASSUME TypeOK, Shaped, OrdersTrue, RequestsTrue, NEW t \in Threads,
           req[t].pc \notin {"idle", "mark"}
    PROVE  /\ req[t] \in Requests /\ Honest(req[t])
           /\ req[t].order \in Orders /\ Exists(req[t].order)
           /\ req[t].seen \in OrderRows /\ RowTrue(req[t].order, req[t].seen)
           /\ order \in [Orders -> OrderRows] /\ order[req[t].order] \in OrderRows
           /\ RowTrue(req[t].order, order[req[t].order])
<1>1. req[t] \in Requests /\ Honest(req[t]) /\ order \in [Orders -> OrderRows]
  BY StateTypes DEF Shaped, RequestsTrue
<1>2. req[t].seen \in OrderRows /\ req[t].order \in Orders \cup {None}
  BY <1>1, SeenType
<1>3. req[t].order \in Orders /\ Exists(req[t].order) /\ RowTrue(req[t].order, req[t].seen)
  BY <1>1, <1>2 DEF Honest
<1> QED
  BY <1>1, <1>2, <1>3 DEF OrdersTrue

LEMMA DeliverCommitWrites ==
    ASSUME TypeOK, Shaped, OrdersTrue, RequestsTrue, NEW t \in Threads, DeliverCommit(t)
    PROVE  LET o == req[t].order IN
           \E row \in OrderRows :
             /\ Rewrites(o, row) /\ SameMoney(o, row)
             /\ \/ Forget(t, "feedback") \/ GoWith(t, "deliver_fail", row)
<1> DEFINE o == req[t].order
           seen == req[t].seen
           link == IF seen.type = "payment" THEN req[t].link ELSE None
           mine == Delivered(seen, req[t].link)
           w == Written(o, seen, mine)
           row == [w EXCEPT !.sent = link]
<1>1. At(t, "deliver_commit")
  BY DEF DeliverCommit
<1>2. /\ req[t] \in Requests /\ Honest(req[t]) /\ o \in Orders /\ Exists(o)
      /\ seen \in OrderRows /\ RowTrue(o, seen)
      /\ order \in [Orders -> OrderRows] /\ order[o] \in OrderRows /\ RowTrue(o, order[o])
  BY <1>1, ThreadKnows DEF At
<1>3. req[t].link \in Links \cup {None} /\ (req[t].link # None => req[t].link.of = o)
  BY <1>1, <1>2, SeenType DEF At, Honest, DeliverPcs
<1>4. /\ mine \in OrderRows /\ mine.status = "delivered"
      /\ mine.payment = seen.payment /\ mine.intent = seen.intent
      /\ mine.subscribed \in {seen.subscribed, "incomplete"}
      /\ mine.link \in {seen.link, req[t].link} /\ mine.sent = seen.sent
      /\ mine.sub \in {seen.sub, req[t].link}
  <2>1. CASE seen.type = "subscription"
    <3>1. mine = [status |-> "delivered", type |-> seen.type, payment |-> seen.payment,
                  link |-> seen.link, sent |-> seen.sent, intent |-> seen.intent,
                  sub |-> req[t].link, subscribed |-> "incomplete"]
      BY <1>2, <2>1 DEF Delivered, OrderRows
    <3> QED
      BY <1>2, <1>3, <3>1 DEF OrderRows, SubStates
  <2>2. CASE seen.type # "subscription"
    <3> DEFINE l == IF seen.link = None THEN req[t].link ELSE seen.link
    <3>1. mine = [seen EXCEPT !.status = "delivered", !.link = l]
      BY <2>2 DEF Delivered
    <3>2. l \in Links \cup {None} /\ l \in {seen.link, req[t].link}
      BY <1>2, <1>3 DEF OrderRows
    <3> HIDE DEF l
    <3> QED
      BY <1>2, <3>1, <3>2 DEF OrderRows
  <2> QED
    BY <2>1, <2>2
<1> HIDE DEF mine
<1>5. RowTrue(o, mine)
  BY <1>2, <1>3, <1>4 DEF RowTrue
<1>6. /\ w \in OrderRows /\ RowTrue(o, w) /\ w.status # "absent"
      /\ w.payment = order[o].payment /\ w.intent = order[o].intent
  BY <1>2, <1>4, <1>5, WrittenIs, MixtureTrue DEF Exists
<1>7. order' = [order EXCEPT ![o] = row] /\ (Forget(t, "feedback") \/ GoWith(t, "deliver_fail", row))
  BY DEF DeliverCommit, WithResponse, mine
<1> HIDE DEF w
<1>8. /\ row \in OrderRows /\ row.status = w.status /\ row.payment = w.payment
      /\ row.intent = w.intent /\ row.subscribed = w.subscribed /\ row.link = w.link
      /\ row.sub = w.sub /\ row.sent = link
  BY <1>3, <1>6 DEF OrderRows
<1> HIDE DEF row
<1>9. RowTrue(o, row)
  BY <1>3, <1>6, <1>8 DEF RowTrue
<1> QED
  BY <1>6, <1>7, <1>8, <1>9 DEF Rewrites, SameMoney

LEMMA DeliverFailWrites ==
    ASSUME TypeOK, Shaped, OrdersTrue, RequestsTrue, NEW t \in Threads, DeliverFail(t)
    PROVE  LET o == req[t].order IN
           \E row \in OrderRows : Rewrites(o, row) /\ SameMoney(o, row)
<1> DEFINE o == req[t].order
           seen == req[t].seen
           mine == [seen EXCEPT !.status = "delivery_failed"]
           w == Written(o, seen, mine)
           row == [w EXCEPT !.sent = None]
<1>1. At(t, "deliver_fail") /\ order' = [order EXCEPT ![o] = row]
  BY DEF DeliverFail, WithResponse
<1>2. /\ o \in Orders /\ Exists(o) /\ seen \in OrderRows /\ RowTrue(o, seen)
      /\ order \in [Orders -> OrderRows] /\ order[o] \in OrderRows /\ RowTrue(o, order[o])
  BY <1>1, ThreadKnows DEF At
<1>3. /\ mine \in OrderRows /\ mine.status = "delivery_failed"
      /\ mine.payment = seen.payment /\ mine.intent = seen.intent
      /\ mine.subscribed = seen.subscribed /\ mine.link = seen.link /\ mine.sent = seen.sent
      /\ mine.sub = seen.sub
  BY <1>2 DEF OrderRows
<1> HIDE DEF mine
<1>4. RowTrue(o, mine)
  BY <1>2, <1>3 DEF RowTrue
<1>5. /\ w \in OrderRows /\ RowTrue(o, w) /\ w.status # "absent"
      /\ w.payment = order[o].payment /\ w.intent = order[o].intent
  BY <1>2, <1>3, <1>4, WrittenIs, MixtureTrue DEF Exists
<1> HIDE DEF w
<1>6. /\ row \in OrderRows /\ row.status = w.status /\ row.payment = w.payment
      /\ row.intent = w.intent /\ row.subscribed = w.subscribed /\ row.link = w.link
      /\ row.sub = w.sub /\ row.sent = None
  BY <1>5 DEF OrderRows
<1> HIDE DEF row
<1>7. RowTrue(o, row)
  BY <1>5, <1>6 DEF RowTrue
<1> QED
  BY <1>1, <1>5, <1>6, <1>7 DEF Rewrites, SameMoney

\* The request's intent is Stripe's, charged, and on record for the order.
LEMMA ConfirmOrderWrites ==
    ASSUME TypeOK, Shaped, OrdersTrue, RequestsTrue, StripeTrue, NEW t \in Threads, ConfirmOrder(t)
    PROVE  LET o == req[t].order IN
           \E row \in OrderRows :
             /\ Rewrites(o, row) /\ row.payment = "confirmed"
             /\ row.intent \in {order[o].intent, req[t].event.intent}
<1> DEFINE o == req[t].order
           seen == req[t].seen
           e == req[t].event
           mine == Confirmed(seen, e)
<1>1. At(t, "confirm") /\ order' = [order EXCEPT ![o] = Written(o, seen, mine)]
  BY DEF ConfirmOrder
<1>2. /\ req[t] \in Requests /\ Honest(req[t]) /\ o \in Orders /\ Exists(o)
      /\ seen \in OrderRows /\ RowTrue(o, seen)
      /\ order \in [Orders -> OrderRows] /\ order[o] \in OrderRows /\ RowTrue(o, order[o])
  BY <1>1, ThreadKnows DEF At
<1>3. /\ e \in Events /\ e.kind \in {"checkout", "succeeded"}
      /\ e.intent \in Credited(o) /\ seen.payment # "confirmed"
  BY <1>1, <1>2, SeenType DEF At, Honest, PaymentPcs, WebhookPcs
<1>4. /\ e.intent \in Intents /\ LinkOf(e.intent).of = o /\ Charged(e.intent)
      /\ LinkOf(e.intent) \in Links
  BY <1>3 DEF Credited, StripeTrue
<1>5. /\ mine \in OrderRows /\ mine.status = "payment_confirmed" /\ mine.payment = "confirmed"
      /\ mine.intent \in {seen.intent, e.intent}
      /\ mine.subscribed = seen.subscribed /\ mine.link \in {seen.link, LinkOf(e.intent)}
      /\ mine.sent = seen.sent /\ mine.sub = seen.sub
  <2> DEFINE i == IF seen.intent = None THEN e.intent ELSE seen.intent
             l == IF seen.link = None /\ e.kind = "checkout" THEN LinkOf(e.intent) ELSE seen.link
  <2>1. mine = [status |-> "payment_confirmed", type |-> seen.type, payment |-> "confirmed",
                link |-> l, sent |-> seen.sent, intent |-> i,
                sub |-> seen.sub, subscribed |-> seen.subscribed]
    <3>1. mine = [seen EXCEPT !.payment = "confirmed", !.status = "payment_confirmed",
                              !.intent = i, !.link = l]
      BY DEF Confirmed
    <3> HIDE DEF i, l, mine
    <3> QED
      BY <1>2, <3>1 DEF OrderRows
  <2>2. /\ i \in Intents \cup {None} /\ i \in {seen.intent, e.intent}
        /\ l \in Links \cup {None} /\ l \in {seen.link, LinkOf(e.intent)}
    BY <1>2, <1>4 DEF OrderRows
  <2> HIDE DEF i, l, mine
  <2> QED
    BY <1>2, <2>1, <2>2 DEF OrderRows
<1> HIDE DEF mine
<1>6. RowTrue(o, mine)
  BY <1>2, <1>3, <1>4, <1>5 DEF RowTrue
<1>7. PICK row \in OrderRows :
        /\ Rewrites(o, row)
        /\ row.payment = IF mine.payment # seen.payment THEN mine.payment ELSE order[o].payment
        /\ row.intent = IF mine.intent # seen.intent THEN mine.intent ELSE order[o].intent
  BY <1>1, <1>2, <1>5, <1>6, WriteIs
<1> QED
  BY <1>3, <1>5, <1>7

\* An edit of a row's status and one more column.
LEMMA StatusEdit ==
    ASSUME NEW seen \in OrderRows, NEW mine,
           NEW status \in {"delivery_failed", "refunded", "subscription_active",
                           "subscription_cancelled", "subscription_restricted"},
           NEW money \in {seen.payment, "refunded"},
           NEW subscribed \in {seen.subscribed, "cancelled"} \cup SubStates,
           mine = [status |-> status, type |-> seen.type, payment |-> money,
                   link |-> seen.link, sent |-> seen.sent, intent |-> seen.intent,
                   sub |-> seen.sub, subscribed |-> subscribed]
    PROVE  /\ mine \in OrderRows /\ mine.status = status /\ mine.payment = money
           /\ mine.subscribed = subscribed /\ mine.intent = seen.intent
           /\ mine.link = seen.link /\ mine.sent = seen.sent /\ mine.sub = seen.sub
BY DEF OrderRows

LEMMA UpdateSubscriptionWrites ==
    ASSUME TypeOK, Shaped, OrdersTrue, RequestsTrue, StripeTrue,
           NEW t \in Threads, UpdateSubscription(t)
    PROVE  LET o == req[t].order IN
           \E row \in OrderRows : Rewrites(o, row) /\ SameMoney(o, row)
<1> DEFINE o == req[t].order
           seen == req[t].seen
           e == req[t].event
           mine == Told(seen, e)
           was == stripe.life[e.sub][e.nth]
<1>1. At(t, "subscription") /\ order' = [order EXCEPT ![o] = Written(o, seen, mine)]
  BY DEF UpdateSubscription
<1>2. /\ req[t] \in Requests /\ Honest(req[t]) /\ o \in Orders /\ Exists(o)
      /\ seen \in OrderRows /\ RowTrue(o, seen)
      /\ order \in [Orders -> OrderRows] /\ order[o] \in OrderRows /\ RowTrue(o, order[o])
  BY <1>1, ThreadKnows DEF At
<1>3. e \in Events /\ e.kind \in SubKinds /\ e.sub.of = o /\ EventTrue(e)
  BY <1>1, <1>2, SeenType DEF At, Honest, SubscriptionPcs, WebhookPcs, StripeTrue
<1>4. e.sub \in Links
  BY <1>3 DEF Events, SubEvents, SubKinds
<1>5. /\ e.nth \in DOMAIN stripe.life[e.sub] /\ was \in SubStates \cup {"canceled"}
      /\ e.kind = "updated" => was # "canceled"
      /\ e.kind = "deleted" => was = "canceled"
      /\ e.kind = "paid" => was = "active"
  <2>1. stripe.life[e.sub] \in Seq(SubStates \cup {"canceled"})
    BY <1>4, StripeTypes
  <2>2. e.nth \in DOMAIN stripe.life[e.sub]
    BY <1>3 DEF EventTrue
  <2>3. was \in SubStates \cup {"canceled"}
    BY <2>1, <2>2
  <2> QED
    BY <1>3, <2>2, <2>3 DEF EventTrue
<1>6. SubscriptionWas(o, was)
  BY <1>3, <1>4, <1>5 DEF SubscriptionWas, HasBeen
<1> DEFINE Goal ==
             /\ mine \in OrderRows /\ mine.status \in {seen.status, "subscription_cancelled"}
             /\ mine.payment = seen.payment /\ mine.intent = seen.intent
             /\ mine.subscribed = "cancelled" =>
                  seen.subscribed = "cancelled" \/ SubscriptionWas(o, "canceled")
             /\ mine.subscribed = "active" => SubscriptionWas(o, "active")
             /\ mine.link = seen.link /\ mine.sent = seen.sent /\ mine.sub = seen.sub
<1>7. Goal
  <2> HIDE DEF was
  <2>1. ASSUME NEW x \in SubStates, mine = [seen EXCEPT !.subscribed = x],
               x = "active" => SubscriptionWas(o, "active")
        PROVE  Goal
    <3> HIDE DEF mine
    <3>1. /\ mine \in OrderRows /\ mine.subscribed = x /\ mine.status = seen.status
          /\ mine.payment = seen.payment /\ mine.intent = seen.intent
          /\ mine.link = seen.link /\ mine.sent = seen.sent /\ mine.sub = seen.sub
      BY <1>2, <2>1 DEF OrderRows
    <3> QED
      BY <2>1, <3>1 DEF SubStates
  <2>2. CASE e.kind = "updated"
    <3>1. mine = [seen EXCEPT !.subscribed = was]
      BY <2>2 DEF Told, was
    <3>2. was \in SubStates
      BY <1>5, <2>2
    <3>3. was = "active" => SubscriptionWas(o, "active")
      BY <1>6
    <3> HIDE DEF mine, Goal
    <3> QED
      BY <2>1, <3>1, <3>2, <3>3
  <2>3. CASE e.kind = "deleted"
    <3>1. mine = [seen EXCEPT !.subscribed = "cancelled", !.status = "subscription_cancelled"]
      BY <2>3 DEF Told
    <3> HIDE DEF mine
    <3>2. mine = [status |-> "subscription_cancelled", type |-> seen.type,
                  payment |-> seen.payment, link |-> seen.link, sent |-> seen.sent,
                  intent |-> seen.intent, sub |-> seen.sub, subscribed |-> "cancelled"]
      BY <1>2, <3>1 DEF OrderRows
    <3>3. SubscriptionWas(o, "canceled")
      BY <1>5, <1>6, <2>3
    <3> QED
      BY <1>2, <3>2, <3>3, StatusEdit
  <2>4. CASE e.kind = "paid"
    <3>1. mine = [seen EXCEPT !.subscribed = "active"]
      BY <2>4 DEF Told
    <3>2. SubscriptionWas(o, "active")
      BY <1>5, <1>6, <2>4
    <3> HIDE DEF mine, Goal
    <3> QED
      BY <2>1, <3>1, <3>2 DEF SubStates
  <2>5. CASE e.kind = "unpaid"
    <3>1. mine = [seen EXCEPT !.subscribed = "past_due"]
      BY <2>5 DEF Told
    <3> HIDE DEF mine, Goal
    <3> QED
      BY <2>1, <3>1 DEF SubStates
  <2> HIDE DEF Goal
  <2> QED
    BY <1>3, <2>2, <2>3, <2>4, <2>5 DEF SubKinds
<1> HIDE DEF mine
<1>8. RowTrue(o, mine)
  BY <1>2, <1>7 DEF RowTrue
<1>9. PICK row \in OrderRows :
        /\ Rewrites(o, row)
        /\ row.payment = IF mine.payment # seen.payment THEN mine.payment ELSE order[o].payment
        /\ row.intent = IF mine.intent # seen.intent THEN mine.intent ELSE order[o].intent
  <2>1. order' = [order EXCEPT ![o] = Written(o, seen, mine)]
    BY <1>1 DEF mine
  <2> QED
    BY <1>2, <1>7, <1>8, <2>1, WriteIs
<1> QED
  BY <1>7, <1>9 DEF SameMoney

LEMMA ApplyAccessWrites ==
    ASSUME TypeOK, Shaped, OrdersTrue, RequestsTrue, NEW t \in Threads, ApplyAccess(t)
    PROVE  LET o == req[t].order IN
           \E row \in OrderRows : Rewrites(o, row) /\ SameMoney(o, row)
<1> DEFINE o == req[t].order
           seen == req[t].seen
           mine == Access(seen)
           status == CASE seen.subscribed = "active" -> "subscription_active"
                       [] seen.subscribed = "cancelled" -> "subscription_cancelled"
                       [] OTHER -> "subscription_restricted"
<1>1. At(t, "access") /\ order' = [order EXCEPT ![o] = Written(o, seen, mine)]
  BY DEF ApplyAccess
<1>2. /\ o \in Orders /\ Exists(o) /\ seen \in OrderRows /\ RowTrue(o, seen)
      /\ order \in [Orders -> OrderRows] /\ order[o] \in OrderRows /\ RowTrue(o, order[o])
  BY <1>1, ThreadKnows DEF At
<1>3. /\ status \in {"subscription_active", "subscription_cancelled", "subscription_restricted"}
      /\ status = "subscription_active" => seen.subscribed = "active"
  OBVIOUS
<1>4. mine = [seen EXCEPT !.status = status]
  BY DEF Access
<1> HIDE DEF mine, status
<1>5. /\ mine \in OrderRows /\ mine.status = status
      /\ mine.payment = seen.payment /\ mine.subscribed = seen.subscribed
      /\ mine.intent = seen.intent /\ mine.link = seen.link /\ mine.sent = seen.sent
      /\ mine.sub = seen.sub
  BY <1>2, <1>3, <1>4 DEF OrderRows
<1>6. RowTrue(o, mine)
  BY <1>2, <1>3, <1>5 DEF RowTrue
<1>7. PICK row \in OrderRows :
        /\ Rewrites(o, row)
        /\ row.payment = IF mine.payment # seen.payment THEN mine.payment ELSE order[o].payment
        /\ row.intent = IF mine.intent # seen.intent THEN mine.intent ELSE order[o].intent
  BY <1>1, <1>2, <1>3, <1>5, <1>6, WriteIs
<1> QED
  BY <1>5, <1>7 DEF SameMoney

LEMMA RefundOrderWrites ==
    ASSUME TypeOK, Shaped, OrdersTrue, RequestsTrue, NEW t \in Threads, RefundOrder(t)
    PROVE  LET o == req[t].order IN
           \E row \in OrderRows :
             /\ Rewrites(o, row) /\ row.intent = order[o].intent
             /\ row.payment \in {order[o].payment, "refunded"}
             /\ RefundOf(o)
<1> DEFINE o == req[t].order
           seen == req[t].seen
           mine == [seen EXCEPT !.payment = "refunded", !.status = "refunded"]
<1>1. At(t, "refunded") /\ order' = [order EXCEPT ![o] = Written(o, seen, mine)]
  BY DEF RefundOrder, Refunded
<1>2. /\ req[t] \in Requests /\ Honest(req[t]) /\ o \in Orders /\ Exists(o)
      /\ seen \in OrderRows /\ RowTrue(o, seen)
      /\ order \in [Orders -> OrderRows] /\ order[o] \in OrderRows /\ RowTrue(o, order[o])
  BY <1>1, ThreadKnows DEF At
<1>3. RefundOf(o)
  <2>1. seen.intent # None /\ stripe.intent[seen.intent].state = "refunded"
    BY <1>1, <1>2 DEF At, Honest
  <2>2. seen.intent \in Credited(o)
    BY <1>2, <2>1 DEF RowTrue
  <2> QED
    BY <2>1, <2>2 DEF RefundOf
<1>4. mine = [status |-> "refunded", type |-> seen.type, payment |-> "refunded",
              link |-> seen.link, sent |-> seen.sent, intent |-> seen.intent,
              sub |-> seen.sub, subscribed |-> seen.subscribed]
  <2>1. mine = [seen EXCEPT !.payment = "refunded", !.status = "refunded"]
    OBVIOUS
  <2> HIDE DEF mine
  <2> QED
    BY <1>2, <2>1 DEF OrderRows
<1> HIDE DEF mine
<1>5. /\ mine \in OrderRows /\ mine.status = "refunded" /\ mine.payment = "refunded"
      /\ mine.subscribed = seen.subscribed /\ mine.intent = seen.intent
      /\ mine.link = seen.link /\ mine.sent = seen.sent /\ mine.sub = seen.sub
  BY <1>2, <1>4, StatusEdit
<1>6. RowTrue(o, mine)
  BY <1>2, <1>3, <1>5 DEF RowTrue
<1>7. PICK row \in OrderRows :
        /\ Rewrites(o, row)
        /\ row.payment = IF mine.payment # seen.payment THEN mine.payment ELSE order[o].payment
        /\ row.intent = IF mine.intent # seen.intent THEN mine.intent ELSE order[o].intent
  <2>1. order' = [order EXCEPT ![o] = Written(o, seen, mine)] /\ mine.status # "absent"
    BY <1>1, <1>5 DEF mine
  <2> QED
    BY <1>2, <1>5, <1>6, <2>1, WriteIs
<1> QED
  BY <1>3, <1>5, <1>7

LEMMA CancelOrderWrites ==
    ASSUME TypeOK, Shaped, OrdersTrue, RequestsTrue, NEW t \in Threads, CancelOrder(t)
    PROVE  LET o == req[t].order IN
           \/ order' = order
           \/ \E row \in OrderRows : Rewrites(o, row) /\ SameMoney(o, row)
<1> DEFINE o == req[t].order
           seen == req[t].seen
           mine == [seen EXCEPT !.subscribed = "cancelled", !.status = "subscription_cancelled"]
<1>1. CASE At(t, "give_up")
  BY <1>1 DEF CancelOrder
<1>2. CASE ~At(t, "give_up")
  <2>1. At(t, "cancelled") /\ order' = [order EXCEPT ![o] = Written(o, seen, mine)]
    BY <1>2 DEF CancelOrder
  <2>2. /\ req[t] \in Requests /\ Honest(req[t]) /\ o \in Orders /\ Exists(o)
        /\ seen \in OrderRows /\ RowTrue(o, seen)
        /\ order \in [Orders -> OrderRows] /\ order[o] \in OrderRows /\ RowTrue(o, order[o])
    BY <2>1, ThreadKnows DEF At
  <2>3. SubscriptionWas(o, "canceled")
    BY <2>1, <2>2 DEF At, Honest
  <2>4. mine = [status |-> "subscription_cancelled", type |-> seen.type,
                payment |-> seen.payment, link |-> seen.link, sent |-> seen.sent,
                intent |-> seen.intent, sub |-> seen.sub, subscribed |-> "cancelled"]
    <3>1. mine = [seen EXCEPT !.subscribed = "cancelled", !.status = "subscription_cancelled"]
      OBVIOUS
    <3> HIDE DEF mine
    <3> QED
      BY <2>2, <3>1 DEF OrderRows
  <2> HIDE DEF mine
  <2>5. /\ mine \in OrderRows /\ mine.status = "subscription_cancelled"
        /\ mine.payment = seen.payment /\ mine.intent = seen.intent
        /\ mine.subscribed = "cancelled"
        /\ mine.link = seen.link /\ mine.sent = seen.sent /\ mine.sub = seen.sub
    BY <2>2, <2>4, StatusEdit
  <2>6. RowTrue(o, mine)
    BY <2>2, <2>3, <2>5 DEF RowTrue
  <2>7. PICK row \in OrderRows :
          /\ Rewrites(o, row)
          /\ row.payment = IF mine.payment # seen.payment THEN mine.payment ELSE order[o].payment
          /\ row.intent = IF mine.intent # seen.intent THEN mine.intent ELSE order[o].intent
    BY <2>1, <2>2, <2>5, <2>6, WriteIs
  <2> QED
    BY <2>5, <2>7 DEF SameMoney
<1> QED
  BY <1>1, <1>2

\* An order is created, or its type is changed.
LEMMA ConfigWrites ==
    ASSUME TypeOK, Shaped, OrdersTrue, NEW o \in Orders, NEW type \in Types,
           CreateOrder(o, type) \/ UpdateDeliveryConfig(o, type)
    PROVE  \E row \in OrderRows : Rewrites(o, row) /\ SameMoney(o, row)
<1>a. type \in {"payment", "subscription", "manual"} /\ order \in [Orders -> OrderRows]
  BY StateTypes, PaymentsAssumption
<1>1. CASE CreateOrder(o, type)
  <2> DEFINE row == [NoOrder EXCEPT !.status = "pending", !.type = type]
  <2>1. /\ row \in OrderRows /\ row.status = "pending" /\ row.payment = "none"
        /\ row.subscribed = "none" /\ row.intent = None /\ row.link = None /\ row.sent = None
        /\ row.sub = None
    BY <1>a DEF NoOrder, OrderRows
  <2>2. order' = [order EXCEPT ![o] = row] /\ order[o].payment = "none" /\ order[o].intent = None
    BY <1>1, NoOrderType DEF CreateOrder, OrdersTrue
  <2> HIDE DEF row
  <2>3. RowTrue(o, row)
    BY <2>1 DEF RowTrue
  <2> QED
    BY <2>1, <2>2, <2>3 DEF Rewrites, SameMoney
<1>2. CASE UpdateDeliveryConfig(o, type)
  <2> DEFINE row == [order[o] EXCEPT !.type = type]
  <2>0. order[o] \in OrderRows /\ RowTrue(o, order[o]) /\ order[o].status # "absent"
    BY <1>2, <1>a DEF OrdersTrue, UpdateDeliveryConfig, Exists
  <2>1. /\ row \in OrderRows /\ row.status = order[o].status /\ row.payment = order[o].payment
        /\ row.subscribed = order[o].subscribed /\ row.intent = order[o].intent
        /\ row.link = order[o].link /\ row.sent = order[o].sent /\ row.sub = order[o].sub
    BY <1>a, <2>0 DEF OrderRows
  <2>2. order' = [order EXCEPT ![o] = row]
    BY <1>2, <1>a DEF UpdateDeliveryConfig
  <2> HIDE DEF row
  <2>3. RowTrue(o, row)
    BY <2>0, <2>1 DEF RowTrue
  <2> QED
    BY <2>0, <2>1, <2>2, <2>3 DEF Rewrites, SameMoney
<1> QED
  BY <1>1, <1>2

\* A payment that has failed was no payment of an order that is paid.
LEMMA PaymentFailedKeeps ==
    ASSUME TypeOK, Shaped, OrdersTrue, RequestsTrue, NEW t \in Threads, PaymentFailed(t)
    PROVE  order' = order
<1>1. At(t, "payment_failed")
  BY DEF PaymentFailed
<1>2. req[t].seen.payment \in {"confirmed", "refunded"}
  BY <1>1, ThreadKnows DEF At, Honest
<1> QED
  BY <1>2 DEF PaymentFailed

OthersKeepOrders(t) ==
    \/ MakeLink(t) \/ TaskFeedback(t) \/ Reserve(t) \/ ConfirmRecord(t) \/ Announce(t)
    \/ CompleteTask(t) \/ MarkOutcome(t) \/ FindAgain(t) \/ ReserveRefund(t) \/ PostRefund(t)
    \/ RecordRefund(t) \/ DeleteSubscription(t)

\* What a step does to the orders: nothing, or it writes one true row.  Only a
\* confirmed payment brings an intent into a row.
Paid(t, o, row) ==
    /\ ConfirmOrder(t) /\ o = req[t].order /\ row.payment = "confirmed"
    /\ row.intent \in {order[o].intent, req[t].event.intent}
LEMMA OrderNext ==
    ASSUME TypeOK, Shaped, OrdersTrue, RequestsTrue, StripeTrue, [Next]_vars
    PROVE  \/ order' = order
           \/ \E o \in Orders, row \in OrderRows :
                /\ Rewrites(o, row)
                /\ \/ row.intent = order[o].intent /\ row.payment \in {order[o].payment, "refunded"}
                   \/ \E t \in Threads : Paid(t, o, row)
<1> DEFINE Goal == \/ order' = order
                   \/ \E o \in Orders, row \in OrderRows :
                        /\ Rewrites(o, row)
                        /\ \/ /\ row.intent = order[o].intent
                              /\ row.payment \in {order[o].payment, "refunded"}
                           \/ \E t \in Threads : Paid(t, o, row)
<1> SUFFICES Goal
  OBVIOUS
<1>a. ASSUME NEW o \in Orders, \E row \in OrderRows : Rewrites(o, row) /\ SameMoney(o, row)
      PROVE  Goal
  BY <1>a DEF SameMoney
<1>b. ASSUME NEW t \in Threads, req[t].pc \notin {"idle", "mark"} PROVE req[t].order \in Orders
  BY <1>b, ThreadKnows
<1>c. ASSUME order' = order PROVE Goal
  BY <1>c
<1>1. ASSUME NEW o \in Orders, NEW type \in Types,
             CreateOrder(o, type) \/ UpdateDeliveryConfig(o, type)
      PROVE  Goal
  <2> HIDE DEF Goal
  <2> QED
    BY <1>1, <1>a, ConfigWrites
<1>2. ASSUME NEW t \in Threads, DeliverCommit(t) PROVE Goal
  <2>1. req[t].order \in Orders
    BY <1>2, <1>b DEF DeliverCommit, At
  <2> HIDE DEF Goal
  <2> QED
    BY <1>2, <1>a, <2>1, DeliverCommitWrites
<1>3. ASSUME NEW t \in Threads, DeliverFail(t) PROVE Goal
  <2>1. req[t].order \in Orders
    BY <1>3, <1>b DEF DeliverFail, At
  <2> HIDE DEF Goal
  <2> QED
    BY <1>3, <1>a, <2>1, DeliverFailWrites
<1>4. ASSUME NEW t \in Threads, UpdateSubscription(t) PROVE Goal
  <2>1. req[t].order \in Orders
    BY <1>4, <1>b DEF UpdateSubscription, At
  <2> HIDE DEF Goal
  <2> QED
    BY <1>4, <1>a, <2>1, UpdateSubscriptionWrites
<1>5. ASSUME NEW t \in Threads, ApplyAccess(t) PROVE Goal
  <2>1. req[t].order \in Orders
    BY <1>5, <1>b DEF ApplyAccess, At
  <2> HIDE DEF Goal
  <2> QED
    BY <1>5, <1>a, <2>1, ApplyAccessWrites
<1>6. ASSUME NEW t \in Threads, CancelOrder(t) PROVE Goal
  <2>1. req[t].order \in Orders
    BY <1>6, <1>b DEF CancelOrder, At
  <2> HIDE DEF Goal
  <2> QED
    BY <1>6, <1>a, <1>c, <2>1, CancelOrderWrites
<1>7. ASSUME NEW t \in Threads, ConfirmOrder(t) PROVE Goal
  <2>1. req[t].order \in Orders
    BY <1>7, <1>b DEF ConfirmOrder, At
  <2>2. PICK row \in OrderRows :
          /\ Rewrites(req[t].order, row) /\ row.payment = "confirmed"
          /\ row.intent \in {order[req[t].order].intent, req[t].event.intent}
    BY <1>7, ConfirmOrderWrites
  <2>3. Paid(t, req[t].order, row)
    BY <1>7, <2>2 DEF Paid
  <2> QED
    BY <2>1, <2>2, <2>3
<1>8. ASSUME NEW t \in Threads, RefundOrder(t) PROVE Goal
  <2>1. req[t].order \in Orders
    BY <1>8, <1>b DEF RefundOrder, At
  <2> QED
    BY <1>8, <2>1, RefundOrderWrites
<1>9. ASSUME NEW t \in Threads, PaymentFailed(t) PROVE Goal
  BY <1>9, <1>c, PaymentFailedKeeps
<1>10. ASSUME NEW t \in Threads, OthersKeepOrders(t) PROVE order' = order
  BY <1>10 DEF OthersKeepOrders, MakeLink, TaskFeedback, Reserve, ConfirmRecord, Announce,
               CompleteTask, MarkOutcome, FindAgain, ReserveRefund, PostRefund, RecordRefund,
               DeleteSubscription
<1>11. ASSUME NEW t \in Threads, Step(t) PROVE Goal
  <2> HIDE DEF Goal
  <2> QED
    BY <1>11, <1>c, <1>2, <1>3, <1>4, <1>5, <1>6, <1>7, <1>8, <1>9, <1>10
    DEF Step, OthersKeepOrders
<1>12. ASSUME \/ Crash \/ UNCHANGED vars
              \/ \E i \in Intents : Decline(i) \/ \E link \in stripe.shown : Pay(i, link)
              \/ \E s \in Links, status \in {"active", "past_due", "canceled"} :
                   SubscriptionTurns(s, status)
              \/ \E t \in Threads :
                   \/ \E o \in Orders :
                        Deliver(t, o) \/ Cancel(t, o) \/ \E k \in RefundKeys : Refund(t, o, k)
                   \/ \E e \in Events : Receive(t, e)
       PROVE  order' = order
  BY <1>12 DEF Crash, vars, Decline, Pay, SubscriptionTurns, Deliver, Cancel, Refund, Receive
<1> HIDE DEF Goal
<1> QED
  BY <1>c, <1>1, <1>11, <1>12 DEF Next

\* Rows are never lost.
LEMMA OrderKept ==
    ASSUME TypeOK, Shaped, OrdersTrue, RequestsTrue, StripeTrue, [Next]_vars
    PROVE  /\ order' \in [Orders -> OrderRows]
           /\ \A o \in Orders : Exists(o) => Exists(o)'
<1>1. order \in [Orders -> OrderRows]
  BY StateTypes
<1>2. order' = order \/ \E o \in Orders, row \in OrderRows : Rewrites(o, row)
  BY OrderNext
<1> QED
  BY <1>1, <1>2 DEF Rewrites, Exists

-----------------------------------------------------------------------------
(* How requests go on.                                                     *)

LEMMA PartsAre ==
    /\ \A a, b \in DeliverPcs : SamePart(a, b)
    /\ \A a, b \in WebhookPcs : SamePart(a, b)
    /\ \A a, b \in RefundPcs : SamePart(a, b)
    /\ \A a, b \in CancelPcs : SamePart(a, b)
BY DEF SamePart

\* The request of thread t goes on to one of the steps pcs, with a row of rows.
GoesTo(t, pcs, rows) == \E r \in Requests :
    Becomes(t, r) /\ Like(r, req[t]) /\ r.pc \in pcs /\ r.seen \in rows

LEMMA GoTo ==
    ASSUME Shaped, NEW t \in Threads, NEW pc, SamePart(req[t].pc, pc), Go(t, pc),
           NEW pcs, pc \in pcs
    PROVE  GoesTo(t, pcs, {req[t].seen})
BY GoIs DEF GoesTo

LEMMA GoWithTo ==
    ASSUME Shaped, NEW t \in Threads, NEW pc, SamePart(req[t].pc, pc),
           NEW row \in OrderRows, GoWith(t, pc, row), NEW pcs, pc \in pcs
    PROVE  GoesTo(t, pcs, {row})
BY GoWithIs DEF GoesTo

LEMMA ForgetTo ==
    ASSUME Shaped, NEW t \in Threads, NEW pc, SamePart(req[t].pc, pc), Forget(t, pc),
           NEW pcs, pc \in pcs
    PROVE  GoesTo(t, pcs, {NoOrder})
BY NoOrderType, GoWithTo DEF Forget

LEMMA MakeLinkGoes ==
    ASSUME Shaped, NEW t \in Threads, MakeLink(t)
    PROVE  /\ req[t].pc = "deliver"
           /\ \E r \in Requests :
                /\ Becomes(t, r) /\ r.pc \in {"deliver_commit", "deliver_fail"}
                /\ r.seen = req[t].seen /\ r.order = req[t].order
                /\ r.link \in {req[t].link, None}
<1> DEFINE Goal == \E r \in Requests :
                     /\ Becomes(t, r) /\ r.pc \in {"deliver_commit", "deliver_fail"}
                     /\ r.seen = req[t].seen /\ r.order = req[t].order
                     /\ r.link \in {req[t].link, None}
<1>1. req[t].pc = "deliver" /\ req[t] \in Requests
  BY DEF MakeLink, At, Shaped
<1>2. /\ SamePart(req[t].pc, "deliver_commit") /\ SamePart(req[t].pc, "deliver_fail")
      /\ req[t].pc \in DeliverPcs
  BY <1>1, PartsAre DEF DeliverPcs
<1>3. ASSUME NEW pc \in {"deliver_commit", "deliver_fail"}, Go(t, pc) PROVE Goal
  <2>1. SamePart(req[t].pc, pc)
    BY <1>2
  <2> QED
    BY <1>2, <1>3, <2>1, GoIs DEF Like
<1>4. ASSUME req' = [req EXCEPT ![t].pc = "deliver_commit", ![t].link = None] PROVE Goal
  <2> DEFINE r == [req[t] EXCEPT !.pc = "deliver_commit", !.link = None]
  <2>1. req[t] \in [pc : DeliverPcs, order : Orders, seen : OrderRows, link : Links \cup {None}]
    BY <1>1, <1>2, RequestTypes
  <2>2. /\ r \in [pc : DeliverPcs, order : Orders, seen : OrderRows, link : Links \cup {None}]
        /\ r.pc = "deliver_commit" /\ r.seen = req[t].seen /\ r.order = req[t].order
        /\ r.link = None
    BY <2>1 DEF DeliverPcs
  <2>3. req' = [req EXCEPT ![t] = r]
    BY <1>4 DEF Shaped
  <2> HIDE DEF r
  <2>4. r \in Requests
    BY <2>2 DEF Requests
  <2> QED
    BY <2>2, <2>3, <2>4, BecomesIs
<1>5. Goal
  <2> HIDE DEF Goal
  <2> QED
    BY <1>3, <1>4 DEF MakeLink
<1> QED
  BY <1>1, <1>5

LEMMA DeliverCommitGoes ==
    ASSUME TypeOK, Shaped, OrdersTrue, RequestsTrue, NEW t \in Threads, DeliverCommit(t)
    PROVE  /\ req[t].pc = "deliver_commit"
           /\ GoesTo(t, {"feedback", "deliver_fail"}, {NoOrder, order'[req[t].order]})
           /\ order'[req[t].order].intent = order[req[t].order].intent
<1>1. req[t].pc = "deliver_commit"
  BY DEF DeliverCommit, At
<1>2. PICK row \in OrderRows :
        /\ Rewrites(req[t].order, row) /\ SameMoney(req[t].order, row)
        /\ Forget(t, "feedback") \/ GoWith(t, "deliver_fail", row)
  BY DeliverCommitWrites
<1>3. order'[req[t].order] = row /\ row.intent = order[req[t].order].intent
  BY <1>1, <1>2, ThreadKnows DEF Rewrites, SameMoney
<1>4. /\ SamePart(req[t].pc, "feedback") /\ SamePart(req[t].pc, "deliver_fail")
  BY <1>1, PartsAre DEF DeliverPcs
<1>5. CASE Forget(t, "feedback")
  BY <1>1, <1>3, <1>4, <1>5, ForgetTo DEF GoesTo
<1>6. CASE GoWith(t, "deliver_fail", row)
  <2>1. GoesTo(t, {"feedback", "deliver_fail"}, {row})
    BY <1>4, <1>6, GoWithTo
  <2> QED
    BY <1>1, <1>3, <2>1 DEF GoesTo
<1> QED
  BY <1>2, <1>5, <1>6

LEMMA ReserveGoes ==
    ASSUME TypeOK, Shaped, OrdersTrue, RequestsTrue, NEW t \in Threads, Reserve(t)
    PROVE  LET i == req[t].event.intent
               row == order[req[t].order]
           IN
           /\ req[t].pc = "reserve" /\ order' = order
           /\ \/ payment' = payment /\ GoesTo(t, {"mark"}, {req[t].seen})
              \/ /\ payment[i].status = "absent"
                 /\ payment' = [payment EXCEPT ![i] = [status |-> "pending", order |-> req[t].order]]
                 /\ \/ GoesTo(t, {"record_again"}, {req[t].seen})
                    \/ row.payment # "confirmed" /\ GoesTo(t, {"confirm"}, {row})
<1>1. req[t].pc = "reserve" /\ order' = order
  BY DEF Reserve, At
<1>2. order[req[t].order] \in OrderRows
  BY <1>1, ThreadKnows
<1>3. \A pc \in {"mark", "record_again", "confirm"} : SamePart(req[t].pc, pc)
  BY <1>1, PartsAre DEF WebhookPcs, PaymentPcs
<1>4. Go(t, "mark") => GoesTo(t, {"mark"}, {req[t].seen})
  BY <1>3, GoTo
<1>5. Go(t, "record_again") => GoesTo(t, {"record_again"}, {req[t].seen})
  BY <1>3, GoTo
<1>6. GoWith(t, "confirm", order[req[t].order]) => GoesTo(t, {"confirm"}, {order[req[t].order]})
  BY <1>2, <1>3, GoWithTo
<1> QED
  BY <1>1, <1>4, <1>5, <1>6 DEF Reserve, Fresh

LEMMA ConfirmOrderGoes ==
    ASSUME Shaped, NEW t \in Threads, ConfirmOrder(t)
    PROVE  req[t].pc = "confirm" /\ GoesTo(t, {"record"}, {NoOrder})
<1>1. req[t].pc = "confirm" /\ Forget(t, "record")
  BY DEF ConfirmOrder, At
<1>2. SamePart(req[t].pc, "record")
  BY <1>1, PartsAre DEF WebhookPcs, PaymentPcs
<1> QED
  BY <1>1, <1>2, ForgetTo

LEMMA ConfirmRecordGoes ==
    ASSUME Shaped, NEW t \in Threads, ConfirmRecord(t)
    PROVE  \/ req[t].pc = "record" /\ GoesTo(t, {"announce"}, {req[t].seen})
           \/ req[t].pc = "record_again" /\ GoesTo(t, {"complete"}, {req[t].seen})
<1>1. \/ req[t].pc = "record" /\ Go(t, "announce")
      \/ req[t].pc = "record_again" /\ Go(t, "complete")
  BY DEF ConfirmRecord, At
<1>2. SamePart("record", "announce") /\ SamePart("record_again", "complete")
  BY PartsAre DEF WebhookPcs, PaymentPcs
<1>3. CASE req[t].pc = "record" /\ Go(t, "announce")
  <2>1. SamePart(req[t].pc, "announce")
    BY <1>2, <1>3
  <2> QED
    BY <1>3, <2>1, GoTo
<1>4. CASE req[t].pc = "record_again" /\ Go(t, "complete")
  <2>1. SamePart(req[t].pc, "complete")
    BY <1>2, <1>4
  <2> QED
    BY <1>4, <2>1, GoTo
<1> QED
  BY <1>1, <1>3, <1>4

LEMMA AnnounceGoes ==
    ASSUME Shaped, NEW t \in Threads, Announce(t)
    PROVE  /\ req[t].pc = "announce"
           /\ GoesTo(t, {"complete", "mark_failed"}, {req[t].seen})
           /\ \/ told' = told
              \/ told' = [told EXCEPT ![req[t].event.intent] = @ + 1]
<1>1. req[t].pc = "announce" /\ (Go(t, "complete") \/ Go(t, "mark_failed"))
  BY DEF Announce, At
<1>2. SamePart(req[t].pc, "complete") /\ SamePart(req[t].pc, "mark_failed")
  BY <1>1, PartsAre DEF WebhookPcs, PaymentPcs
<1>3. GoesTo(t, {"complete", "mark_failed"}, {req[t].seen})
  BY <1>1, <1>2, GoTo
<1> QED
  BY <1>1, <1>3 DEF Announce

LEMMA MarkGoes ==
    ASSUME Shaped, NEW t \in Threads, CompleteTask(t) \/ PaymentFailed(t) \/ ApplyAccess(t)
    PROVE  /\ req[t].pc \in {"complete", "payment_failed", "access"}
           /\ GoesTo(t, {"mark"}, {req[t].seen, NoOrder})
<1>1. req[t].pc \in {"complete", "payment_failed", "access"}
  BY DEF CompleteTask, PaymentFailed, ApplyAccess, At
<1>2. SamePart(req[t].pc, "mark")
  BY <1>1, PartsAre DEF WebhookPcs, PaymentPcs, SubscriptionPcs
<1>3. Go(t, "mark") \/ Forget(t, "mark")
  BY DEF CompleteTask, PaymentFailed, ApplyAccess
<1>4. GoesTo(t, {"mark"}, {req[t].seen}) \/ GoesTo(t, {"mark"}, {NoOrder})
  BY <1>2, <1>3, GoTo, ForgetTo
<1> QED
  BY <1>1, <1>4 DEF GoesTo

LEMMA UpdateSubscriptionGoes ==
    ASSUME Shaped, NEW t \in Threads, UpdateSubscription(t)
    PROVE  req[t].pc = "subscription" /\ GoesTo(t, {"find_again"}, {NoOrder})
<1>1. req[t].pc = "subscription" /\ Forget(t, "find_again")
  BY DEF UpdateSubscription, At
<1>2. SamePart(req[t].pc, "find_again")
  BY <1>1, PartsAre DEF WebhookPcs, SubscriptionPcs
<1> QED
  BY <1>1, <1>2, ForgetTo

\* A subscription is found at one order only: the one it was made for.
LEMMA FindAgainGoes ==
    ASSUME TypeOK, Shaped, OrdersTrue, RequestsTrue, NEW t \in Threads, FindAgain(t)
    PROVE  /\ req[t].pc = "find_again" /\ order' = order
           /\ \/ GoesTo(t, {"mark", "mark_failed"}, {req[t].seen})
              \/ GoesTo(t, {"access"}, {order[req[t].order]})
<1>1. req[t].pc = "find_again" /\ order' = order
  BY DEF FindAgain, At
<1>2. \A pc \in {"mark", "mark_failed", "access"} : SamePart(req[t].pc, pc)
  BY <1>1, PartsAre DEF WebhookPcs, SubscriptionPcs
<1>3. Go(t, "mark") \/ Go(t, "mark_failed") =>
        GoesTo(t, {"mark", "mark_failed"}, {req[t].seen})
  BY <1>2, GoTo
<1>4. ASSUME NEW o \in Subscribed(req[t].event.sub), GoWith(t, "access", order[o])
      PROVE  GoesTo(t, {"access"}, {order[req[t].order]})
  <2>1. /\ req[t].event \in Events /\ req[t].event.kind \in SubKinds
        /\ req[t].event.sub.of = req[t].order
    BY <1>1, ThreadKnows, SeenType DEF Honest, SubscriptionPcs, WebhookPcs
  <2>2. req[t].event.sub \in Links
    BY <2>1 DEF Events, SubEvents, SubKinds
  <2>3. o \in Orders /\ order[o].sub = req[t].event.sub
    BY <1>4 DEF Subscribed
  <2>4. order[o].sub # None
    BY <2>2, <2>3, PaymentsAssumption DEF Links
  <2>5. o = req[t].order
    BY <2>1, <2>3, <2>4 DEF OrdersTrue, RowTrue
  <2>6. order[o] \in OrderRows
    BY <2>3, StateTypes
  <2> QED
    BY <1>2, <1>4, <2>5, <2>6, GoWithTo
<1> QED
  BY <1>1, <1>3, <1>4 DEF FindAgain

LEMMA ReserveRefundGoes ==
    ASSUME TypeOK, Shaped, OrdersTrue, RequestsTrue, NEW t \in Threads, ReserveRefund(t)
    PROVE  LET k == req[t].key IN
           /\ req[t].pc = "refund" /\ order' = order
           /\ \/ Done(t) /\ refund' = refund
              \/ /\ refund[k].status = "absent"
                 /\ refund' = [refund EXCEPT ![k] = [status |-> "pending", order |-> req[t].order]]
                 /\ GoesTo(t, {"post"}, {order[req[t].order]})
<1>1. req[t].pc = "refund" /\ order' = order
  BY DEF ReserveRefund, At
<1>2. order[req[t].order] \in OrderRows
  BY <1>1, ThreadKnows
<1>3. SamePart(req[t].pc, "post")
  BY <1>1, PartsAre DEF RefundPcs
<1>4. GoWith(t, "post", order[req[t].order]) => GoesTo(t, {"post"}, {order[req[t].order]})
  BY <1>2, <1>3, GoWithTo
<1> QED
  BY <1>1, <1>4 DEF ReserveRefund, FreshKey

\* Stripe refunds an intent at the asking of some key.
Returned(i) == \E k \in RefundKeys :
    stripe' = [stripe EXCEPT !.intent[i] = [@ EXCEPT !.state = "refunded", !.key = k]]

LEMMA PostRefundGoes ==
    ASSUME Shaped, NEW t \in Threads, PostRefund(t)
    PROVE  LET i == req[t].seen.intent IN
           /\ req[t].pc = "post"
           /\ \/ /\ GoesTo(t, {"refunded", "refund_failed"}, {req[t].seen})
                 /\ i \in Intents /\ stripe.intent[i].state = "charged"
                 /\ Returned(i)
              \/ GoesTo(t, {"refund_failed"}, {req[t].seen}) /\ stripe' = stripe
<1>1. req[t].pc = "post"
  BY DEF PostRefund, At
<1>2. SamePart(req[t].pc, "refunded") /\ SamePart(req[t].pc, "refund_failed")
  BY <1>1, PartsAre DEF RefundPcs
<1>3. AfterPost(FALSE) = "refund_failed" /\ \A a \in BOOLEAN : AfterPost(a) \in {"refunded", "refund_failed"}
  BY DEF AfterPost
<1>4. Go(t, AfterPost(FALSE)) => GoesTo(t, {"refund_failed"}, {req[t].seen})
  BY <1>2, <1>3, GoTo
<1>5. ASSUME NEW a \in BOOLEAN, Go(t, AfterPost(a))
      PROVE  GoesTo(t, {"refunded", "refund_failed"}, {req[t].seen})
  <2>1. SamePart(req[t].pc, AfterPost(a)) /\ AfterPost(a) \in {"refunded", "refund_failed"}
    BY <1>2, <1>3
  <2> QED
    BY <1>5, <2>1, GoTo
<1>6. {TRUE} \cup {~StripeFails} \subseteq BOOLEAN
  OBVIOUS
<1>7. req[t].key \in RefundKeys
  <2>1. req[t] \in Requests
    BY DEF Shaped
  <2> QED
    BY <1>1, <2>1, RequestTypes DEF RefundPcs
<1> QED
  BY <1>1, <1>4, <1>5, <1>6, <1>7 DEF PostRefund, Unrefunded, Returned

LEMMA RefundOrderGoes ==
    ASSUME Shaped, NEW t \in Threads, RefundOrder(t)
    PROVE  req[t].pc = "refunded" /\ GoesTo(t, {"refund_record"}, {NoOrder})
<1>1. req[t].pc = "refunded" /\ Forget(t, "refund_record")
  BY DEF RefundOrder, At
<1>2. SamePart(req[t].pc, "refund_record")
  BY <1>1, PartsAre DEF RefundPcs
<1> QED
  BY <1>1, <1>2, ForgetTo

LEMMA DeleteSubscriptionGoes ==
    ASSUME Shaped, NEW t \in Threads, DeleteSubscription(t)
    PROVE  LET s == req[t].seen.sub IN
           /\ req[t].pc = "cancel"
           /\ \/ /\ GoesTo(t, {"cancelled", "give_up"}, {req[t].seen})
                 /\ Len(stripe.life[s]) < MaxChanges /\ stripe' = Turned(s, "canceled")
              \/ GoesTo(t, {"give_up"}, {req[t].seen}) /\ stripe' = stripe
<1>1. req[t].pc = "cancel"
  BY DEF DeleteSubscription, At
<1>2. SamePart(req[t].pc, "cancelled") /\ SamePart(req[t].pc, "give_up")
  BY <1>1, PartsAre DEF CancelPcs
<1>3. AfterDelete(FALSE) = "give_up" /\ \A a \in BOOLEAN : AfterDelete(a) \in {"cancelled", "give_up"}
  BY DEF AfterDelete
<1>4. Go(t, AfterDelete(FALSE)) => GoesTo(t, {"give_up"}, {req[t].seen})
  BY <1>2, <1>3, GoTo
<1>5. ASSUME NEW a \in BOOLEAN, Go(t, AfterDelete(a))
      PROVE  GoesTo(t, {"cancelled", "give_up"}, {req[t].seen})
  <2>1. SamePart(req[t].pc, AfterDelete(a)) /\ AfterDelete(a) \in {"cancelled", "give_up"}
    BY <1>2, <1>3
  <2> QED
    BY <1>5, <2>1, GoTo
<1>6. {TRUE} \cup {~StripeFails} \subseteq BOOLEAN
  OBVIOUS
<1> QED
  BY <1>1, <1>4, <1>5, <1>6 DEF DeleteSubscription

\* The requests that are begun.
Begins(t, r) == Becomes(t, r) /\ r.pc # "idle" /\ At(t, "idle") /\ order' = order /\ stripe' = stripe

LEMMA DeliverBegins ==
    ASSUME TypeOK, Shaped, NEW t \in Threads, NEW o \in Orders, Deliver(t, o)
    PROVE  \E r \in Requests :
             /\ Begins(t, r) /\ r.pc = "deliver" /\ r.order = o /\ r.seen = order[o]
             /\ r.link \in Links /\ r.link.of = o /\ r.link.n = begun + 1 /\ begun' = begun + 1
             /\ Exists(o)
<1> DEFINE s == [of |-> o, n |-> begun + 1]
           r == [pc |-> "deliver", order |-> o, seen |-> order[o], link |-> s]
<1>1. s \in Links /\ s.of = o /\ s.n = begun + 1
  BY StateTypes, PaymentsAssumption DEF Deliver, Links
<1>2. order[o] \in OrderRows
  BY StateTypes
<1>3. r \in Requests /\ r.pc = "deliver" /\ r.order = o /\ r.seen = order[o] /\ r.link = s
  <2> HIDE DEF s
  <2> QED
    BY <1>1, <1>2 DEF Requests, DeliverPcs
<1>4. req' = [req EXCEPT ![t] = r]
  BY DEF Deliver
<1> HIDE DEF r, s
<1>5. Becomes(t, r)
  BY <1>3, <1>4, BecomesIs
<1> QED
  BY <1>1, <1>3, <1>5 DEF Deliver, Begins

LEMMA RefundBegins ==
    ASSUME TypeOK, Shaped, NEW t \in Threads, NEW o \in Orders, NEW k \in RefundKeys,
           Refund(t, o, k)
    PROVE  \E r \in Requests :
             /\ Begins(t, r) /\ r.pc = "refund" /\ r.order = o /\ r.seen = order[o]
             /\ order[o].payment = "confirmed"
<1> DEFINE r == [pc |-> "refund", order |-> o, key |-> k, seen |-> order[o]]
<1>1. order[o] \in OrderRows
  BY StateTypes
<1>2. r \in Requests /\ r.pc = "refund" /\ r.order = o /\ r.seen = order[o]
  BY <1>1 DEF Requests, RefundPcs
<1>3. req' = [req EXCEPT ![t] = r]
  BY DEF Refund
<1> HIDE DEF r
<1>4. Becomes(t, r)
  BY <1>2, <1>3, BecomesIs
<1> QED
  BY <1>2, <1>4 DEF Refund, Refundable, Begins

LEMMA CancelBegins ==
    ASSUME TypeOK, Shaped, NEW t \in Threads, NEW o \in Orders, Cancel(t, o)
    PROVE  \E r \in Requests :
             /\ Begins(t, r) /\ r.pc = "cancel" /\ r.order = o /\ r.seen = order[o]
             /\ order[o].sub # None
<1> DEFINE r == [pc |-> "cancel", order |-> o, seen |-> order[o]]
<1>1. order[o] \in OrderRows
  BY StateTypes
<1>2. r \in Requests /\ r.pc = "cancel" /\ r.order = o /\ r.seen = order[o]
  BY <1>1 DEF Requests, CancelPcs
<1>3. req' = [req EXCEPT ![t] = r]
  BY DEF Cancel
<1> HIDE DEF r
<1>4. Becomes(t, r)
  BY <1>2, <1>3, BecomesIs
<1> QED
  BY <1>2, <1>4 DEF Cancel, Cancellable, Begins

LEMMA ReceiveBegins ==
    ASSUME TypeOK, Shaped, OrdersTrue, NEW t \in Threads, NEW e \in Events, Receive(t, e)
    PROVE  \E r \in Requests :
             /\ Begins(t, r) /\ r.event = e /\ e \in stripe.raised
             /\ \/ r.pc = "mark" /\ r.order = None /\ r.seen = NoOrder
                \/ /\ r.order \in Orders /\ Exists(r.order) /\ r.seen = order[r.order]
                   /\ \/ r.pc = "subscription" /\ e.kind \in SubKinds /\ e.sub.of = r.order
                      \/ r.pc = "payment_failed" /\ r.seen.payment \in {"confirmed", "refunded"}
                \/ /\ r.order \in Orders /\ Exists(r.order) /\ r.seen = NoOrder
                   /\ r.pc = "reserve" /\ e.kind \in {"checkout", "succeeded"}
                   /\ LinkOf(e.intent).of = r.order
<1> DEFINE link == IF e.kind = "checkout" THEN LinkOf(e.intent) ELSE None
           found == IF e.kind \in SubKinds THEN Subscribed(e.sub) ELSE Found(e.intent, link)
           R(pc, o, row) == [pc |-> pc, event |-> e, order |-> o, seen |-> row]
           Sets(pc, o, row) == req' = [req EXCEPT ![t] = R(pc, o, row)]
           Begun(pc, o, row) == \E r \in Requests :
             Begins(t, r) /\ r.event = e /\ r.pc = pc /\ r.order = o /\ r.seen = row
<1>1. /\ At(t, "idle") /\ e \in stripe.raised /\ order' = order /\ stripe' = stripe
      /\ \/ Sets("mark", None, NoOrder)
         \/ \E o \in found :
              Sets(Handler(e.kind), o, IF Handler(e.kind) = "reserve" THEN NoOrder ELSE order[o])
  BY DEF Receive
<1>2. ASSUME NEW pc \in WebhookPcs, NEW o \in Orders \cup {None}, NEW row \in OrderRows,
             Sets(pc, o, row)
      PROVE  Begun(pc, o, row)
  <2> DEFINE r == R(pc, o, row)
  <2>1. /\ r \in Requests /\ r.event = e /\ r.pc = pc /\ r.order = o /\ r.seen = row
    BY DEF Requests
  <2>2. r.pc # "idle"
    BY <2>1 DEF WebhookPcs, PaymentPcs, SubscriptionPcs
  <2>3. req' = [req EXCEPT ![t] = r]
    BY <1>2
  <2> HIDE DEF r
  <2>4. Becomes(t, r)
    BY <2>1, <2>3, BecomesIs
  <2> QED
    BY <1>1, <2>1, <2>2, <2>4 DEF Begins
<1> HIDE DEF R, Sets, Begun
<1>3. CASE Sets("mark", None, NoOrder)
  <2>1. "mark" \in WebhookPcs /\ NoOrder \in OrderRows
    BY NoOrderType DEF WebhookPcs
  <2>2. Begun("mark", None, NoOrder)
    BY <1>2, <1>3, <2>1
  <2> QED
    BY <1>1, <2>2 DEF Begun
<1>4. ASSUME NEW o \in found,
             Sets(Handler(e.kind), o, IF Handler(e.kind) = "reserve" THEN NoOrder ELSE order[o])
      PROVE  \E r \in Requests :
               /\ Begins(t, r) /\ r.event = e
               /\ \/ /\ r.order \in Orders /\ Exists(r.order) /\ r.seen = order[r.order]
                     /\ \/ r.pc = "subscription" /\ e.kind \in SubKinds /\ e.sub.of = r.order
                        \/ r.pc = "payment_failed" /\ r.seen.payment \in {"confirmed", "refunded"}
                  \/ /\ r.order \in Orders /\ Exists(r.order) /\ r.seen = NoOrder
                     /\ r.pc = "reserve" /\ e.kind \in {"checkout", "succeeded"}
                     /\ LinkOf(e.intent).of = r.order
  <2>0. /\ o \in Orders /\ order[o] \in OrderRows /\ NoOrder \in OrderRows
        /\ RowTrue(o, order[o])
    BY <1>4, StateTypes, NoOrderType DEF Subscribed, Found, OrdersTrue
  <2>1. CASE e.kind \in SubKinds
    <3>1. Handler(e.kind) = "subscription" /\ "subscription" \in WebhookPcs
      BY <2>1 DEF Handler, WebhookPcs, SubscriptionPcs, SubKinds
    <3>2. order[o].sub = e.sub /\ e.sub \in Links
      BY <1>4, <2>1 DEF Subscribed, Events, SubEvents, SubKinds
    <3>3. order[o].sub # None /\ e.sub.of = o
      BY <2>0, <3>2, PaymentsAssumption DEF Links, RowTrue
    <3>4. Exists(o)
      BY <2>0, <3>3, NoOrderType DEF OrdersTrue
    <3>5. Sets("subscription", o, order[o])
      BY <1>4, <3>1
    <3>6. Begun("subscription", o, order[o])
      BY <1>2, <2>0, <3>1, <3>5
    <3> QED
      BY <2>0, <2>1, <3>3, <3>4, <3>6 DEF Begun
  <2>2. CASE e.kind \notin SubKinds
    <3>0. /\ e.kind \in {"checkout", "succeeded", "failed"} /\ e.intent \in Intents
          /\ e.intent # None
      BY <2>2, PaymentsAssumption DEF Events, SubEvents
    <3>1. \/ order[o].intent = e.intent
          \/ /\ e.kind = "checkout" /\ LinkOf(e.intent) # None
             /\ order[o].link = LinkOf(e.intent) \/ order[o].sent = LinkOf(e.intent)
      BY <1>4, <2>2 DEF Found
    <3>2. Exists(o)
      BY <2>0, <3>0, <3>1, NoOrderType DEF OrdersTrue
    <3>3. CASE e.kind = "failed"
      <4>1. Handler(e.kind) = "payment_failed" /\ "payment_failed" \in WebhookPcs
        BY <3>3 DEF Handler, WebhookPcs, SubKinds
      <4>2. order[o].payment \in {"confirmed", "refunded"}
        BY <2>0, <3>0, <3>1, <3>3 DEF OrdersTrue
      <4>3. Sets("payment_failed", o, order[o])
        BY <1>4, <4>1
      <4>4. Begun("payment_failed", o, order[o])
        BY <1>2, <2>0, <4>1, <4>3
      <4> QED
        BY <2>0, <3>2, <4>2, <4>4 DEF Begun
    <3>4. CASE e.kind \in {"checkout", "succeeded"}
      <4>1. Handler(e.kind) = "reserve" /\ "reserve" \in WebhookPcs
        BY <3>4 DEF Handler, WebhookPcs, PaymentPcs, SubKinds
      <4>2. LinkOf(e.intent).of = o
        <5>1. order[o].intent = e.intent => LinkOf(e.intent).of = o
          BY <2>0, <3>0 DEF RowTrue, Credited
        <5> QED
          BY <2>0, <3>1, <5>1 DEF RowTrue
      <4>3. Sets("reserve", o, NoOrder)
        BY <1>4, <4>1
      <4>4. Begun("reserve", o, NoOrder)
        BY <1>2, <2>0, <4>1, <4>3
      <4> QED
        BY <2>0, <3>2, <3>4, <4>2, <4>4 DEF Begun
    <3> QED
      BY <3>0, <3>3, <3>4
  <2> QED
    BY <2>1, <2>2
<1> HIDE DEF found, link
<1> QED
  BY <1>1, <1>3, <1>4

-----------------------------------------------------------------------------
(* The shape of the requests and the types are kept.                       *)

LEMMA ShapedNext ==
    ASSUME TypeOK, Shaped, OrdersTrue, RequestsTrue, StripeTrue, [Next]_vars
    PROVE  Shaped'
<1>a. ASSUME NEW t \in Threads, \E r \in Requests : Becomes(t, r) PROVE Shaped'
  BY <1>a DEF Shaped, Becomes
<1>b. ASSUME NEW t \in Threads, NEW pcs, NEW rows, GoesTo(t, pcs, rows) PROVE Shaped'
  BY <1>a, <1>b DEF GoesTo
<1>c. ASSUME req' = req PROVE Shaped'
  BY <1>c DEF Shaped
<1>1. ASSUME NEW t \in Threads, MakeLink(t) PROVE Shaped'
  BY <1>1, <1>a, MakeLinkGoes
<1>2. ASSUME NEW t \in Threads, DeliverCommit(t) PROVE Shaped'
  BY <1>2, <1>b, DeliverCommitGoes
<1>3. ASSUME NEW t \in Threads, Reserve(t) PROVE Shaped'
  BY <1>3, <1>b, ReserveGoes
<1>4. ASSUME NEW t \in Threads, ConfirmOrder(t) PROVE Shaped'
  BY <1>4, <1>b, ConfirmOrderGoes
<1>5. ASSUME NEW t \in Threads, ConfirmRecord(t) PROVE Shaped'
  BY <1>5, <1>b, ConfirmRecordGoes
<1>6. ASSUME NEW t \in Threads, Announce(t) PROVE Shaped'
  BY <1>6, <1>b, AnnounceGoes
<1>7. ASSUME NEW t \in Threads, CompleteTask(t) \/ PaymentFailed(t) \/ ApplyAccess(t) PROVE Shaped'
  BY <1>7, <1>b, MarkGoes
<1>8. ASSUME NEW t \in Threads, UpdateSubscription(t) PROVE Shaped'
  BY <1>8, <1>b, UpdateSubscriptionGoes
<1>9. ASSUME NEW t \in Threads, FindAgain(t) PROVE Shaped'
  BY <1>9, <1>b, FindAgainGoes
<1>10. ASSUME NEW t \in Threads, Done(t) PROVE Shaped'
  BY <1>10, <1>a, DoneIs
<1>11. ASSUME NEW t \in Threads, ReserveRefund(t) PROVE Shaped'
  BY <1>10, <1>11, <1>b, ReserveRefundGoes
<1>12. ASSUME NEW t \in Threads, PostRefund(t) PROVE Shaped'
  BY <1>12, <1>b, PostRefundGoes
<1>13. ASSUME NEW t \in Threads, RefundOrder(t) PROVE Shaped'
  BY <1>13, <1>b, RefundOrderGoes
<1>14. ASSUME NEW t \in Threads, DeleteSubscription(t) PROVE Shaped'
  BY <1>14, <1>b, DeleteSubscriptionGoes
<1>15. ASSUME NEW t \in Threads,
              \/ DeliverFail(t) \/ TaskFeedback(t) \/ MarkOutcome(t) \/ RecordRefund(t)
              \/ CancelOrder(t)
       PROVE  Shaped'
  BY <1>10, <1>15 DEF DeliverFail, TaskFeedback, MarkOutcome, RecordRefund, CancelOrder
<1>16. ASSUME NEW t \in Threads, Step(t) PROVE Shaped'
  BY <1>16, <1>1, <1>2, <1>3, <1>4, <1>5, <1>6, <1>7, <1>8, <1>9, <1>11, <1>12, <1>13, <1>14, <1>15
  DEF Step
<1>17. ASSUME NEW t \in Threads, NEW o \in Orders, Deliver(t, o) PROVE Shaped'
  BY <1>17, <1>a, DeliverBegins DEF Begins
<1>18. ASSUME NEW t \in Threads, NEW o \in Orders, Cancel(t, o) PROVE Shaped'
  BY <1>18, <1>a, CancelBegins DEF Begins
<1>19. ASSUME NEW t \in Threads, NEW o \in Orders, NEW k \in RefundKeys, Refund(t, o, k)
       PROVE  Shaped'
  BY <1>19, <1>a, RefundBegins DEF Begins
<1>20. ASSUME NEW t \in Threads, NEW e \in Events, Receive(t, e) PROVE Shaped'
  BY <1>20, <1>a, ReceiveBegins DEF Begins
<1>21. CASE Crash
  BY <1>21, DoneIs DEF Crash, Shaped, Idle, Requests
<1>22. CASE \/ UNCHANGED vars
            \/ \E o \in Orders, type \in Types :
                 CreateOrder(o, type) \/ UpdateDeliveryConfig(o, type)
            \/ \E i \in Intents : Decline(i) \/ \E link \in stripe.shown : Pay(i, link)
            \/ \E s \in Links, status \in {"active", "past_due", "canceled"} :
                 SubscriptionTurns(s, status)
  <2>1. req' = req
    BY <1>22 DEF vars, CreateOrder, UpdateDeliveryConfig, Decline, Pay, SubscriptionTurns
  <2> QED
    BY <1>c, <2>1
<1> QED
  BY <1>16, <1>17, <1>18, <1>19, <1>20, <1>21, <1>22 DEF Next

\* Steps other than a request going on from where it is: requests begin, orders
\* are created or retyped, the process dies (Around), and Stripe acts (World).
Around ==
    \/ Crash \/ UNCHANGED vars
    \/ \E o \in Orders, type \in Types : CreateOrder(o, type) \/ UpdateDeliveryConfig(o, type)
    \/ \E t \in Threads :
         \/ \E o \in Orders : Deliver(t, o) \/ Cancel(t, o) \/ \E k \in RefundKeys : Refund(t, o, k)
         \/ \E e \in Events : Receive(t, e)
World ==
    \/ \E i \in Intents : Decline(i) \/ \E link \in stripe.shown : Pay(i, link)
    \/ \E s \in Links, status \in {"active", "past_due", "canceled"} : SubscriptionTurns(s, status)

LEMMA NextIs ==
    ASSUME [Next]_vars PROVE Around \/ World \/ \E t \in Threads : Step(t)
BY DEF Next, Around, World

\* What a step does to the payments on record.
Reserves(t) ==
    LET i == req[t].event.intent IN
    /\ Reserve(t) /\ i \in Intents /\ Charged(i)
    /\ req[t].order \in Orders /\ LinkOf(i).of = req[t].order
    /\ payment[i].status = "absent"
    /\ payment' = [payment EXCEPT ![i] = [status |-> "pending", order |-> req[t].order]]
RecordsPayment(t) ==
    LET i == req[t].event.intent IN
    /\ ConfirmRecord(t) /\ i \in Intents /\ payment[i].status # "absent"
    /\ payment' = [payment EXCEPT ![i].status = "confirmed"]

LEMMA ReserveEvent ==
    ASSUME TypeOK, Shaped, OrdersTrue, RequestsTrue, StripeTrue, NEW t \in Threads,
           req[t].pc = "reserve"
    PROVE  /\ req[t].event \in Events /\ req[t].order \in Orders
           /\ req[t].event.intent \in Intents /\ Charged(req[t].event.intent)
           /\ LinkOf(req[t].event.intent).of = req[t].order
<1>1. /\ req[t].event \in Events /\ req[t].event \in stripe.raised /\ req[t].order \in Orders
      /\ req[t].event.kind \in {"checkout", "succeeded"}
      /\ LinkOf(req[t].event.intent).of = req[t].order
  BY ThreadKnows, SeenType DEF Honest, PaymentPcs, WebhookPcs
<1>2. EventTrue(req[t].event)
  BY <1>1 DEF StripeTrue
<1> QED
  BY <1>1, <1>2 DEF EventTrue, Events, SubEvents, SubKinds

LEMMA ReserveIs ==
    ASSUME TypeOK, Shaped, OrdersTrue, RequestsTrue, StripeTrue, NEW t \in Threads, Reserve(t)
    PROVE  payment' = payment \/ Reserves(t)
<1>1. req[t].pc = "reserve"
  BY ReserveGoes
<1> QED
  BY <1>1, ReserveEvent, ReserveGoes DEF Reserves

LEMMA ConfirmRecordIs ==
    ASSUME TypeOK, Shaped, OrdersTrue, RequestsTrue, NEW t \in Threads, ConfirmRecord(t)
    PROVE  RecordsPayment(t)
<1>1. req[t].pc \in {"record", "record_again"}
  BY DEF ConfirmRecord, At
<1>2. req[t].event.intent \in Credited(req[t].order)
  BY <1>1, ThreadKnows DEF Honest, PaymentPcs
<1>3. req[t].event.intent \in Intents /\ payment[req[t].event.intent].status # "absent"
  BY <1>2 DEF Credited
<1> QED
  BY <1>3 DEF RecordsPayment, ConfirmRecord

LEMMA PaymentNext ==
    ASSUME TypeOK, Shaped, OrdersTrue, RequestsTrue, StripeTrue, [Next]_vars
    PROVE  payment' = payment \/ \E t \in Threads : Reserves(t) \/ RecordsPayment(t)
<1>1. Around => payment' = payment
  BY DEF Around, Crash, vars, CreateOrder, UpdateDeliveryConfig, Deliver, Cancel, Refund, Receive
<1>2. World => payment' = payment
  BY DEF World, Decline, Pay, SubscriptionTurns
<1>3. ASSUME NEW t \in Threads, Step(t), ~Reserve(t), ~ConfirmRecord(t) PROVE payment' = payment
  BY <1>3 DEF Step, MakeLink, DeliverCommit, DeliverFail, TaskFeedback, ConfirmOrder, Announce,
     CompleteTask, PaymentFailed, MarkOutcome, UpdateSubscription, FindAgain, ApplyAccess,
     ReserveRefund, PostRefund, RefundOrder, RecordRefund, DeleteSubscription, CancelOrder
<1> QED
  BY <1>1, <1>2, <1>3, NextIs, ReserveIs, ConfirmRecordIs

\* What a step does to the refunds on record.
ReservesRefund(t) ==
    LET k == req[t].key IN
    /\ ReserveRefund(t) /\ k \in RefundKeys /\ req[t].order \in Orders
    /\ refund[k].status = "absent"
    /\ refund' = [refund EXCEPT ![k] = [status |-> "pending", order |-> req[t].order]]
    /\ GoesTo(t, {"post"}, {order[req[t].order]})
RecordsRefund(t) ==
    LET k == req[t].key IN
    /\ RecordRefund(t) /\ k \in RefundKeys /\ refund[k].status # "absent"
    /\ \E outcome \in {"succeeded", "failed"} :
         /\ refund' = [refund EXCEPT ![k].status = outcome]
         /\ outcome = "succeeded" => RefundOf(refund[k].order) /\ refund[k].order \in Orders

LEMMA ReserveRefundIs ==
    ASSUME TypeOK, Shaped, OrdersTrue, RequestsTrue, NEW t \in Threads, ReserveRefund(t)
    PROVE  refund' = refund \/ ReservesRefund(t)
<1>1. req[t].pc = "refund"
  BY ReserveRefundGoes
<1>2. req[t].key \in RefundKeys /\ req[t].order \in Orders
  BY <1>1, ThreadKnows, SeenType DEF RefundPcs
<1> QED
  BY <1>2, ReserveRefundGoes DEF ReservesRefund

LEMMA RecordRefundIs ==
    ASSUME TypeOK, Shaped, OrdersTrue, RequestsTrue, NEW t \in Threads, RecordRefund(t)
    PROVE  RecordsRefund(t)
<1>1. req[t].pc \in {"refund_record", "refund_failed"}
  BY DEF RecordRefund, At
<1>2. /\ req[t].key \in RefundKeys /\ refund[req[t].key].status # "absent"
      /\ refund[req[t].key].order = req[t].order /\ req[t].order \in Orders
      /\ req[t].pc = "refund_record" => RefundOf(req[t].order)
  BY <1>1, ThreadKnows, SeenType DEF Honest, RefundPcs
<1>3. /\ refund' = [refund EXCEPT ![req[t].key].status = RefundOutcome(req[t].pc)]
      /\ RefundOutcome(req[t].pc) \in {"succeeded", "failed"}
      /\ RefundOutcome(req[t].pc) = "succeeded" => req[t].pc = "refund_record"
  BY DEF RecordRefund, RefundOutcome
<1> QED
  BY <1>2, <1>3 DEF RecordsRefund

LEMMA RefundNext ==
    ASSUME TypeOK, Shaped, OrdersTrue, RequestsTrue, [Next]_vars
    PROVE  refund' = refund \/ \E t \in Threads : ReservesRefund(t) \/ RecordsRefund(t)
<1>1. Around => refund' = refund
  BY DEF Around, Crash, vars, CreateOrder, UpdateDeliveryConfig, Deliver, Cancel, Refund, Receive
<1>2. World => refund' = refund
  BY DEF World, Decline, Pay, SubscriptionTurns
<1>3. ASSUME NEW t \in Threads, Step(t), ~ReserveRefund(t), ~RecordRefund(t) PROVE refund' = refund
  BY <1>3 DEF Step, MakeLink, DeliverCommit, DeliverFail, TaskFeedback, Reserve, ConfirmOrder,
     ConfirmRecord, Announce, CompleteTask, PaymentFailed, MarkOutcome, UpdateSubscription,
     FindAgain, ApplyAccess, PostRefund, RefundOrder, DeleteSubscription, CancelOrder
<1> QED
  BY <1>1, <1>2, <1>3, NextIs, ReserveRefundIs, RecordRefundIs

\* What a step does to what Stripe knows.
Charges(i, link) ==
    /\ i \in Intents /\ link \in Links /\ stripe.intent[i].state = "unused"
    /\ stripe' = [stripe EXCEPT
         !.intent[i] = [state |-> "charged", link |-> link, key |-> None],
         !.raised = @ \cup [kind : {"checkout", "succeeded"}, intent : {i}]]
Declines(i) ==
    /\ i \in Intents
    /\ stripe' = [stripe EXCEPT !.raised = @ \cup {[kind |-> "failed", intent |-> i]}]
Turns(s, status) ==
    /\ s \in Links /\ status \in SubStates \cup {"canceled"} /\ Len(stripe.life[s]) < MaxChanges
    /\ stripe' = Turned(s, status)
    /\ stripe.life[s] # <<>> \/ \E t \in Threads : MakeLink(t) /\ s = req[t].link
Shows(S) == S \subseteq Links /\ stripe' = [stripe EXCEPT !.shown = @ \cup S]
PaysBack(i) ==
    /\ i \in Intents /\ stripe.intent[i].state = "charged"
    /\ \E t \in Threads : PostRefund(t) /\ i = req[t].seen.intent
    /\ Returned(i)
StripeMoves ==
    \/ stripe' = stripe
    \/ \E i \in Intents, link \in Links : Charges(i, link)
    \/ \E i \in Intents : Declines(i) \/ PaysBack(i)
    \/ \E s \in Links, status \in SubStates \cup {"canceled"} : Turns(s, status)
    \/ \E S \in SUBSET Links : Shows(S)

LEMMA MakeLinkTurns ==
    ASSUME TypeOK, Shaped, LinksFresh, NEW t \in Threads, MakeLink(t)
    PROVE  StripeMoves
<1>1. At(t, "deliver") /\ (stripe' = stripe \/ stripe' = Turned(req[t].link, "incomplete"))
  BY DEF MakeLink
<1>2. req[t].link \in Links /\ stripe.life[req[t].link] = <<>>
  BY <1>1 DEF LinksFresh
<1>3. Len(stripe.life[req[t].link]) < MaxChanges
  <2>1. Len(<<>>) = 0 /\ 0 < MaxChanges
    BY PaymentsAssumption
  <2> QED
    BY <1>2, <2>1
<1>4. CASE stripe' = Turned(req[t].link, "incomplete")
  <2>1. Turns(req[t].link, "incomplete") /\ "incomplete" \in SubStates \cup {"canceled"}
    BY <1>1, <1>2, <1>3, <1>4 DEF Turns, SubStates
  <2> QED
    BY <1>2, <2>1 DEF StripeMoves
<1> QED
  BY <1>1, <1>4 DEF StripeMoves

LEMMA DeliverCommitShows ==
    ASSUME TypeOK, Shaped, OrdersTrue, RequestsTrue, NEW t \in Threads, DeliverCommit(t)
    PROVE  StripeMoves
<1> DEFINE link == IF req[t].seen.type = "payment" THEN req[t].link ELSE None
<1>1. req[t].pc = "deliver_commit" /\ stripe' = [stripe EXCEPT !.shown = @ \cup ({link} \ {None})]
  BY DEF DeliverCommit, At
<1>2. req[t].link \in Links \cup {None}
  BY <1>1, ThreadKnows, SeenType DEF DeliverPcs
<1>3. Shows({link} \ {None}) /\ {link} \ {None} \in SUBSET Links
  BY <1>1, <1>2 DEF Shows
<1> QED
  BY <1>3 DEF StripeMoves

LEMMA PostRefundPaysBack ==
    ASSUME Shaped, NEW t \in Threads, PostRefund(t) PROVE StripeMoves
BY PostRefundGoes DEF StripeMoves, PaysBack

LEMMA DeleteSubscriptionTurns ==
    ASSUME TypeOK, Shaped, OrdersTrue, RequestsTrue, NEW t \in Threads, DeleteSubscription(t)
    PROVE  StripeMoves
<1> DEFINE s == req[t].seen.sub
<1>1. req[t].pc = "cancel"
  BY DEF DeleteSubscription, At
<1>2. s \in Links
  <2>1. req[t].seen \in OrderRows /\ s # None
    BY <1>1, ThreadKnows DEF Honest
  <2> QED
    BY <2>1 DEF OrderRows
<1>3. \/ stripe' = stripe
      \/ Alive(s) /\ Len(stripe.life[s]) < MaxChanges /\ stripe' = Turned(s, "canceled")
  BY DEF DeleteSubscription
<1>4. CASE stripe' # stripe
  <2>1. Turns(s, "canceled")
    BY <1>2, <1>3, <1>4 DEF Turns, Alive
  <2> QED
    BY <1>2, <2>1 DEF StripeMoves
<1> QED
  BY <1>4 DEF StripeMoves

LEMMA WorldMoves ==
    ASSUME TypeOK, World PROVE StripeMoves
<1>1. ASSUME NEW i \in Intents, NEW link \in stripe.shown, Pay(i, link) PROVE StripeMoves
  <2>1. link \in Links
    BY StripeTypes
  <2>2. Charges(i, link)
    BY <1>1, <2>1 DEF Pay, Charges
  <2> QED
    BY <2>1, <2>2 DEF StripeMoves
<1>2. ASSUME NEW i \in Intents, Decline(i) PROVE StripeMoves
  <2>1. Declines(i)
    BY <1>2 DEF Decline, Declines
  <2> QED
    BY <2>1 DEF StripeMoves
<1>3. ASSUME NEW s \in Links, NEW status \in {"active", "past_due", "canceled"},
             SubscriptionTurns(s, status)
      PROVE  StripeMoves
  <2>1. Turns(s, status) /\ status \in SubStates \cup {"canceled"}
    BY <1>3 DEF SubscriptionTurns, Turns, Alive, SubStates
  <2> QED
    BY <2>1 DEF StripeMoves
<1> QED
  BY <1>1, <1>2, <1>3 DEF World

LEMMA StripeNext ==
    ASSUME TypeOK, Shaped, OrdersTrue, RequestsTrue, LinksFresh, [Next]_vars
    PROVE  StripeMoves
<1>1. Around => stripe' = stripe
  BY DEF Around, Crash, vars, CreateOrder, UpdateDeliveryConfig, Deliver, Cancel, Refund, Receive
<1>2. ASSUME NEW t \in Threads, Step(t), ~MakeLink(t), ~DeliverCommit(t), ~PostRefund(t),
             ~DeleteSubscription(t)
      PROVE  stripe' = stripe
  BY <1>2 DEF Step, DeliverFail, TaskFeedback, Reserve, ConfirmOrder, ConfirmRecord, Announce,
     CompleteTask, PaymentFailed, MarkOutcome, UpdateSubscription, FindAgain, ApplyAccess,
     ReserveRefund, RefundOrder, RecordRefund, CancelOrder
<1>3. stripe' = stripe => StripeMoves
  BY DEF StripeMoves
<1> QED
  BY <1>1, <1>2, <1>3, NextIs, WorldMoves, MakeLinkTurns, DeliverCommitShows, PostRefundPaysBack,
     DeleteSubscriptionTurns

StripeType == stripe \in
    [shown : SUBSET Links, raised : SUBSET Events,
     life : [Links -> Seq(SubStates \cup {"canceled"})],
     intent : [Intents -> [state : {"unused", "charged", "refunded"},
                           link : Links \cup {None}, key : RefundKeys \cup {None}]]]
StripeGrows ==
    /\ stripe.raised \subseteq stripe'.raised
    /\ \A i \in Intents : stripe.intent[i].state # "unused" =>
         stripe'.intent[i].state # "unused" /\ stripe'.intent[i].link = stripe.intent[i].link
    /\ \A i \in Intents : stripe.intent[i].state = "refunded" =>
         stripe'.intent[i].state = "refunded"
    /\ \A s \in Links : \A n \in DOMAIN stripe.life[s] :
         n \in DOMAIN stripe'.life[s] /\ stripe'.life[s][n] = stripe.life[s][n]
\* What is new is true, and the lives that begin are of links in delivery.
StripeSpeaksTrue ==
    /\ \A e \in stripe'.raised : e \in stripe.raised \/ EventTrue(e)'
    /\ \A i \in Intents : Charged(i)' => LinkOf(i)' \in Links
    /\ \A s \in Links : stripe'.life[s] # stripe.life[s] =>
         stripe.life[s] # <<>> \/ \E t \in Threads : MakeLink(t) /\ s = req[t].link
    /\ \A i \in Intents : stripe'.intent[i].state = "refunded" =>
         \/ stripe.intent[i].state = "refunded"
         \/ \E t \in Threads : PostRefund(t) /\ i = req[t].seen.intent

LEMMA ChargesKeeps ==
    ASSUME TypeOK, StripeTrue, NEW i, NEW link, Charges(i, link)
    PROVE  StripeType' /\ StripeGrows /\ StripeSpeaksTrue
<1> DEFINE new == [kind : {"checkout", "succeeded"}, intent : {i}]
           one == [state |-> "charged", link |-> link, key |-> None]
<1>1. /\ stripe'.shown = stripe.shown /\ stripe'.life = stripe.life
      /\ stripe'.raised = stripe.raised \cup new
      /\ stripe'.intent = [stripe.intent EXCEPT ![i] = one]
      /\ stripe' = [shown |-> stripe'.shown, raised |-> stripe'.raised,
                    life |-> stripe'.life, intent |-> stripe'.intent]
  BY DEF TypeOK, Charges
<1>2. i \in Intents /\ link \in Links /\ stripe.intent[i].state = "unused"
  BY DEF Charges
<1>3. /\ stripe.intent \in [Intents -> [state : {"unused", "charged", "refunded"},
                                        link : Links \cup {None},
                                        key : RefundKeys \cup {None}]]
      /\ stripe.shown \subseteq Links /\ stripe.raised \subseteq Events
      /\ stripe.life \in [Links -> Seq(SubStates \cup {"canceled"})]
  BY StripeTypes
<1>4. /\ one \in [state : {"unused", "charged", "refunded"}, link : Links \cup {None},
                  key : RefundKeys \cup {None}]
      /\ one.state = "charged" /\ one.link = link
  BY <1>2
<1>5. new \subseteq Events
  BY <1>2 DEF Events
<1> HIDE DEF one
<1>6. /\ stripe'.intent[i] = one
      /\ \A j \in Intents : j # i => stripe'.intent[j] = stripe.intent[j]
      /\ stripe'.intent \in [Intents -> [state : {"unused", "charged", "refunded"},
                                         link : Links \cup {None},
                                         key : RefundKeys \cup {None}]]
  BY <1>1, <1>2, <1>3, <1>4
<1>7. \A e \in new : EventTrue(e)'
  BY <1>4, <1>6 DEF EventTrue, SubKinds, Charged
<1> HIDE DEF new
<1>8. StripeType'
  BY <1>1, <1>3, <1>5, <1>6 DEF StripeType
<1>9. StripeGrows
  BY <1>1, <1>2, <1>6 DEF StripeGrows
<1>10. \A j \in Intents : Charged(j)' => LinkOf(j)' \in Links
  BY <1>2, <1>4, <1>6 DEF StripeTrue, Charged, LinkOf
<1> QED
  BY <1>1, <1>2, <1>4, <1>6, <1>7, <1>8, <1>9, <1>10 DEF StripeSpeaksTrue

LEMMA DeclinesKeeps ==
    ASSUME TypeOK, StripeTrue, NEW i, Declines(i)
    PROVE  StripeType' /\ StripeGrows /\ StripeSpeaksTrue
<1> DEFINE e == [kind |-> "failed", intent |-> i]
<1>1. /\ stripe'.shown = stripe.shown /\ stripe'.life = stripe.life
      /\ stripe'.raised = stripe.raised \cup {e} /\ stripe'.intent = stripe.intent
      /\ stripe' = [shown |-> stripe'.shown, raised |-> stripe'.raised,
                    life |-> stripe'.life, intent |-> stripe'.intent]
  BY DEF TypeOK, Declines
<1>2. e \in Events /\ e.kind = "failed"
  BY DEF Declines, Events
<1> HIDE DEF e
<1>3. EventTrue(e)'
  BY <1>2 DEF EventTrue, SubKinds
<1>4. StripeType'
  BY <1>1, <1>2, StripeTypes DEF StripeType
<1>5. StripeGrows
  BY <1>1 DEF StripeGrows
<1>6. \A j \in Intents : Charged(j)' => LinkOf(j)' \in Links
  BY <1>1 DEF StripeTrue, Charged, LinkOf
<1>7. \A j \in Intents : stripe'.intent[j].state = "refunded" =>
         stripe.intent[j].state = "refunded"
  BY <1>1
<1> QED
  BY <1>1, <1>3, <1>4, <1>5, <1>6, <1>7 DEF StripeSpeaksTrue

LEMMA PaysBackKeeps ==
    ASSUME TypeOK, StripeTrue, NEW i, PaysBack(i)
    PROVE  StripeType' /\ StripeGrows /\ StripeSpeaksTrue
<1>0. PICK k \in RefundKeys :
        stripe' = [stripe EXCEPT !.intent[i] = [@ EXCEPT !.state = "refunded", !.key = k]]
  BY DEF PaysBack, Returned
<1> DEFINE one == [stripe.intent[i] EXCEPT !.state = "refunded", !.key = k]
<1>1. /\ stripe'.shown = stripe.shown /\ stripe'.life = stripe.life
      /\ stripe'.raised = stripe.raised
      /\ stripe'.intent = [stripe.intent EXCEPT ![i] = one]
      /\ stripe' = [shown |-> stripe'.shown, raised |-> stripe'.raised,
                    life |-> stripe'.life, intent |-> stripe'.intent]
  BY <1>0 DEF TypeOK
<1>2. i \in Intents /\ stripe.intent[i].state = "charged"
  BY DEF PaysBack
<1>3. /\ stripe.intent \in [Intents -> [state : {"unused", "charged", "refunded"},
                                        link : Links \cup {None},
                                        key : RefundKeys \cup {None}]]
      /\ stripe.shown \subseteq Links /\ stripe.raised \subseteq Events
      /\ stripe.life \in [Links -> Seq(SubStates \cup {"canceled"})]
  BY StripeTypes
<1>4. /\ one \in [state : {"unused", "charged", "refunded"}, link : Links \cup {None},
                  key : RefundKeys \cup {None}]
      /\ one.state = "refunded" /\ one.link = stripe.intent[i].link
  BY <1>2, <1>3
<1> HIDE DEF one
<1>5. /\ stripe'.intent[i] = one
      /\ \A j \in Intents : j # i => stripe'.intent[j] = stripe.intent[j]
      /\ stripe'.intent \in [Intents -> [state : {"unused", "charged", "refunded"},
                                         link : Links \cup {None},
                                         key : RefundKeys \cup {None}]]
  BY <1>1, <1>2, <1>3, <1>4
<1>6. StripeType'
  BY <1>1, <1>3, <1>5 DEF StripeType
<1>7. StripeGrows
  BY <1>1, <1>2, <1>4, <1>5 DEF StripeGrows
<1>8. \A j \in Intents : Charged(j)' => LinkOf(j)' \in Links
  BY <1>2, <1>4, <1>5 DEF StripeTrue, Charged, LinkOf
<1>9. \A j \in Intents : stripe'.intent[j].state = "refunded" =>
         \/ stripe.intent[j].state = "refunded"
         \/ \E t \in Threads : PostRefund(t) /\ j = req[t].seen.intent
  BY <1>5 DEF PaysBack
<1> QED
  BY <1>1, <1>6, <1>7, <1>8, <1>9 DEF StripeSpeaksTrue

LEMMA ShowsKeeps ==
    ASSUME TypeOK, StripeTrue, NEW S, Shows(S)
    PROVE  StripeType' /\ StripeGrows /\ StripeSpeaksTrue
<1>1. /\ stripe'.shown = stripe.shown \cup S /\ stripe'.life = stripe.life
      /\ stripe'.raised = stripe.raised /\ stripe'.intent = stripe.intent
      /\ stripe' = [shown |-> stripe'.shown, raised |-> stripe'.raised,
                    life |-> stripe'.life, intent |-> stripe'.intent]
  BY DEF TypeOK, Shows
<1>2. StripeType'
  BY <1>1, StripeTypes DEF StripeType, Shows
<1>3. StripeGrows
  BY <1>1 DEF StripeGrows
<1>4. \A j \in Intents : Charged(j)' => LinkOf(j)' \in Links
  BY <1>1 DEF StripeTrue, Charged, LinkOf
<1>5. \A j \in Intents : stripe'.intent[j].state = "refunded" =>
         stripe.intent[j].state = "refunded"
  BY <1>1
<1> QED
  BY <1>1, <1>2, <1>3, <1>4, <1>5 DEF StripeSpeaksTrue

LEMMA TurnsKeeps ==
    ASSUME TypeOK, StripeTrue, NEW s, NEW status, Turns(s, status)
    PROVE  StripeType' /\ StripeGrows /\ StripeSpeaksTrue
<1> DEFINE S == SubStates \cup {"canceled"}
           old == stripe.life[s]
           next == Append(old, status)
<1>1. s \in Links /\ status \in S /\ Len(old) < MaxChanges
  BY DEF Turns
<1>2. /\ stripe'.shown = stripe.shown /\ stripe'.intent = stripe.intent
      /\ stripe'.raised = stripe.raised \cup Tells(s, status)
      /\ stripe'.life = [stripe.life EXCEPT ![s] = next]
      /\ stripe' = [shown |-> stripe'.shown, raised |-> stripe'.raised,
                    life |-> stripe'.life, intent |-> stripe'.intent]
  BY <1>1, TurnedIs DEF Turns
<1>3. /\ stripe.life \in [Links -> Seq(S)] /\ old \in Seq(S)
      /\ stripe.shown \subseteq Links /\ stripe.raised \subseteq Events
      /\ stripe.intent \in [Intents -> [state : {"unused", "charged", "refunded"},
                                        link : Links \cup {None},
                                        key : RefundKeys \cup {None}]]
  BY <1>1, StripeTypes
<1>4. /\ next \in Seq(S) /\ Len(old) + 1 \in DOMAIN next /\ next[Len(old) + 1] = status
      /\ \A n \in DOMAIN old : n \in DOMAIN next /\ next[n] = old[n]
  <2> HIDE DEF S, old
  <2> QED
    BY <1>1, <1>3, Appended
<1>5. \A e \in Tells(s, status) :
        /\ e \in Events /\ e.kind \in SubKinds /\ e.sub = s /\ e.nth = Len(old) + 1
        /\ e.kind = "updated" => status # "canceled"
        /\ e.kind = "deleted" => status = "canceled"
        /\ e.kind = "paid" => status = "active"
  BY <1>1, TellsIs
<1> HIDE DEF next, old, S
<1>6. /\ stripe'.life[s] = next /\ \A u \in Links : u # s => stripe'.life[u] = stripe.life[u]
      /\ stripe'.life \in [Links -> Seq(S)]
  BY <1>1, <1>2, <1>3, <1>4
<1>7. \A e \in Tells(s, status) : EventTrue(e)'
  BY <1>4, <1>5, <1>6 DEF EventTrue, SubKinds
<1>8. StripeType'
  <2>1. stripe'.raised \subseteq Events
    BY <1>2, <1>3, <1>5
  <2> QED
    BY <1>2, <1>3, <1>6, <2>1 DEF StripeType, S
<1>9. StripeGrows
  BY <1>1, <1>2, <1>4, <1>6 DEF StripeGrows, old
<1>10. \A j \in Intents : Charged(j)' => LinkOf(j)' \in Links
  BY <1>2 DEF StripeTrue, Charged, LinkOf
<1>11. stripe.life[s] # <<>> \/ \E t \in Threads : MakeLink(t) /\ s = req[t].link
  BY DEF Turns
<1>12. \A j \in Intents : stripe'.intent[j].state = "refunded" =>
         stripe.intent[j].state = "refunded"
  BY <1>2
<1> QED
  BY <1>2, <1>6, <1>7, <1>8, <1>9, <1>10, <1>11, <1>12 DEF StripeSpeaksTrue

LEMMA StripeKept ==
    ASSUME TypeOK, StripeTrue, StripeMoves
    PROVE  StripeType' /\ StripeGrows /\ StripeSpeaksTrue
<1>1. CASE stripe' = stripe
  <2>1. StripeType' /\ StripeGrows
    BY <1>1 DEF TypeOK, StripeType, StripeGrows
  <2> QED
    BY <1>1, <2>1 DEF StripeSpeaksTrue, StripeTrue, Charged, LinkOf
<1> QED
  BY <1>1, ChargesKeeps, DeclinesKeeps, PaysBackKeeps, TurnsKeeps, ShowsKeeps DEF StripeMoves

LEMMA PaymentKept ==
    ASSUME TypeOK, Shaped, OrdersTrue, RequestsTrue, StripeTrue, [Next]_vars
    PROVE  /\ payment' \in [Intents -> [status : {"absent", "pending", "confirmed"},
                                        order : Orders \cup {None}]]
           /\ \A i \in Intents : payment[i].status # "absent" =>
                payment'[i].status # "absent" /\ payment'[i].order = payment[i].order
           /\ \A i \in Intents : payment[i].status = "absent" /\ payment'[i].status # "absent" =>
                Charged(i) /\ \E t \in Threads : Reserves(t) /\ i = req[t].event.intent
<1> DEFINE Rows == [status : {"absent", "pending", "confirmed"}, order : Orders \cup {None}]
<1>1. payment \in [Intents -> Rows]
  BY StateTypes
<1>2. CASE payment' = payment
  BY <1>1, <1>2
<1>3. ASSUME NEW t \in Threads, Reserves(t)
      PROVE  /\ payment' \in [Intents -> Rows]
             /\ \A i \in Intents : payment[i].status # "absent" => payment'[i] = payment[i]
             /\ \A i \in Intents : payment'[i] # payment[i] => Charged(i) /\ i = req[t].event.intent
  <2> DEFINE i == req[t].event.intent
             one == [status |-> "pending", order |-> req[t].order]
  <2>1. /\ i \in Intents /\ Charged(i) /\ req[t].order \in Orders /\ payment[i].status = "absent"
        /\ payment' = [payment EXCEPT ![i] = one]
    BY <1>3 DEF Reserves
  <2>2. one \in Rows
    BY <2>1
  <2> HIDE DEF one, i, Rows
  <2>3. /\ payment' \in [Intents -> Rows]
        /\ \A j \in Intents : j # i => payment'[j] = payment[j]
    BY <1>1, <2>1, <2>2
  <2> QED
    BY <2>1, <2>3 DEF i
<1>4. ASSUME NEW t \in Threads, RecordsPayment(t)
      PROVE  /\ payment' \in [Intents -> Rows]
             /\ \A i \in Intents : payment[i].status # "absent" =>
                  payment'[i].status # "absent" /\ payment'[i].order = payment[i].order
             /\ \A i \in Intents : payment[i].status = "absent" => payment'[i] = payment[i]
  <2> DEFINE i == req[t].event.intent
             one == [payment[i] EXCEPT !.status = "confirmed"]
  <2>1. i \in Intents /\ payment[i].status # "absent" /\ payment' = [payment EXCEPT ![i] = one]
    BY <1>4 DEF RecordsPayment
  <2>2. one \in Rows /\ one.status = "confirmed" /\ one.order = payment[i].order
    BY <1>1, <2>1
  <2> HIDE DEF one, i, Rows
  <2>3. /\ payment' \in [Intents -> Rows] /\ payment'[i] = one
        /\ \A j \in Intents : j # i => payment'[j] = payment[j]
    BY <1>1, <2>1, <2>2
  <2> QED
    BY <2>1, <2>2, <2>3
<1>5. payment' = payment \/ \E t \in Threads : Reserves(t) \/ RecordsPayment(t)
  BY PaymentNext
<1> HIDE DEF Rows
<1>6. payment' \in [Intents -> Rows]
  BY <1>1, <1>3, <1>4, <1>5
<1>7. ASSUME NEW i \in Intents, payment[i].status # "absent"
      PROVE  payment'[i].status # "absent" /\ payment'[i].order = payment[i].order
  BY <1>3, <1>4, <1>5, <1>7
<1>8. ASSUME NEW i \in Intents, payment[i].status = "absent", payment'[i].status # "absent"
      PROVE  Charged(i) /\ \E t \in Threads : Reserves(t) /\ i = req[t].event.intent
  <2>1. payment'[i] # payment[i]
    BY <1>8
  <2> QED
    BY <1>3, <1>4, <1>5, <1>8, <2>1
<1> QED
  BY <1>6, <1>7, <1>8 DEF Rows

LEMMA RefundKept ==
    ASSUME TypeOK, Shaped, OrdersTrue, RequestsTrue, [Next]_vars
    PROVE  /\ refund' \in [RefundKeys -> [status : {"absent", "pending", "succeeded", "failed"},
                                          order : Orders \cup {None}]]
           /\ \A k \in RefundKeys : refund[k].status # "absent" =>
                refund'[k].status # "absent" /\ refund'[k].order = refund[k].order
           /\ \A k \in RefundKeys : refund'[k].status = "succeeded" =>
                \/ refund[k].status = "succeeded"
                \/ /\ refund[k].status # "absent" /\ refund[k].order \in Orders
                   /\ RefundOf(refund[k].order)
<1> DEFINE Rows == [status : {"absent", "pending", "succeeded", "failed"},
                    order : Orders \cup {None}]
           Claim(k) == refund'[k].status = "succeeded" =>
                        \/ refund[k].status = "succeeded"
                        \/ /\ refund[k].status # "absent" /\ refund[k].order \in Orders
                           /\ RefundOf(refund[k].order)
<1>1. refund \in [RefundKeys -> Rows]
  BY StateTypes
<1>2. ASSUME NEW t \in Threads, ReservesRefund(t)
      PROVE  /\ refund' \in [RefundKeys -> Rows]
             /\ \A k \in RefundKeys : refund[k].status # "absent" => refund'[k] = refund[k]
             /\ \A k \in RefundKeys : Claim(k)
  <2> DEFINE k == req[t].key
             one == [status |-> "pending", order |-> req[t].order]
  <2>1. /\ k \in RefundKeys /\ req[t].order \in Orders /\ refund[k].status = "absent"
        /\ refund' = [refund EXCEPT ![k] = one]
    BY <1>2 DEF ReservesRefund
  <2>2. one \in Rows /\ one.status = "pending"
    BY <2>1
  <2> HIDE DEF one, k, Rows
  <2>3. /\ refund' \in [RefundKeys -> Rows] /\ refund'[k] = one
        /\ \A j \in RefundKeys : j # k => refund'[j] = refund[j]
    BY <1>1, <2>1, <2>2
  <2> QED
    BY <2>1, <2>2, <2>3
<1>3. ASSUME NEW t \in Threads, RecordsRefund(t)
      PROVE  /\ refund' \in [RefundKeys -> Rows]
             /\ \A k \in RefundKeys : refund[k].status # "absent" =>
                  refund'[k].status # "absent" /\ refund'[k].order = refund[k].order
             /\ \A k \in RefundKeys : Claim(k)
  <2> DEFINE k == req[t].key
  <2>1. k \in RefundKeys /\ refund[k].status # "absent"
    BY <1>3 DEF RecordsRefund
  <2>2. PICK outcome \in {"succeeded", "failed"} :
          /\ refund' = [refund EXCEPT ![k].status = outcome]
          /\ outcome = "succeeded" => RefundOf(refund[k].order) /\ refund[k].order \in Orders
    BY <1>3 DEF RecordsRefund
  <2> DEFINE one == [refund[k] EXCEPT !.status = outcome]
  <2>3. refund' = [refund EXCEPT ![k] = one]
    BY <2>2
  <2>4. one \in Rows /\ one.status = outcome /\ one.order = refund[k].order
    BY <1>1, <2>1
  <2> HIDE DEF one, k, Rows
  <2>5. /\ refund' \in [RefundKeys -> Rows] /\ refund'[k] = one
        /\ \A j \in RefundKeys : j # k => refund'[j] = refund[j]
    BY <1>1, <2>1, <2>3, <2>4
  <2> QED
    BY <2>1, <2>2, <2>4, <2>5
<1>4. refund' = refund \/ \E t \in Threads : ReservesRefund(t) \/ RecordsRefund(t)
  BY RefundNext
<1>5. refund' = refund => \A k \in RefundKeys : Claim(k)
  OBVIOUS
<1> HIDE DEF Rows, Claim
<1>6. refund' \in [RefundKeys -> Rows]
  BY <1>1, <1>2, <1>3, <1>4
<1>7. ASSUME NEW k \in RefundKeys, refund[k].status # "absent"
      PROVE  refund'[k].status # "absent" /\ refund'[k].order = refund[k].order
  BY <1>2, <1>3, <1>4, <1>7
<1>8. \A k \in RefundKeys : Claim(k)
  BY <1>2, <1>3, <1>4, <1>5
<1> QED
  BY <1>6, <1>7, <1>8 DEF Rows, Claim

\* The remaining variables.
LEMMA TaskNext ==
    ASSUME TypeOK, [Next]_vars PROVE task' \in [Orders -> {"open", "completed"}]
<1>0. task \in [Orders -> {"open", "completed"}]
  BY DEF TypeOK
<1>1. Around => task' = task
  BY DEF Around, Crash, vars, CreateOrder, UpdateDeliveryConfig, Deliver, Cancel, Refund, Receive
<1>2. World => task' = task
  BY DEF World, Decline, Pay, SubscriptionTurns
<1>3. ASSUME NEW t \in Threads, Step(t), ~TaskFeedback(t), ~CompleteTask(t) PROVE task' = task
  BY <1>3 DEF Step, MakeLink, DeliverCommit, DeliverFail, Reserve, ConfirmOrder, ConfirmRecord,
     Announce, PaymentFailed, MarkOutcome, UpdateSubscription, FindAgain, ApplyAccess,
     ReserveRefund, PostRefund, RefundOrder, RecordRefund, DeleteSubscription, CancelOrder
<1>4. ASSUME NEW t \in Threads, TaskFeedback(t) \/ CompleteTask(t)
      PROVE  task' \in [Orders -> {"open", "completed"}]
  BY <1>0, <1>4 DEF TaskFeedback, CompleteTask
<1> QED
  BY <1>0, <1>1, <1>2, <1>3, <1>4, NextIs

LEMMA EventNext ==
    ASSUME TypeOK, [Next]_vars
    PROVE  event' \in [Events -> {"absent", "processing", "fulfilled", "failed"}]
<1> DEFINE S == {"absent", "processing", "fulfilled", "failed"}
<1>0. event \in [Events -> S]
  BY DEF TypeOK
<1>1. Around => \/ event' = event
                \/ \E t \in Threads, e \in Events : Receive(t, e)
  BY DEF Around, Crash, vars, CreateOrder, UpdateDeliveryConfig, Deliver, Cancel, Refund
<1>2. World => event' = event
  BY DEF World, Decline, Pay, SubscriptionTurns
<1>3. ASSUME NEW t \in Threads, Step(t), ~MarkOutcome(t) PROVE event' = event
  BY <1>3 DEF Step, MakeLink, DeliverCommit, DeliverFail, TaskFeedback, Reserve, ConfirmOrder,
     ConfirmRecord, Announce, CompleteTask, PaymentFailed, UpdateSubscription, FindAgain,
     ApplyAccess, ReserveRefund, PostRefund, RefundOrder, RecordRefund, DeleteSubscription,
     CancelOrder
<1>4. ASSUME NEW t \in Threads, MarkOutcome(t) PROVE event' \in [Events -> S]
  <2>1. PICK x \in {"fulfilled", "failed"} : event' = [event EXCEPT ![req[t].event] = x]
    BY <1>4 DEF MarkOutcome
  <2> QED
    BY <1>0, <2>1
<1>5. ASSUME NEW t \in Threads, NEW e \in Events, Receive(t, e) PROVE event' \in [Events -> S]
  <2>1. event' = [event EXCEPT ![e] = "processing"]
    BY <1>5 DEF Receive
  <2> QED
    BY <1>0, <2>1
<1> HIDE DEF S
<1>6. event' \in [Events -> S]
  BY <1>0, <1>1, <1>2, <1>3, <1>4, <1>5, NextIs
<1> QED
  BY <1>6 DEF S

LEMMA BegunNext ==
    ASSUME TypeOK, [Next]_vars
    PROVE  begun' \in 0 .. MaxDeliveries /\ begun <= begun'
<1>0. begun \in 0 .. MaxDeliveries /\ MaxDeliveries \in Nat
  BY PaymentsAssumption DEF TypeOK
<1>1. Around => \/ begun' = begun
                \/ begun < MaxDeliveries /\ begun' = begun + 1
  BY DEF Around, Crash, vars, CreateOrder, UpdateDeliveryConfig, Deliver, Cancel, Refund, Receive
<1>2. World => begun' = begun
  BY DEF World, Decline, Pay, SubscriptionTurns
<1>3. ASSUME NEW t \in Threads, Step(t) PROVE begun' = begun
  BY <1>3 DEF Step, MakeLink, DeliverCommit, DeliverFail, TaskFeedback, Reserve, ConfirmOrder,
     ConfirmRecord, Announce, CompleteTask, PaymentFailed, MarkOutcome, UpdateSubscription,
     FindAgain, ApplyAccess, ReserveRefund, PostRefund, RefundOrder, RecordRefund,
     DeleteSubscription, CancelOrder
<1> QED
  BY <1>0, <1>1, <1>2, <1>3, NextIs

LEMMA CrashesNext ==
    ASSUME TypeOK, [Next]_vars PROVE crashes' \in 0 .. MaxCrashes
<1>0. crashes \in 0 .. MaxCrashes /\ MaxCrashes \in Nat
  BY PaymentsAssumption DEF TypeOK
<1>1. Around => crashes' = crashes \/ (crashes < MaxCrashes /\ crashes' = crashes + 1)
  BY DEF Around, Crash, vars, CreateOrder, UpdateDeliveryConfig, Deliver, Cancel, Refund, Receive
<1>2. World => crashes' = crashes
  BY DEF World, Decline, Pay, SubscriptionTurns
<1>3. ASSUME NEW t \in Threads, Step(t) PROVE crashes' = crashes
  BY <1>3 DEF Step, MakeLink, DeliverCommit, DeliverFail, TaskFeedback, Reserve, ConfirmOrder,
     ConfirmRecord, Announce, CompleteTask, PaymentFailed, MarkOutcome, UpdateSubscription,
     FindAgain, ApplyAccess, ReserveRefund, PostRefund, RefundOrder, RecordRefund,
     DeleteSubscription, CancelOrder
<1> QED
  BY <1>0, <1>1, <1>2, <1>3, NextIs

\* What is announced and asked for.
LEMMA ToldNext ==
    ASSUME TypeOK, Shaped, [Next]_vars
    PROVE  \/ told' = told
           \/ \E t \in Threads :
                /\ Announce(t)
                /\ told' = [told EXCEPT ![req[t].event.intent] = told[req[t].event.intent] + 1]
<1>1. Around => told' = told
  BY DEF Around, Crash, vars, CreateOrder, UpdateDeliveryConfig, Deliver, Cancel, Refund, Receive
<1>2. World => told' = told
  BY DEF World, Decline, Pay, SubscriptionTurns
<1>3. ASSUME NEW t \in Threads, Step(t), ~Announce(t) PROVE told' = told
  BY <1>3 DEF Step, MakeLink, DeliverCommit, DeliverFail, TaskFeedback, Reserve, ConfirmOrder,
     ConfirmRecord, CompleteTask, PaymentFailed, MarkOutcome, UpdateSubscription, FindAgain,
     ApplyAccess, ReserveRefund, PostRefund, RefundOrder, RecordRefund, DeleteSubscription,
     CancelOrder
<1>4. ASSUME NEW t \in Threads, Announce(t)
      PROVE  \/ told' = told
             \/ told' = [told EXCEPT ![req[t].event.intent] = told[req[t].event.intent] + 1]
  BY <1>4, AnnounceGoes
<1> QED
  BY <1>1, <1>2, <1>3, <1>4, NextIs

LEMMA PostsNext ==
    ASSUME [Next]_vars
    PROVE  \/ posts' = posts
           \/ \E t \in Threads :
                PostRefund(t) /\ posts' = [posts EXCEPT ![req[t].key] = posts[req[t].key] + 1]
<1>1. Around => posts' = posts
  BY DEF Around, Crash, vars, CreateOrder, UpdateDeliveryConfig, Deliver, Cancel, Refund, Receive
<1>2. World => posts' = posts
  BY DEF World, Decline, Pay, SubscriptionTurns
<1>3. ASSUME NEW t \in Threads, Step(t), ~PostRefund(t) PROVE posts' = posts
  BY <1>3 DEF Step, MakeLink, DeliverCommit, DeliverFail, TaskFeedback, Reserve, ConfirmOrder,
     ConfirmRecord, Announce, CompleteTask, PaymentFailed, MarkOutcome, UpdateSubscription,
     FindAgain, ApplyAccess, ReserveRefund, RefundOrder, RecordRefund, DeleteSubscription,
     CancelOrder
<1>4. ASSUME NEW t \in Threads, PostRefund(t)
      PROVE  posts' = [posts EXCEPT ![req[t].key] = posts[req[t].key] + 1]
  BY <1>4 DEF PostRefund
<1> QED
  BY <1>1, <1>2, <1>3, <1>4, NextIs

LEMMA TypeNext ==
    ASSUME TypeOK, Shaped, OrdersTrue, RequestsTrue, StripeTrue, LinksFresh, [Next]_vars
    PROVE  TypeOK'
<1>1. order' \in [Orders -> OrderRows]
  BY OrderKept
<1>2. payment' \in [Intents -> [status : {"absent", "pending", "confirmed"},
                                order : Orders \cup {None}]]
  BY PaymentKept
<1>3. refund' \in [RefundKeys -> [status : {"absent", "pending", "succeeded", "failed"},
                                  order : Orders \cup {None}]]
  BY RefundKept
<1>4. task' \in [Orders -> {"open", "completed"}]
  BY TaskNext
<1>5. event' \in [Events -> {"absent", "processing", "fulfilled", "failed"}]
  BY EventNext
<1>6. begun' \in 0 .. MaxDeliveries
  BY BegunNext
<1>7. DOMAIN req' = Threads /\ \A t \in Threads : RequestOK(req'[t])
  <2>1. req' \in [Threads -> Requests]
    BY ShapedNext DEF Shaped
  <2> QED
    BY <2>1, RequestsOK
<1>8. stripe' \in [shown : SUBSET Links, raised : SUBSET Events,
                   life : [Links -> Seq(SubStates \cup {"canceled"})],
                   intent : [Intents -> [state : {"unused", "charged", "refunded"},
                                         link : Links \cup {None},
                                         key : RefundKeys \cup {None}]]]
  BY StripeNext, StripeKept DEF StripeType
<1>9. posts' \in [RefundKeys -> Nat]
  <2>1. posts \in [RefundKeys -> Nat]
    BY StateTypes
  <2>2. ASSUME NEW k, posts' = [posts EXCEPT ![k] = posts[k] + 1] PROVE posts' \in [RefundKeys -> Nat]
    <3>1. CASE k \in RefundKeys
      BY <2>1, <2>2, <3>1
    <3>2. CASE k \notin RefundKeys
      BY <2>1, <2>2, <3>2
    <3> QED
      BY <3>1, <3>2
  <2> QED
    BY <2>1, <2>2, PostsNext
<1>10. told' \in [Intents -> Nat]
  <2>1. told \in [Intents -> Nat]
    BY StateTypes
  <2>2. ASSUME NEW i, told' = [told EXCEPT ![i] = told[i] + 1] PROVE told' \in [Intents -> Nat]
    <3>1. CASE i \in Intents
      BY <2>1, <2>2, <3>1
    <3>2. CASE i \notin Intents
      BY <2>1, <2>2, <3>2
    <3> QED
      BY <3>1, <3>2
  <2> QED
    BY <2>1, <2>2, ToldNext
<1>11. crashes' \in 0 .. MaxCrashes
  BY CrashesNext
<1> QED
  BY <1>1, <1>2, <1>3, <1>4, <1>5, <1>6, <1>7, <1>8, <1>9, <1>10, <1>11, Zenon DEF TypeOK

LEMMA GrowsNext ==
    ASSUME TypeOK, Shaped, OrdersTrue, RequestsTrue, StripeTrue, LinksFresh, [Next]_vars
    PROVE  Grows
<1>1. StripeGrows
  BY StripeNext, StripeKept
<1> QED
  BY <1>1, OrderKept, PaymentKept, RefundKept DEF Grows, StripeGrows

-----------------------------------------------------------------------------
(* What orders, refunds and Stripe say stays true.                         *)

LEMMA OrdersTrueNext ==
    ASSUME TypeOK, Shaped, OrdersTrue, RequestsTrue, StripeTrue, LinksFresh, [Next]_vars
    PROVE  OrdersTrue'
<1>1. TypeOK' /\ Grows /\ order \in [Orders -> OrderRows]
  BY TypeNext, GrowsNext, StateTypes
<1>2. ASSUME NEW o \in Orders
      PROVE  /\ RowTrue(o, order[o])'
             /\ order'[o].intent # None => order'[o].payment \in {"confirmed", "refunded"}
             /\ order'[o].status = "absent" => order'[o] = NoOrder
  <2>1. CASE order'[o] = order[o]
    <3>1. PICK row : row = order[o]
      OBVIOUS
    <3>2. RowTrue(o, row)
      BY <3>1 DEF OrdersTrue
    <3>3. RowTrue(o, row)'
      BY <1>1, <3>2, RowTrueStays
    <3>4. RowTrue(o, order[o])'
      BY <2>1, <3>1, <3>3
    <3> QED
      BY <2>1, <3>4 DEF OrdersTrue, Exists
  <2>2. CASE order'[o] # order[o]
    <3>1. PICK p \in Orders, row \in OrderRows :
            /\ Rewrites(p, row)
            /\ \/ row.intent = order[p].intent /\ row.payment \in {order[p].payment, "refunded"}
               \/ \E t \in Threads : Paid(t, p, row)
      BY <2>2, OrderNext
    <3>2. p = o /\ order'[o] = row /\ RowTrue(o, row) /\ row.status # "absent"
      BY <1>1, <2>2, <3>1 DEF Rewrites
    <3>3. RowTrue(o, row)'
      BY <1>1, <3>2, RowTrueStays
    <3>4. row.intent # None => row.payment \in {"confirmed", "refunded"}
      BY <3>1, <3>2 DEF OrdersTrue, Paid
    <3>5. RowTrue(o, order[o])'
      BY <3>2, <3>3
    <3> QED
      BY <3>2, <3>4, <3>5
  <2> QED
    BY <2>1, <2>2
<1> QED
  BY <1>2 DEF OrdersTrue, Exists

LEMMA StripeTrueNext ==
    ASSUME TypeOK, Shaped, OrdersTrue, RequestsTrue, StripeTrue, LinksFresh, [Next]_vars
    PROVE  StripeTrue'
<1>1. TypeOK' /\ Grows /\ StripeSpeaksTrue
  BY TypeNext, GrowsNext, StripeNext, StripeKept
<1>2. ASSUME NEW e \in stripe'.raised PROVE EventTrue(e)'
  <2>1. CASE e \in stripe.raised
    <3>1. e \in Events /\ EventTrue(e)
      BY <2>1, StripeTypes DEF StripeTrue
    <3> QED
      BY <1>1, <3>1, EventTrueStays
  <2> QED
    BY <1>1, <2>1 DEF StripeSpeaksTrue
<1>3. \A i \in Intents : Charged(i)' => LinkOf(i)' \in Links
  BY <1>1 DEF StripeSpeaksTrue
<1>4. ASSUME NEW i \in Intents, payment'[i].status # "absent" PROVE Charged(i)'
  <2>1. Charged(i)
    BY <1>4, PaymentKept DEF StripeTrue
  <2> QED
    BY <1>1, <2>1, ChargedStays
<1> QED
  BY <1>2, <1>3, <1>4 DEF StripeTrue

LEMMA RefundsTrueNext ==
    ASSUME TypeOK, Shaped, OrdersTrue, RequestsTrue, StripeTrue, LinksFresh, RefundsTrue,
           [Next]_vars
    PROVE  RefundsTrue'
<1>1. TypeOK' /\ Grows
  BY TypeNext, GrowsNext
<1>2. ASSUME NEW k \in RefundKeys, refund'[k].status = "succeeded"
      PROVE  RefundOf(refund[k].order)'
  <2>1. /\ refund[k].status # "absent" /\ RefundOf(refund[k].order)
        /\ refund'[k].order = refund[k].order
    BY <1>2, RefundKept DEF RefundsTrue
  <2>2. PICK o : o = refund[k].order
    OBVIOUS
  <2>3. o \in Orders /\ RefundOf(o)
    <3>1. PICK i \in Credited(o) : stripe.intent[i].state = "refunded"
      BY <2>1, <2>2 DEF RefundOf
    <3>2. /\ i \in Intents /\ payment[i].status # "absent"
          /\ LinkOf(i).of = o /\ LinkOf(i) \in Links
      BY <3>1 DEF Credited, StripeTrue
    <3> QED
      BY <2>1, <2>2, <3>2 DEF Links
  <2>4. RefundOf(o)'
    BY <1>1, <2>3, RefundOfStays
  <2> QED
    BY <2>1, <2>2, <2>4
<1> QED
  BY <1>2 DEF RefundsTrue

-----------------------------------------------------------------------------
(* What requests know stays true: the request that moves.                  *)

LEMMA HonestNext ==
    ASSUME OrdersTrue', NEW q \in Requests, NEW r \in Requests, Honest(q)',
           q.pc # "idle", q.order \in Orders, Like(r, q),
           r.seen \in {q.seen, NoOrder, order'[q.order]},
           r.pc \notin {"deliver", "deliver_commit", "reserve", "payment_failed",
                        "subscription", "refund", "cancel"},
           r.pc \in WebhookPcs => q.pc \in WebhookPcs,
           r.pc \in PaymentPcs =>
             q.pc \in PaymentPcs /\ (q.pc = "reserve" => r.event.intent \in Credited(r.order)'),
           r.pc = "confirm" => r.seen.payment # "confirmed",
           r.pc \in SubscriptionPcs => q.pc \in SubscriptionPcs,
           r.pc \in RefundPcs => /\ q.pc \in RefundPcs
                                 /\ q.pc = "refund" => /\ refund'[r.key].status # "absent"
                                                       /\ refund'[r.key].order = r.order,
           r.pc = "refunded" => /\ r.seen.intent # None
                                /\ stripe'.intent[r.seen.intent].state = "refunded",
           r.pc = "refund_record" => RefundOf(r.order)',
           r.pc = "cancelled" => SubscriptionWas(r.order, "canceled")'
    PROVE  Honest(r)'
<1>0. r.order = q.order /\ None \notin Orders
  BY PaymentsAssumption DEF Like
<1>1. Exists(r.order)'
  BY <1>0, PaymentsAssumption DEF Honest
<1>2. RowTrue(r.order, r.seen)'
  <2>1. RowTrue(q.order, q.seen)'
    BY <1>0 DEF Honest
  <2>2. CASE r.seen = NoOrder
    BY <1>0, <2>2, NoOrderType DEF RowTrue
  <2>3. CASE r.seen = order'[q.order]
    <3>1. RowTrue(q.order, order[q.order])'
      BY DEF OrdersTrue
    <3> QED
      BY <1>0, <2>3, <3>1 DEF RowTrue
  <2>4. CASE r.seen = q.seen
    BY <1>0, <2>1, <2>4
  <2> QED
    BY <2>2, <2>3, <2>4
<1>3. r.pc \in WebhookPcs => r.event = q.event /\ r.event \in stripe'.raised
  BY DEF Like, Honest
<1>4. r.pc \in PaymentPcs => /\ r.event.kind \in {"checkout", "succeeded"}
                             /\ LinkOf(r.event.intent)'.of = r.order
                             /\ r.event.intent \in Credited(r.order)'
  <2> SUFFICES ASSUME r.pc \in PaymentPcs
               PROVE  /\ r.event.kind \in {"checkout", "succeeded"}
                      /\ LinkOf(r.event.intent)'.of = r.order
                      /\ r.event.intent \in Credited(r.order)'
    OBVIOUS
  <2>1. r.event = q.event /\ q.pc \in PaymentPcs
    BY <1>3 DEF WebhookPcs
  <2>2. r.event.kind \in {"checkout", "succeeded"} /\ LinkOf(r.event.intent)'.of = r.order
    BY <1>0, <2>1 DEF Honest
  <2>3. q.pc # "reserve" => r.event.intent \in Credited(r.order)'
    BY <1>0, <2>1 DEF Honest
  <2> QED
    BY <2>1, <2>2, <2>3
<1>5. r.pc \in SubscriptionPcs => r.event.kind \in SubKinds /\ r.event.sub.of = r.order
  BY <1>0, <1>3 DEF Honest, WebhookPcs
<1>6. r.pc \in RefundPcs => refund'[r.key].status # "absent" /\ refund'[r.key].order = r.order
  BY <1>0 DEF Honest, Like
<1> QED
  BY <1>0, <1>1, <1>2, <1>3, <1>4, <1>5, <1>6 DEF Honest

\* What is new about a request.
News(t, r) ==
    /\ r.pc # "idle" =>
         \/ r.seen.intent = None
         \/ req[t].pc # "idle" /\ r.seen.intent = req[t].seen.intent
         \/ \E o \in Orders : r.seen.intent = order[o].intent
    /\ r.pc \in {"confirm", "record", "announce"} =>
         /\ r.event = req[t].event
         /\ \/ r.pc = "confirm" /\ Reserves(t)
            \/ r.pc = "record" /\ req[t].pc = "confirm"
            \/ r.pc = "announce" /\ req[t].pc = "record"
    /\ r.pc = "post" => ReservesRefund(t) /\ r.key = req[t].key
    /\ r.pc = "deliver" => /\ r.link \in Links /\ r.link.n = begun + 1 /\ begun' = begun + 1
                           /\ stripe' = stripe
Moves(t) == \E r \in Requests : Becomes(t, r) /\ Honest(r)' /\ News(t, r)

\* What is known of the request that moves, before and after.
LEMMA MoverKnows ==
    ASSUME TypeOK, Shaped, OrdersTrue, RequestsTrue, StripeTrue, LinksFresh, [Next]_vars,
           NEW t \in Threads, req[t].pc \notin {"idle", "mark"}, NEW q, q = req[t]
    PROVE  /\ q \in Requests /\ Honest(q) /\ Honest(q)' /\ q.order \in Orders
           /\ q.seen \in OrderRows /\ OrdersTrue' /\ TypeOK' /\ Grows
BY ThreadKnows, TypeNext, GrowsNext, OrdersTrueNext, HonestStays

LEMMA MakeLinkMoves ==
    ASSUME TypeOK, Shaped, OrdersTrue, RequestsTrue, StripeTrue, LinksFresh, [Next]_vars,
           NEW t \in Threads, MakeLink(t)
    PROVE  Moves(t)
<1>1. PICK q : q = req[t]
  OBVIOUS
<1>2. PICK r \in Requests :
        /\ Becomes(t, r) /\ r.pc \in {"deliver_commit", "deliver_fail"}
        /\ r.seen = q.seen /\ r.order = q.order /\ r.link \in {q.link, None}
  BY <1>1, MakeLinkGoes
<1>3. q.pc = "deliver" /\ Honest(q)' /\ q.order \in Orders
  BY <1>1, MakeLinkGoes, MoverKnows
<1>4. Honest(r)'
  BY <1>2, <1>3, PaymentsAssumption
  DEF Honest, WebhookPcs, PaymentPcs, SubscriptionPcs, RefundPcs
<1>5. News(t, r)
  BY <1>1, <1>2, <1>3 DEF News
<1> QED
  BY <1>2, <1>4, <1>5 DEF Moves

\* The shape most proofs have: a request of one part goes on to a step pc.
LEMMA GoerIs ==
    ASSUME TypeOK, Shaped, OrdersTrue, RequestsTrue, StripeTrue, LinksFresh, [Next]_vars,
           NEW t \in Threads, req[t].pc \notin {"idle", "mark"},
           NEW pcs, NEW rows, GoesTo(t, pcs, rows)
    PROVE  \E q, r \in Requests :
             /\ q = req[t] /\ Honest(q) /\ Honest(q)' /\ q.order \in Orders /\ q.seen \in OrderRows
             /\ Becomes(t, r) /\ Like(r, q) /\ r.pc \in pcs /\ r.seen \in rows
             /\ r.order = q.order
<1>1. PICK q : q = req[t]
  OBVIOUS
<1>2. PICK r \in Requests : Becomes(t, r) /\ Like(r, req[t]) /\ r.pc \in pcs /\ r.seen \in rows
  BY DEF GoesTo
<1>3. q \in Requests /\ Honest(q) /\ Honest(q)' /\ q.order \in Orders /\ q.seen \in OrderRows
  BY <1>1, MoverKnows
<1> QED
  BY <1>1, <1>2, <1>3 DEF Like

LEMMA DeliverCommitMoves ==
    ASSUME TypeOK, Shaped, OrdersTrue, RequestsTrue, StripeTrue, LinksFresh, [Next]_vars,
           NEW t \in Threads, DeliverCommit(t)
    PROVE  Moves(t)
<1>1. /\ req[t].pc = "deliver_commit" /\ order'[req[t].order].intent = order[req[t].order].intent
      /\ GoesTo(t, {"feedback", "deliver_fail"}, {NoOrder, order'[req[t].order]})
  BY DeliverCommitGoes
<1>2. PICK q, r \in Requests :
        /\ q = req[t] /\ Honest(q)' /\ q.order \in Orders
        /\ Becomes(t, r) /\ Like(r, q) /\ r.pc \in {"feedback", "deliver_fail"}
        /\ r.seen \in {NoOrder, order'[q.order]} /\ r.order = q.order
  BY <1>1, GoerIs
<1>3. Honest(r)'
  BY <1>1, <1>2, OrdersTrueNext, HonestNext DEF WebhookPcs, PaymentPcs, SubscriptionPcs, RefundPcs
<1>4. News(t, r)
  BY <1>1, <1>2, NoOrderType DEF News
<1> QED
  BY <1>2, <1>3, <1>4 DEF Moves

LEMMA ReserveMoves ==
    ASSUME TypeOK, Shaped, OrdersTrue, RequestsTrue, StripeTrue, LinksFresh, [Next]_vars,
           NEW t \in Threads, Reserve(t)
    PROVE  Moves(t)
<1>1. req[t].pc = "reserve" /\ order' = order
  BY ReserveGoes
<1>2. CASE payment' = payment /\ GoesTo(t, {"mark"}, {req[t].seen})
  <2>1. PICK q, r \in Requests :
          /\ q = req[t] /\ Honest(q)' /\ q.order \in Orders
          /\ Becomes(t, r) /\ Like(r, q) /\ r.pc \in {"mark"} /\ r.seen \in {req[t].seen}
          /\ r.order = q.order
    BY <1>1, <1>2, GoerIs
  <2>2. Honest(r)'
    BY <1>1, <2>1, OrdersTrueNext, HonestNext
    DEF WebhookPcs, PaymentPcs, SubscriptionPcs, RefundPcs
  <2>3. News(t, r)
    BY <1>1, <2>1 DEF News
  <2> QED
    BY <2>1, <2>2, <2>3 DEF Moves
<1>3. CASE /\ payment[req[t].event.intent].status = "absent"
           /\ payment' = [payment EXCEPT ![req[t].event.intent] =
                            [status |-> "pending", order |-> req[t].order]]
           /\ \/ GoesTo(t, {"record_again"}, {req[t].seen})
              \/ /\ order[req[t].order].payment # "confirmed"
                 /\ GoesTo(t, {"confirm"}, {order[req[t].order]})
  <2>1. Reserves(t)
    <3>1. payment' # payment
      <4>1. payment' = payment \/ Reserves(t)
        BY ReserveIs
      <4>2. req[t].event.intent \in Intents
        BY <1>1, ReserveEvent
      <4>3. payment \in [Intents -> [status : {"absent", "pending", "confirmed"},
                                     order : Orders \cup {None}]]
        BY StateTypes
      <4> QED
        BY <1>3, <4>2, <4>3
    <3> QED
      BY <3>1, ReserveIs
  <2>2. PICK q, r \in Requests :
          /\ q = req[t] /\ Honest(q)' /\ q.order \in Orders
          /\ Becomes(t, r) /\ Like(r, q) /\ r.pc \in {"record_again", "confirm"}
          /\ r.seen \in {q.seen, order[q.order]} /\ r.order = q.order
          /\ r.pc = "confirm" => r.seen.payment # "confirmed" /\ r.seen = order[q.order]
    <3>1. CASE GoesTo(t, {"record_again"}, {req[t].seen})
      BY <1>1, <3>1, GoerIs
    <3>2. CASE /\ order[req[t].order].payment # "confirmed"
               /\ GoesTo(t, {"confirm"}, {order[req[t].order]})
      BY <1>1, <3>2, GoerIs
    <3> QED
      BY <1>3, <3>1, <3>2
  <2>3. r.event = q.event
    BY <1>1, <2>2 DEF Like, WebhookPcs, PaymentPcs
  <2>4. q.event.intent \in Credited(q.order)'
    <3>1. /\ q.event.intent \in Intents /\ Charged(q.event.intent)
          /\ LinkOf(q.event.intent).of = q.order
          /\ payment' = [payment EXCEPT ![q.event.intent] = [status |-> "pending", order |-> q.order]]
      BY <2>1, <2>2 DEF Reserves
    <3>2. LinkOf(q.event.intent)' = LinkOf(q.event.intent)
      BY <3>1, TypeNext, GrowsNext, ChargedStays
    <3>3. payment'[q.event.intent] = [status |-> "pending", order |-> q.order]
      BY <3>1, StateTypes
    <3> QED
      BY <3>1, <3>2, <3>3 DEF Credited
  <2>5. Honest(r)'
    BY <1>1, <2>2, <2>3, <2>4, OrdersTrueNext, HonestNext
    DEF WebhookPcs, PaymentPcs, SubscriptionPcs, RefundPcs
  <2>6. News(t, r)
    BY <1>1, <2>1, <2>2, <2>3 DEF News
  <2> QED
    BY <2>2, <2>5, <2>6 DEF Moves
<1> QED
  BY <1>2, <1>3, ReserveGoes

LEMMA ConfirmOrderMoves ==
    ASSUME TypeOK, Shaped, OrdersTrue, RequestsTrue, StripeTrue, LinksFresh, [Next]_vars,
           NEW t \in Threads, ConfirmOrder(t)
    PROVE  Moves(t)
<1>1. req[t].pc = "confirm" /\ GoesTo(t, {"record"}, {NoOrder})
  BY ConfirmOrderGoes
<1>2. PICK q, r \in Requests :
        /\ q = req[t] /\ Honest(q)' /\ q.order \in Orders
        /\ Becomes(t, r) /\ Like(r, q) /\ r.pc \in {"record"} /\ r.seen \in {NoOrder}
        /\ r.order = q.order
  BY <1>1, GoerIs
<1>3. Honest(r)'
  BY <1>1, <1>2, OrdersTrueNext, HonestNext DEF WebhookPcs, PaymentPcs, SubscriptionPcs, RefundPcs
<1>4. News(t, r)
  BY <1>1, <1>2, NoOrderType DEF News, Like, WebhookPcs, PaymentPcs
<1> QED
  BY <1>2, <1>3, <1>4 DEF Moves

LEMMA ConfirmRecordMoves ==
    ASSUME TypeOK, Shaped, OrdersTrue, RequestsTrue, StripeTrue, LinksFresh, [Next]_vars,
           NEW t \in Threads, ConfirmRecord(t)
    PROVE  Moves(t)
<1>1. \/ req[t].pc = "record" /\ GoesTo(t, {"announce"}, {req[t].seen})
      \/ req[t].pc = "record_again" /\ GoesTo(t, {"complete"}, {req[t].seen})
  BY ConfirmRecordGoes
<1>2. PICK q, r \in Requests :
        /\ q = req[t] /\ Honest(q)' /\ q.order \in Orders
        /\ Becomes(t, r) /\ Like(r, q) /\ r.seen = q.seen /\ r.order = q.order
        /\ \/ q.pc = "record" /\ r.pc = "announce"
           \/ q.pc = "record_again" /\ r.pc = "complete"
  <2>1. CASE req[t].pc = "record" /\ GoesTo(t, {"announce"}, {req[t].seen})
    BY <2>1, GoerIs
  <2>2. CASE req[t].pc = "record_again" /\ GoesTo(t, {"complete"}, {req[t].seen})
    BY <2>2, GoerIs
  <2> QED
    BY <1>1, <2>1, <2>2
<1>3. Honest(r)'
  BY <1>2, OrdersTrueNext, HonestNext DEF WebhookPcs, PaymentPcs, SubscriptionPcs, RefundPcs
<1>4. News(t, r)
  BY <1>2 DEF News, Like, WebhookPcs, PaymentPcs
<1> QED
  BY <1>2, <1>3, <1>4 DEF Moves

LEMMA AnnounceMoves ==
    ASSUME TypeOK, Shaped, OrdersTrue, RequestsTrue, StripeTrue, LinksFresh, [Next]_vars,
           NEW t \in Threads, Announce(t)
    PROVE  Moves(t)
<1>1. req[t].pc = "announce" /\ GoesTo(t, {"complete", "mark_failed"}, {req[t].seen})
  BY AnnounceGoes
<1>2. PICK q, r \in Requests :
        /\ q = req[t] /\ Honest(q)' /\ q.order \in Orders
        /\ Becomes(t, r) /\ Like(r, q) /\ r.pc \in {"complete", "mark_failed"}
        /\ r.seen \in {req[t].seen} /\ r.order = q.order
  BY <1>1, GoerIs
<1>3. Honest(r)'
  BY <1>1, <1>2, OrdersTrueNext, HonestNext DEF WebhookPcs, PaymentPcs, SubscriptionPcs, RefundPcs
<1>4. News(t, r)
  BY <1>1, <1>2 DEF News
<1> QED
  BY <1>2, <1>3, <1>4 DEF Moves

LEMMA MarkMoves ==
    ASSUME TypeOK, Shaped, OrdersTrue, RequestsTrue, StripeTrue, LinksFresh, [Next]_vars,
           NEW t \in Threads, CompleteTask(t) \/ PaymentFailed(t) \/ ApplyAccess(t)
    PROVE  Moves(t)
<1>1. /\ req[t].pc \in {"complete", "payment_failed", "access"}
      /\ GoesTo(t, {"mark"}, {req[t].seen, NoOrder})
  BY MarkGoes
<1>2. PICK q, r \in Requests :
        /\ q = req[t] /\ Honest(q)' /\ q.order \in Orders
        /\ Becomes(t, r) /\ Like(r, q) /\ r.pc \in {"mark"} /\ r.seen \in {req[t].seen, NoOrder}
        /\ r.order = q.order
  BY <1>1, GoerIs
<1>3. Honest(r)'
  BY <1>1, <1>2, OrdersTrueNext, HonestNext DEF WebhookPcs, PaymentPcs, SubscriptionPcs, RefundPcs
<1>4. News(t, r)
  BY <1>1, <1>2, NoOrderType DEF News
<1> QED
  BY <1>2, <1>3, <1>4 DEF Moves

LEMMA UpdateSubscriptionMoves ==
    ASSUME TypeOK, Shaped, OrdersTrue, RequestsTrue, StripeTrue, LinksFresh, [Next]_vars,
           NEW t \in Threads, UpdateSubscription(t)
    PROVE  Moves(t)
<1>1. req[t].pc = "subscription" /\ GoesTo(t, {"find_again"}, {NoOrder})
  BY UpdateSubscriptionGoes
<1>2. PICK q, r \in Requests :
        /\ q = req[t] /\ Honest(q)' /\ q.order \in Orders
        /\ Becomes(t, r) /\ Like(r, q) /\ r.pc \in {"find_again"} /\ r.seen \in {NoOrder}
        /\ r.order = q.order
  BY <1>1, GoerIs
<1>3. Honest(r)'
  BY <1>1, <1>2, OrdersTrueNext, HonestNext DEF WebhookPcs, PaymentPcs, SubscriptionPcs, RefundPcs
<1>4. News(t, r)
  BY <1>1, <1>2, NoOrderType DEF News
<1> QED
  BY <1>2, <1>3, <1>4 DEF Moves

LEMMA FindAgainMoves ==
    ASSUME TypeOK, Shaped, OrdersTrue, RequestsTrue, StripeTrue, LinksFresh, [Next]_vars,
           NEW t \in Threads, FindAgain(t)
    PROVE  Moves(t)
<1>1. /\ req[t].pc = "find_again" /\ order' = order
      /\ \/ GoesTo(t, {"mark", "mark_failed"}, {req[t].seen})
         \/ GoesTo(t, {"access"}, {order[req[t].order]})
  BY FindAgainGoes
<1>2. PICK q, r \in Requests :
        /\ q = req[t] /\ Honest(q)' /\ q.order \in Orders
        /\ Becomes(t, r) /\ Like(r, q) /\ r.pc \in {"mark", "mark_failed", "access"}
        /\ r.seen \in {q.seen, order[q.order]} /\ r.order = q.order
  <2>1. CASE GoesTo(t, {"mark", "mark_failed"}, {req[t].seen})
    BY <1>1, <2>1, GoerIs
  <2>2. CASE GoesTo(t, {"access"}, {order[req[t].order]})
    BY <1>1, <2>2, GoerIs
  <2> QED
    BY <1>1, <2>1, <2>2
<1>3. Honest(r)'
  BY <1>1, <1>2, OrdersTrueNext, HonestNext DEF WebhookPcs, PaymentPcs, SubscriptionPcs, RefundPcs
<1>4. News(t, r)
  BY <1>1, <1>2 DEF News
<1> QED
  BY <1>2, <1>3, <1>4 DEF Moves

LEMMA EndMoves ==
    ASSUME NEW t \in Threads, NEW r \in Requests, r.pc = "idle", Becomes(t, r)
    PROVE  Moves(t)
<1>1. Honest(r)'
  BY DEF Honest, WebhookPcs, PaymentPcs, SubscriptionPcs, RefundPcs
<1>2. News(t, r)
  BY DEF News
<1> QED
  BY <1>1, <1>2 DEF Moves

LEMMA ReserveRefundMoves ==
    ASSUME TypeOK, Shaped, OrdersTrue, RequestsTrue, StripeTrue, LinksFresh, [Next]_vars,
           NEW t \in Threads, ReserveRefund(t)
    PROVE  Moves(t)
<1>1. req[t].pc = "refund" /\ order' = order
  BY ReserveRefundGoes
<1>2. CASE Done(t)
  BY <1>2, DoneIs, EndMoves
<1>3. CASE ~Done(t)
  <2>1. GoesTo(t, {"post"}, {order[req[t].order]})
    BY <1>3, ReserveRefundGoes
  <2>2. PICK q, r \in Requests :
          /\ q = req[t] /\ Honest(q)' /\ q.order \in Orders
          /\ Becomes(t, r) /\ Like(r, q) /\ r.pc \in {"post"} /\ r.seen \in {order[q.order]}
          /\ r.order = q.order
    BY <1>1, <2>1, GoerIs
  <2>3. ReservesRefund(t)
    <3>1. /\ refund[req[t].key].status = "absent"
          /\ refund' = [refund EXCEPT ![req[t].key] = [status |-> "pending", order |-> req[t].order]]
      BY <1>3, ReserveRefundGoes
    <3>2. req[t].key \in RefundKeys
      BY <1>1, ThreadKnows, SeenType DEF RefundPcs
    <3> QED
      BY <2>1, <2>2, <3>1, <3>2 DEF ReservesRefund
  <2>4. r.key = q.key /\ refund'[r.key] = [status |-> "pending", order |-> q.order]
    <3>1. r.key = q.key
      BY <1>1, <2>2 DEF Like, RefundPcs
    <3>2. /\ q.key \in RefundKeys
          /\ refund' = [refund EXCEPT ![q.key] = [status |-> "pending", order |-> q.order]]
      BY <2>2, <2>3 DEF ReservesRefund
    <3> QED
      BY <3>1, <3>2, StateTypes
  <2>5. Honest(r)'
    BY <1>1, <2>2, <2>4, OrdersTrueNext, HonestNext
    DEF WebhookPcs, PaymentPcs, SubscriptionPcs, RefundPcs
  <2>6. News(t, r)
    BY <1>1, <2>2, <2>3, <2>4 DEF News
  <2> QED
    BY <2>2, <2>5, <2>6 DEF Moves
<1> QED
  BY <1>2, <1>3

LEMMA PostRefundMoves ==
    ASSUME TypeOK, Shaped, OrdersTrue, RequestsTrue, StripeTrue, LinksFresh, [Next]_vars,
           NEW t \in Threads, PostRefund(t)
    PROVE  Moves(t)
<1>1. req[t].pc = "post"
  BY PostRefundGoes
<1>2. PICK q, r \in Requests :
        /\ q = req[t] /\ Honest(q)' /\ q.order \in Orders
        /\ Becomes(t, r) /\ Like(r, q) /\ r.pc \in {"refunded", "refund_failed"}
        /\ r.seen = q.seen /\ r.order = q.order
        /\ r.pc = "refunded" => PaysBack(q.seen.intent)
  <2>1. CASE /\ GoesTo(t, {"refunded", "refund_failed"}, {req[t].seen})
             /\ PaysBack(req[t].seen.intent)
    BY <1>1, <2>1, GoerIs
  <2>2. CASE GoesTo(t, {"refund_failed"}, {req[t].seen})
    BY <1>1, <2>2, GoerIs
  <2> QED
    BY <2>1, <2>2, PostRefundGoes DEF PaysBack
<1>3. r.pc = "refunded" => r.seen.intent # None /\ stripe'.intent[r.seen.intent].state = "refunded"
  <2> SUFFICES ASSUME r.pc = "refunded"
               PROVE  r.seen.intent # None /\ stripe'.intent[r.seen.intent].state = "refunded"
    OBVIOUS
  <2>1. r.seen.intent \in Intents /\ r.seen.intent # None
    BY <1>2, PaymentsAssumption DEF PaysBack
  <2>2. PICK k \in RefundKeys : stripe' =
          [stripe EXCEPT !.intent[r.seen.intent] = [@ EXCEPT !.state = "refunded", !.key = k]]
    BY <1>2 DEF PaysBack, Returned
  <2> QED
    BY <2>1, <2>2 DEF TypeOK
<1>4. Honest(r)'
  BY <1>1, <1>2, <1>3, OrdersTrueNext, HonestNext
  DEF WebhookPcs, PaymentPcs, SubscriptionPcs, RefundPcs, Honest, Like
<1>5. News(t, r)
  BY <1>1, <1>2 DEF News
<1> QED
  BY <1>2, <1>4, <1>5 DEF Moves

LEMMA RefundOrderMoves ==
    ASSUME TypeOK, Shaped, OrdersTrue, RequestsTrue, StripeTrue, LinksFresh, [Next]_vars,
           NEW t \in Threads, RefundOrder(t)
    PROVE  Moves(t)
<1>1. req[t].pc = "refunded" /\ GoesTo(t, {"refund_record"}, {NoOrder})
  BY RefundOrderGoes
<1>2. PICK q, r \in Requests :
        /\ q = req[t] /\ Honest(q)' /\ q.order \in Orders
        /\ Becomes(t, r) /\ Like(r, q) /\ r.pc \in {"refund_record"} /\ r.seen \in {NoOrder}
        /\ r.order = q.order
  BY <1>1, GoerIs
<1>3. RefundOf(q.order)'
  <2>1. RefundOf(q.order)
    BY <1>2, RefundOrderWrites
  <2> QED
    BY <1>2, <2>1, TypeNext, GrowsNext, RefundOfStays
<1>4. Honest(r)'
  BY <1>1, <1>2, <1>3, OrdersTrueNext, HonestNext
  DEF WebhookPcs, PaymentPcs, SubscriptionPcs, RefundPcs, Honest, Like
<1>5. News(t, r)
  BY <1>1, <1>2, NoOrderType DEF News
<1> QED
  BY <1>2, <1>4, <1>5 DEF Moves

LEMMA DeleteSubscriptionMoves ==
    ASSUME TypeOK, Shaped, OrdersTrue, RequestsTrue, StripeTrue, LinksFresh, [Next]_vars,
           NEW t \in Threads, DeleteSubscription(t)
    PROVE  Moves(t)
<1>1. req[t].pc = "cancel"
  BY DeleteSubscriptionGoes
<1>2. PICK q, r \in Requests :
        /\ q = req[t] /\ Honest(q) /\ Honest(q)' /\ q.order \in Orders /\ q.seen \in OrderRows
        /\ Becomes(t, r) /\ Like(r, q) /\ r.pc \in {"cancelled", "give_up"}
        /\ r.seen = q.seen /\ r.order = q.order
        /\ r.pc = "cancelled" => /\ Len(stripe.life[q.seen.sub]) < MaxChanges
                                 /\ stripe' = Turned(q.seen.sub, "canceled")
  <2>1. CASE /\ GoesTo(t, {"cancelled", "give_up"}, {req[t].seen})
             /\ Len(stripe.life[req[t].seen.sub]) < MaxChanges
             /\ stripe' = Turned(req[t].seen.sub, "canceled")
    BY <1>1, <2>1, GoerIs
  <2>2. CASE GoesTo(t, {"give_up"}, {req[t].seen})
    BY <1>1, <2>2, GoerIs
  <2> QED
    BY <2>1, <2>2, DeleteSubscriptionGoes
<1>3. r.pc = "cancelled" => SubscriptionWas(q.order, "canceled")'
  <2> SUFFICES ASSUME r.pc = "cancelled" PROVE SubscriptionWas(q.order, "canceled")'
    OBVIOUS
  <2> DEFINE s == q.seen.sub
             S == SubStates \cup {"canceled"}
             old == stripe.life[s]
             next == Append(old, "canceled")
  <2>1. s \in Links /\ s.of = q.order
    <3>1. s # None /\ RowTrue(q.order, q.seen)
      BY <1>1, <1>2, PaymentsAssumption DEF Honest
    <3> QED
      BY <1>2, <3>1 DEF RowTrue, OrderRows
  <2>2. old \in Seq(S) /\ "canceled" \in S /\ stripe.life \in [Links -> Seq(S)]
    BY <2>1, StripeTypes
  <2>3. stripe'.life = [stripe.life EXCEPT ![s] = next]
    BY <1>2, <2>1, TurnedIs
  <2>4. Len(old) + 1 \in DOMAIN next /\ next[Len(old) + 1] = "canceled"
    <3> HIDE DEF S, old
    <3> QED
      BY <2>2, Appended
  <2>5. stripe'.life[s] = next
    <3> HIDE DEF next
    <3> QED
      BY <2>1, <2>2, <2>3
  <2> HIDE DEF next
  <2> QED
    BY <2>1, <2>4, <2>5 DEF SubscriptionWas, HasBeen
<1>4. Honest(r)'
  BY <1>1, <1>2, <1>3, OrdersTrueNext, HonestNext
  DEF WebhookPcs, PaymentPcs, SubscriptionPcs, RefundPcs, Honest, Like
<1>5. News(t, r)
  BY <1>1, <1>2 DEF News
<1> QED
  BY <1>2, <1>4, <1>5 DEF Moves

\* The requests that are begun know what they read.
LEMMA BeginnerKnows ==
    ASSUME TypeOK, Shaped, OrdersTrue, RequestsTrue, StripeTrue, LinksFresh, [Next]_vars,
           NEW t \in Threads, NEW r \in Requests, Begins(t, r), r.order \in Orders,
           Exists(r.order), r.seen \in {NoOrder, order[r.order]}
    PROVE  /\ r.order # None /\ Exists(r.order)' /\ RowTrue(r.order, r.seen)
           /\ RowTrue(r.order, r.seen)'
           /\ r.seen.intent = None \/ \E o \in Orders : r.seen.intent = order[o].intent
<1>1. r.order # None /\ Exists(r.order)'
  BY PaymentsAssumption DEF Begins, Exists
<1>2. RowTrue(r.order, r.seen)
  BY NoOrderTrue DEF OrdersTrue
<1> QED
  BY <1>1, <1>2, TypeNext, GrowsNext, RowTrueStays, NoOrderType

LEMMA DeliverMoves ==
    ASSUME TypeOK, Shaped, OrdersTrue, RequestsTrue, StripeTrue, LinksFresh, [Next]_vars,
           NEW t \in Threads, NEW o \in Orders, Deliver(t, o)
    PROVE  Moves(t)
<1>1. PICK r \in Requests :
        /\ Begins(t, r) /\ r.pc = "deliver" /\ r.order = o /\ r.seen = order[o]
        /\ r.link \in Links /\ r.link.of = o /\ r.link.n = begun + 1 /\ begun' = begun + 1
        /\ Exists(o)
  BY DeliverBegins
<1>2. Honest(r)'
  BY <1>1, BeginnerKnows DEF Honest, WebhookPcs, PaymentPcs, SubscriptionPcs, RefundPcs
<1>3. News(t, r)
  BY <1>1 DEF News, Begins
<1> QED
  BY <1>1, <1>2, <1>3 DEF Moves, Begins

LEMMA RefundMoves ==
    ASSUME TypeOK, Shaped, OrdersTrue, RequestsTrue, StripeTrue, LinksFresh, [Next]_vars,
           NEW t \in Threads, NEW o \in Orders, NEW k \in RefundKeys, Refund(t, o, k)
    PROVE  Moves(t)
<1>1. PICK r \in Requests :
        /\ Begins(t, r) /\ r.pc = "refund" /\ r.order = o /\ r.seen = order[o]
        /\ order[o].payment = "confirmed"
  BY RefundBegins
<1>2. Exists(o)
  BY <1>1, NoOrderType DEF OrdersTrue
<1>3. Honest(r)'
  BY <1>1, <1>2, BeginnerKnows DEF Honest, WebhookPcs, PaymentPcs, SubscriptionPcs, RefundPcs
<1>4. News(t, r)
  BY <1>1 DEF News, Begins
<1> QED
  BY <1>1, <1>3, <1>4 DEF Moves, Begins

LEMMA CancelMoves ==
    ASSUME TypeOK, Shaped, OrdersTrue, RequestsTrue, StripeTrue, LinksFresh, [Next]_vars,
           NEW t \in Threads, NEW o \in Orders, Cancel(t, o)
    PROVE  Moves(t)
<1>1. PICK r \in Requests :
        /\ Begins(t, r) /\ r.pc = "cancel" /\ r.order = o /\ r.seen = order[o]
        /\ order[o].sub # None
  BY CancelBegins
<1>2. Exists(o)
  BY <1>1, NoOrderType DEF OrdersTrue
<1>3. Honest(r)'
  BY <1>1, <1>2, BeginnerKnows DEF Honest, WebhookPcs, PaymentPcs, SubscriptionPcs, RefundPcs
<1>4. News(t, r)
  BY <1>1 DEF News, Begins
<1> QED
  BY <1>1, <1>3, <1>4 DEF Moves, Begins

LEMMA ReceiveMoves ==
    ASSUME TypeOK, Shaped, OrdersTrue, RequestsTrue, StripeTrue, LinksFresh, [Next]_vars,
           NEW t \in Threads, NEW e \in Events, Receive(t, e)
    PROVE  Moves(t)
<1>1. PICK r \in Requests :
        /\ Begins(t, r) /\ r.event = e /\ e \in stripe.raised
        /\ \/ r.pc = "mark" /\ r.order = None /\ r.seen = NoOrder
           \/ /\ r.order \in Orders /\ Exists(r.order) /\ r.seen = order[r.order]
              /\ \/ r.pc = "subscription" /\ e.kind \in SubKinds /\ e.sub.of = r.order
                 \/ r.pc = "payment_failed" /\ r.seen.payment \in {"confirmed", "refunded"}
           \/ /\ r.order \in Orders /\ Exists(r.order) /\ r.seen = NoOrder
              /\ r.pc = "reserve" /\ e.kind \in {"checkout", "succeeded"}
              /\ LinkOf(e.intent).of = r.order
  BY ReceiveBegins
<1>2. r.event \in stripe'.raised
  BY <1>1 DEF Begins
<1>3. CASE r.pc = "mark" /\ r.order = None /\ r.seen = NoOrder
  <2>1. Honest(r)'
    BY <1>2, <1>3 DEF Honest, PaymentPcs, SubscriptionPcs, RefundPcs
  <2>2. News(t, r)
    BY <1>3, NoOrderType DEF News
  <2> QED
    BY <1>1, <2>1, <2>2 DEF Moves, Begins
<1>4. CASE r.pc = "subscription" /\ r.order # None
  <2>1. Honest(r)'
    BY <1>1, <1>2, <1>4, BeginnerKnows DEF Honest, PaymentPcs, SubscriptionPcs, RefundPcs
  <2>2. News(t, r)
    BY <1>1, <1>4, BeginnerKnows DEF News
  <2> QED
    BY <1>1, <2>1, <2>2 DEF Moves, Begins
<1>5. CASE r.pc = "payment_failed" /\ r.order # None
  <2>1. Honest(r)'
    BY <1>1, <1>2, <1>5, BeginnerKnows DEF Honest, PaymentPcs, SubscriptionPcs, RefundPcs
  <2>2. News(t, r)
    BY <1>1, <1>5, BeginnerKnows DEF News
  <2> QED
    BY <1>1, <2>1, <2>2 DEF Moves, Begins
<1>6. CASE r.pc = "reserve" /\ r.order # None
  <2>1. LinkOf(r.event.intent)'.of = r.order
    BY <1>1, <1>6 DEF Begins, LinkOf
  <2>2. Honest(r)'
    BY <1>1, <1>2, <1>6, <2>1, BeginnerKnows DEF Honest, PaymentPcs, SubscriptionPcs, RefundPcs
  <2>3. News(t, r)
    BY <1>1, <1>6, NoOrderType DEF News
  <2> QED
    BY <1>1, <2>2, <2>3 DEF Moves, Begins
<1> QED
  BY <1>1, <1>3, <1>4, <1>5, <1>6, PaymentsAssumption

LEMMA RequestEndMoves ==
    ASSUME Shaped, NEW t \in Threads,
           \/ DeliverFail(t) \/ TaskFeedback(t) \/ MarkOutcome(t) \/ RecordRefund(t) \/ CancelOrder(t)
    PROVE  Moves(t)
<1>1. Done(t)
  BY DEF DeliverFail, TaskFeedback, MarkOutcome, RecordRefund, CancelOrder
<1> QED
  BY <1>1, DoneIs, EndMoves

\* What a step does to the requests: one of them moves, or all are gone.
LEMMA RequestsNext ==
    ASSUME TypeOK, Shaped, OrdersTrue, RequestsTrue, StripeTrue, LinksFresh, [Next]_vars
    PROVE  \/ req' = req
           \/ \A t \in Threads : req'[t] = Idle
           \/ \E t \in Threads : Moves(t)
<1>1. ASSUME NEW t \in Threads, Step(t) PROVE Moves(t)
  BY <1>1, MakeLinkMoves, DeliverCommitMoves, ReserveMoves, ConfirmOrderMoves,
     ConfirmRecordMoves, AnnounceMoves, MarkMoves, UpdateSubscriptionMoves, FindAgainMoves,
     ReserveRefundMoves, PostRefundMoves, RefundOrderMoves, DeleteSubscriptionMoves,
     RequestEndMoves
  DEF Step
<1>2. Crash => \A t \in Threads : req'[t] = Idle
  BY DEF Crash
<1>3. World => req' = req
  BY DEF World, Decline, Pay, SubscriptionTurns
<1>4. \A o \in Orders, type \in Types :
        CreateOrder(o, type) \/ UpdateDeliveryConfig(o, type) => req' = req
  BY DEF CreateOrder, UpdateDeliveryConfig
<1>5. UNCHANGED vars => req' = req
  BY DEF vars
<1> QED
  BY <1>1, <1>2, <1>3, <1>4, <1>5, NextIs, DeliverMoves, RefundMoves, CancelMoves, ReceiveMoves
  DEF Around

LEMMA RequestsTrueNext ==
    ASSUME TypeOK, Shaped, OrdersTrue, RequestsTrue, StripeTrue, LinksFresh, [Next]_vars
    PROVE  RequestsTrue'
<1>1. ASSUME NEW t \in Threads, req'[t] = req[t] PROVE Honest(req[t])'
  <2>1. PICK r : r = req[t]
    OBVIOUS
  <2>2. r \in Requests /\ Honest(r)
    BY <2>1 DEF Shaped, RequestsTrue
  <2>3. Honest(r)'
    BY <2>2, TypeNext, GrowsNext, HonestStays
  <2> QED
    BY <1>1, <2>1, <2>3 DEF Honest
<1>2. ASSUME NEW t \in Threads, req'[t] = Idle PROVE Honest(req[t])'
  BY <1>2 DEF Honest, Idle, WebhookPcs, PaymentPcs, SubscriptionPcs, RefundPcs
<1>3. ASSUME NEW t \in Threads, Moves(t) PROVE \A u \in Threads : Honest(req[u])'
  <2>1. PICK r \in Requests : Becomes(t, r) /\ Honest(r)'
    BY <1>3 DEF Moves
  <2>2. req'[t] = r /\ \A u \in Threads : u # t => req'[u] = req[u]
    BY <2>1 DEF Becomes
  <2>3. Honest(req[t])'
    BY <2>1, <2>2 DEF Honest
  <2> QED
    BY <1>1, <2>2, <2>3
<1>4. req' = req => \A t \in Threads : req'[t] = req[t]
  OBVIOUS
<1> QED
  BY <1>1, <1>2, <1>3, <1>4, RequestsNext DEF RequestsTrue

-----------------------------------------------------------------------------
(* Links are used once.                                                    *)

LEMMA DeliverNext ==
    ASSUME TypeOK, Shaped, OrdersTrue, RequestsTrue, StripeTrue, LinksFresh, [Next]_vars,
           NEW u \in Threads, At(u, "deliver")'
    PROVE  \/ req'[u] = req[u] /\ At(u, "deliver")
           \/ /\ req'[u].link \in Links /\ req'[u].link.n = begun + 1 /\ begun' = begun + 1
              /\ stripe' = stripe /\ \A v \in Threads : v # u => req'[v] = req[v]
<1>1. CASE req' = req
  BY <1>1 DEF At
<1>2. ASSUME \A t \in Threads : req'[t] = Idle PROVE FALSE
  BY <1>2 DEF At, Idle
<1>3. ASSUME NEW t \in Threads, Moves(t), t # u PROVE req'[u] = req[u] /\ At(u, "deliver")
  BY <1>3 DEF Moves, Becomes, At
<1>4. CASE Moves(u)
  BY <1>4 DEF Moves, Becomes, At, News
<1> QED
  BY <1>1, <1>2, <1>3, <1>4, RequestsNext

LEMMA LinksFreshNext ==
    ASSUME TypeOK, Shaped, OrdersTrue, RequestsTrue, StripeTrue, LinksFresh, [Next]_vars
    PROVE  LinksFresh'
<1>1. begun \in Nat /\ begun' \in Nat /\ begun <= begun'
  BY StateTypes, BegunNext, PaymentsAssumption
<1>2. \A s \in Links : s.n \in Nat
  BY PaymentsAssumption DEF Links
<1>3. \A s \in Links : stripe'.life[s] # stripe.life[s] =>
        stripe.life[s] # <<>> \/ \E t \in Threads : MakeLink(t) /\ s = req[t].link
  BY StripeNext, StripeKept DEF StripeSpeaksTrue
<1>4. \A t \in Threads : MakeLink(t) => At(t, "deliver") /\ ~At(t, "deliver")'
  BY MakeLinkGoes DEF Becomes, At
<1>5. ASSUME NEW s \in Links, stripe'.life[s] # <<>> PROVE s.n <= begun'
  <2>1. CASE stripe.life[s] # <<>>
    <3>1. s.n <= begun
      BY <2>1 DEF LinksFresh
    <3> QED
      BY <1>1, <1>2, <3>1
  <2>2. CASE stripe.life[s] = <<>>
    <3>1. PICK t \in Threads : MakeLink(t) /\ s = req[t].link
      BY <1>3, <1>5, <2>2
    <3>2. s.n <= begun
      BY <1>4, <3>1 DEF LinksFresh
    <3> QED
      BY <1>1, <1>2, <3>2
  <2> QED
    BY <2>1, <2>2
<1>6. ASSUME NEW u \in Threads, At(u, "deliver")'
      PROVE  /\ req'[u].link \in Links /\ req'[u].link.n <= begun'
             /\ stripe'.life[req'[u].link] = <<>>
  <2>1. CASE req'[u] = req[u] /\ At(u, "deliver")
    <3>1. req[u].link \in Links /\ req[u].link.n <= begun /\ stripe.life[req[u].link] = <<>>
      BY <2>1 DEF LinksFresh
    <3>2. stripe'.life[req[u].link] = <<>>
      BY <1>3, <1>4, <1>6, <2>1, <3>1 DEF LinksFresh
    <3> QED
      BY <1>1, <1>2, <2>1, <3>1, <3>2
  <2>2. CASE /\ req'[u].link \in Links /\ req'[u].link.n = begun + 1 /\ begun' = begun + 1
             /\ stripe' = stripe
    <3>1. ~(req'[u].link.n <= begun)
      BY <1>1, <2>2
    <3>2. stripe.life[req'[u].link] = <<>>
      BY <2>2, <3>1 DEF LinksFresh
    <3> QED
      BY <1>1, <2>2, <3>2
  <2> QED
    BY <1>6, <2>1, <2>2, DeliverNext
<1>7. ASSUME NEW u \in Threads, NEW v \in Threads, At(u, "deliver")', At(v, "deliver")',
             req'[u].link = req'[v].link
      PROVE  u = v
  <2> SUFFICES ASSUME u # v PROVE FALSE
    OBVIOUS
  <2>1. CASE req'[u] = req[u] /\ At(u, "deliver") /\ req'[v] = req[v] /\ At(v, "deliver")
    BY <1>7, <2>1 DEF LinksFresh
  <2>2. ASSUME NEW a \in Threads, NEW b \in Threads, a # b, req'[a].link = req'[b].link,
               req'[a].link.n = begun + 1, req'[b] = req[b], At(b, "deliver")'
        PROVE  FALSE
    <3>1. req[b].link \in Links /\ req[b].link.n <= begun
      BY <2>2 DEF LinksFresh, At
    <3> QED
      BY <1>1, <2>2, <3>1
  <2> QED
    BY <1>7, <2>1, <2>2, DeliverNext
<1> QED
  BY <1>5, <1>6, <1>7 DEF LinksFresh, At

-----------------------------------------------------------------------------
(* A payment is announced once.                                            *)

LEMMA HandlesNext ==
    ASSUME TypeOK, Shaped, OrdersTrue, RequestsTrue, StripeTrue, LinksFresh, [Next]_vars,
           NEW i \in Intents, NEW t \in Threads, Handles(t, i)'
    PROVE  \/ /\ Handles(t, i)
              /\ \/ req'[t] = req[t]
                 \/ req[t].pc = "confirm" /\ req'[t].pc = "record"
                 \/ req[t].pc = "record" /\ req'[t].pc = "announce"
           \/ /\ Reserves(t) /\ i = req[t].event.intent
              /\ \A u \in Threads : u # t => req'[u] = req[u]
<1>1. CASE req'[t] = req[t]
  BY <1>1 DEF Handles
<1>2. ASSUME \A u \in Threads : req'[u] = Idle PROVE FALSE
  BY <1>2 DEF Handles, Idle
<1>3. ASSUME NEW u \in Threads, Moves(u), t # u PROVE req'[t] = req[t]
  BY <1>3 DEF Moves, Becomes
<1>4. CASE Moves(t)
  <2>1. PICK r \in Requests : Becomes(t, r) /\ News(t, r)
    BY <1>4 DEF Moves
  <2>2. /\ req'[t] = r /\ \A u \in Threads : u # t => req'[u] = req[u]
        /\ r.pc \in {"confirm", "record", "announce"} /\ r.event.intent = i
    BY <2>1 DEF Becomes, Handles
  <2> QED
    BY <2>1, <2>2 DEF News, Handles
<1> QED
  BY <1>1, <1>2, <1>3, <1>4, RequestsNext

\* The requests that have an order say it is paid by intent i.
Confirms(i) == \E t \in Threads : ConfirmOrder(t) /\ i = req[t].event.intent

LEMMA UnknownNext ==
    ASSUME TypeOK, Shaped, OrdersTrue, RequestsTrue, StripeTrue, LinksFresh, [Next]_vars,
           NEW i \in Intents, Unknown(i), ~Confirms(i)
    PROVE  Unknown(i)'
<1>0. i # None
  BY PaymentsAssumption
<1>1. stripe'.intent[i].state # "refunded"
  <2>1. \A t \in Threads : PostRefund(t) => req[t].pc = "post"
    BY PostRefundGoes
  <2>2. stripe'.intent[i].state = "refunded" =>
          \/ stripe.intent[i].state = "refunded"
          \/ \E t \in Threads : PostRefund(t) /\ i = req[t].seen.intent
    BY StripeNext, StripeKept DEF StripeSpeaksTrue
  <2> QED
    BY <2>1, <2>2 DEF Unknown
<1>2. ASSUME NEW o \in Orders PROVE order'[o].intent # i
  <2>1. CASE order'[o] = order[o]
    BY <2>1 DEF Unknown
  <2>2. CASE order'[o] # order[o]
    <3>1. PICK p \in Orders, row \in OrderRows :
            /\ Rewrites(p, row)
            /\ row.intent = order[p].intent \/ \E t \in Threads : Paid(t, p, row)
      BY <2>2, OrderNext
    <3>2. p = o /\ order'[o] = row
      BY <2>2, <3>1, StateTypes DEF Rewrites
    <3>3. \A t \in Threads : Paid(t, p, row) => row.intent = order[p].intent \/ row.intent # i
      BY DEF Paid, Confirms
    <3> QED
      BY <3>1, <3>2, <3>3 DEF Unknown
  <2> QED
    BY <2>1, <2>2
<1>3. ASSUME NEW u \in Threads, req'[u].pc # "idle" PROVE req'[u].seen.intent # i
  <2>1. CASE req'[u] = req[u]
    BY <1>3, <2>1 DEF Unknown
  <2>2. ASSUME \A t \in Threads : req'[t] = Idle PROVE FALSE
    BY <1>3, <2>2 DEF Idle
  <2>3. ASSUME NEW t \in Threads, Moves(t), t # u PROVE req'[u] = req[u]
    BY <2>3 DEF Moves, Becomes
  <2>4. CASE Moves(u)
    <3>1. PICK r \in Requests : Becomes(u, r) /\ News(u, r)
      BY <2>4 DEF Moves
    <3>2. req'[u] = r /\ r.pc # "idle"
      BY <1>3, <3>1 DEF Becomes
    <3>3. \/ r.seen.intent = None
          \/ req[u].pc # "idle" /\ r.seen.intent = req[u].seen.intent
          \/ \E o \in Orders : r.seen.intent = order[o].intent
      BY <3>1, <3>2 DEF News
    <3> QED
      BY <1>0, <3>2, <3>3 DEF Unknown
  <2> QED
    BY <2>1, <2>2, <2>3, <2>4, RequestsNext
<1> QED
  BY <1>1, <1>2, <1>3 DEF Unknown

LEMMA PaidOnceNext ==
    ASSUME TypeOK, Shaped, OrdersTrue, RequestsTrue, StripeTrue, LinksFresh, PaidOnce, [Next]_vars
    PROVE  PaidOnce'
<1> SUFFICES ASSUME NEW i \in Intents
             PROVE  /\ told'[i] <= 1
                    /\ payment'[i].status = "absent" =>
                         told'[i] = 0 /\ Unknown(i)' /\ \A t \in Threads : ~Handles(t, i)'
                    /\ \A t \in Threads : Handles(t, i)' =>
                         told'[i] = 0 /\ (At(t, "confirm")' => Unknown(i)')
                    /\ \A t, u \in Threads : Handles(t, i)' /\ Handles(u, i)' => t = u
  BY DEF PaidOnce
<1>1. /\ told[i] <= 1 /\ told[i] \in Nat
      /\ payment[i].status = "absent" => told[i] = 0 /\ Unknown(i) /\ \A t \in Threads : ~Handles(t, i)
      /\ \A t \in Threads : Handles(t, i) => told[i] = 0 /\ (At(t, "confirm") => Unknown(i))
      /\ \A t, u \in Threads : Handles(t, i) /\ Handles(u, i) => t = u
  BY StateTypes DEF PaidOnce
<1>2. \/ told'[i] = told[i]
      \/ \E t \in Threads : Announce(t) /\ Handles(t, i) /\ told'[i] = told[i] + 1
  <2>1. \A t \in Threads : Announce(t) => req[t].pc = "announce"
    BY AnnounceGoes
  <2>2. ASSUME NEW t \in Threads,
               told' = [told EXCEPT ![req[t].event.intent] = told[req[t].event.intent] + 1]
        PROVE  IF req[t].event.intent = i THEN told'[i] = told[i] + 1 ELSE told'[i] = told[i]
    BY <2>2, StateTypes
  <2> QED
    BY <2>1, <2>2, ToldNext DEF Handles
<1>3. \A t \in Threads : Announce(t) => ~Handles(t, i)'
  BY AnnounceGoes DEF GoesTo, Becomes, Handles
<1>4. \A t \in Threads : ConfirmOrder(t) => req[t].pc = "confirm" /\ req'[t].pc = "record"
  BY ConfirmOrderGoes DEF GoesTo, Becomes
<1>5. Confirms(i) => \E t \in Threads : Handles(t, i) /\ At(t, "confirm") /\ req'[t].pc = "record"
  BY <1>4 DEF Confirms, Handles, At
<1>6. \A t \in Threads : Reserves(t) /\ i = req[t].event.intent =>
        payment[i].status = "absent" /\ payment'[i].status # "absent"
  BY StateTypes DEF Reserves
<1>7. payment'[i].status = "absent" => payment[i].status = "absent"
  BY PaymentKept
<1>8. told'[i] <= 1
  BY <1>1, <1>2
<1>9. ASSUME payment'[i].status = "absent"
      PROVE  told'[i] = 0 /\ Unknown(i)' /\ \A t \in Threads : ~Handles(t, i)'
  <2>1. told[i] = 0 /\ Unknown(i) /\ \A t \in Threads : ~Handles(t, i)
    BY <1>1, <1>7, <1>9
  <2>2. told'[i] = 0
    BY <1>2, <2>1
  <2>3. Unknown(i)'
    BY <1>5, <2>1, UnknownNext
  <2>4. \A t \in Threads : ~Handles(t, i)'
    BY <1>6, <1>9, <2>1, HandlesNext
  <2> QED
    BY <2>2, <2>3, <2>4
<1>10. ASSUME NEW t \in Threads, Handles(t, i)'
       PROVE  told'[i] = 0 /\ (At(t, "confirm")' => Unknown(i)')
  <2>1. CASE Handles(t, i)
    <3>1. told[i] = 0
      BY <1>1, <2>1
    <3>2. told'[i] = 0
      BY <1>1, <1>2, <1>3, <1>10, <2>1, <3>1
    <3>3. ASSUME At(t, "confirm")' PROVE Unknown(i)'
      <4>1. req'[t].pc = "confirm"
        BY <3>3 DEF At
      <4>2. req[t].pc = "confirm"
        <5>1. \/ req'[t] = req[t]
              \/ req'[t].pc \in {"record", "announce"}
              \/ Reserves(t) /\ i = req[t].event.intent
          BY <1>10, HandlesNext
        <5> QED
          BY <1>1, <1>6, <2>1, <4>1, <5>1
      <4>3. Unknown(i)
        BY <1>1, <2>1, <4>2 DEF At
      <4>4. ~Confirms(i)
        BY <1>1, <1>5, <2>1, <4>1
      <4> QED
        BY <4>3, <4>4, UnknownNext
    <3> QED
      BY <3>2, <3>3
  <2>2. CASE Reserves(t) /\ i = req[t].event.intent
    <3>1. told[i] = 0 /\ Unknown(i) /\ \A u \in Threads : ~Handles(u, i)
      BY <1>1, <1>6, <2>2
    <3> QED
      BY <1>2, <1>5, <3>1, UnknownNext
  <2> QED
    BY <1>10, <2>1, <2>2, HandlesNext
<1>11. ASSUME NEW t \in Threads, NEW u \in Threads, Handles(t, i)', Handles(u, i)' PROVE t = u
  <2> SUFFICES ASSUME t # u PROVE FALSE
    OBVIOUS
  <2>1. CASE Handles(t, i) /\ Handles(u, i)
    BY <1>1, <2>1
  <2>2. ASSUME NEW a \in Threads, NEW b \in Threads, a # b, Handles(b, i)',
               Reserves(a), i = req[a].event.intent, \A v \in Threads : v # a => req'[v] = req[v]
        PROVE  FALSE
    <3>1. Handles(b, i)
      BY <2>2 DEF Handles
    <3> QED
      BY <1>1, <1>6, <2>2, <3>1
  <2> QED
    BY <1>11, <2>1, <2>2, HandlesNext
<1> QED
  BY <1>8, <1>9, <1>10, <1>11

-----------------------------------------------------------------------------
(* A refund is asked for once.                                             *)

LEMMA AsksNext ==
    ASSUME TypeOK, Shaped, OrdersTrue, RequestsTrue, StripeTrue, LinksFresh, [Next]_vars,
           NEW k \in RefundKeys, NEW t \in Threads, Asks(t, k)'
    PROVE  \/ Asks(t, k) /\ req'[t] = req[t]
           \/ /\ ReservesRefund(t) /\ k = req[t].key
              /\ \A u \in Threads : u # t => req'[u] = req[u]
<1>1. CASE req'[t] = req[t]
  BY <1>1 DEF Asks, At
<1>2. ASSUME \A u \in Threads : req'[u] = Idle PROVE FALSE
  BY <1>2 DEF Asks, At, Idle
<1>3. ASSUME NEW u \in Threads, Moves(u), t # u PROVE req'[t] = req[t]
  BY <1>3 DEF Moves, Becomes
<1>4. CASE Moves(t)
  BY <1>4 DEF Moves, Becomes, News, Asks, At
<1> QED
  BY <1>1, <1>2, <1>3, <1>4, RequestsNext

LEMMA AskedOnceNext ==
    ASSUME TypeOK, Shaped, OrdersTrue, RequestsTrue, StripeTrue, LinksFresh, AskedOnce, [Next]_vars
    PROVE  AskedOnce'
<1> SUFFICES ASSUME NEW k \in RefundKeys
             PROVE  /\ posts'[k] <= 1
                    /\ refund'[k].status = "absent" =>
                         posts'[k] = 0 /\ \A t \in Threads : ~Asks(t, k)'
                    /\ \A t \in Threads : Asks(t, k)' => posts'[k] = 0
                    /\ \A t, u \in Threads : Asks(t, k)' /\ Asks(u, k)' => t = u
  BY DEF AskedOnce
<1>1. /\ posts[k] <= 1 /\ posts[k] \in Nat
      /\ refund[k].status = "absent" => posts[k] = 0 /\ \A t \in Threads : ~Asks(t, k)
      /\ \A t \in Threads : Asks(t, k) => posts[k] = 0
      /\ \A t, u \in Threads : Asks(t, k) /\ Asks(u, k) => t = u
  BY StateTypes DEF AskedOnce
<1>2. \/ posts'[k] = posts[k]
      \/ \E t \in Threads : Asks(t, k) /\ posts'[k] = posts[k] + 1 /\ req'[t] # req[t]
  <2>1. \A t \in Threads : PostRefund(t) => At(t, "post") /\ req'[t] # req[t]
    BY PostRefundGoes DEF At, GoesTo, Becomes
  <2>2. ASSUME NEW t \in Threads, posts' = [posts EXCEPT ![req[t].key] = posts[req[t].key] + 1]
        PROVE  IF req[t].key = k THEN posts'[k] = posts[k] + 1 ELSE posts'[k] = posts[k]
    BY <2>2, StateTypes
  <2> QED
    BY <2>1, <2>2, PostsNext DEF Asks
<1>3. \A t \in Threads : ReservesRefund(t) /\ k = req[t].key =>
        refund[k].status = "absent" /\ refund'[k].status # "absent"
  BY StateTypes DEF ReservesRefund
<1>4. refund'[k].status = "absent" => refund[k].status = "absent"
  BY RefundKept
<1>5. posts'[k] <= 1
  BY <1>1, <1>2
<1>6. ASSUME refund'[k].status = "absent"
      PROVE  posts'[k] = 0 /\ \A t \in Threads : ~Asks(t, k)'
  BY <1>1, <1>2, <1>3, <1>4, <1>6, AsksNext
<1>7. ASSUME NEW t \in Threads, Asks(t, k)' PROVE posts'[k] = 0
  BY <1>1, <1>2, <1>3, <1>7, AsksNext
<1>8. ASSUME NEW t \in Threads, NEW u \in Threads, Asks(t, k)', Asks(u, k)' PROVE t = u
  <2> SUFFICES ASSUME t # u PROVE FALSE
    OBVIOUS
  <2>1. CASE Asks(t, k) /\ Asks(u, k)
    BY <1>1, <2>1
  <2>2. ASSUME NEW a \in Threads, NEW b \in Threads, a # b, Asks(b, k)', ReservesRefund(a),
               k = req[a].key, \A v \in Threads : v # a => req'[v] = req[v]
        PROVE  FALSE
    <3>1. Asks(b, k)
      BY <2>2 DEF Asks, At
    <3> QED
      BY <1>1, <1>3, <2>2, <3>1
  <2> QED
    BY <1>8, <2>1, <2>2, AsksNext
<1> QED
  BY <1>5, <1>6, <1>7, <1>8

LEMMA OnRecordNext ==
    ASSUME TypeOK, Shaped, OrdersTrue, RequestsTrue, StripeTrue, LinksFresh,
           IsFiniteSet(OnRecord), [Next]_vars
    PROVE  IsFiniteSet(OnRecord')
<1>1. OnRecord' \subseteq OnRecord \/ \E i \in Intents : OnRecord' \subseteq OnRecord \cup {i}
  <2>1. CASE payment' = payment
    BY <2>1 DEF OnRecord
  <2>2. ASSUME NEW t \in Threads, Reserves(t)
        PROVE  \E i \in Intents : OnRecord' \subseteq OnRecord \cup {i}
    <3>1. PICK i \in Intents : \E row : payment' = [payment EXCEPT ![i] = row]
      BY <2>2 DEF Reserves
    <3>2. \A j \in Intents : j # i => payment'[j] = payment[j]
      BY <3>1, StateTypes
    <3> QED
      BY <3>2 DEF OnRecord
  <2>3. ASSUME NEW t \in Threads, RecordsPayment(t) PROVE OnRecord' \subseteq OnRecord
    <3>1. PICK i \in Intents : /\ payment[i].status # "absent"
                               /\ payment' = [payment EXCEPT ![i].status = "confirmed"]
      BY <2>3 DEF RecordsPayment
    <3>2. \A j \in Intents : j # i => payment'[j] = payment[j]
      BY <3>1, StateTypes
    <3> QED
      BY <3>1, <3>2 DEF OnRecord
  <2> QED
    BY <2>1, <2>2, <2>3, PaymentNext
<1>2. \A i \in Intents : IsFiniteSet(OnRecord \cup {i})
  BY FS_AddElement
<1> QED
  BY <1>1, <1>2, FS_Subset
-----------------------------------------------------------------------------
(* The theorems.                                                           *)

LEMMA InitHolds == Init => IInv
<1> SUFFICES ASSUME Init PROVE IInv
  OBVIOUS
<1>1. /\ order = [o \in Orders |-> NoOrder] /\ payment = [i \in Intents |-> NoRecord]
      /\ refund = [k \in RefundKeys |-> NoRecord] /\ req = [t \in Threads |-> Idle]
      /\ posts = [k \in RefundKeys |-> 0] /\ told = [i \in Intents |-> 0]
      /\ stripe = [shown |-> {}, raised |-> {}, life |-> [s \in Links |-> <<>>],
                   intent |-> [i \in Intents |-> [state |-> "unused", link |-> None, key |-> None]]]
  BY DEF Init
<1>2. \A i \in Intents : /\ payment[i] = NoRecord /\ told[i] = 0
                         /\ stripe.intent[i] = [state |-> "unused", link |-> None, key |-> None]
  BY <1>1
<1>3. /\ \A o \in Orders : order[o] = NoOrder
      /\ \A k \in RefundKeys : refund[k] = NoRecord /\ posts[k] = 0
      /\ \A t \in Threads : req[t] = Idle
      /\ \A s \in Links : stripe.life[s] = <<>>
      /\ stripe.raised = {}
  BY <1>1
<1>4. Shaped
  BY <1>1 DEF Shaped, Requests, Idle
<1>5. TypeOK
  <2>1. /\ order \in [Orders -> OrderRows]
        /\ DOMAIN req = Threads /\ \A t \in Threads : RequestOK(req[t])
    BY <1>1, <1>4, NoOrderType, RequestsOK DEF Shaped
  <2>2. /\ payment \in [Intents -> [status : {"absent", "pending", "confirmed"},
                                   order : Orders \cup {None}]]
        /\ refund \in [RefundKeys -> [status : {"absent", "pending", "succeeded", "failed"},
                                     order : Orders \cup {None}]]
    BY <1>1 DEF NoRecord
  <2>3. /\ task \in [Orders -> {"open", "completed"}]
        /\ event \in [Events -> {"absent", "processing", "fulfilled", "failed"}]
        /\ begun \in 0 .. MaxDeliveries /\ crashes \in 0 .. MaxCrashes
    BY PaymentsAssumption DEF Init
  <2>4. stripe \in [shown : SUBSET Links, raised : SUBSET Events,
                    life : [Links -> Seq(SubStates \cup {"canceled"})],
                    intent : [Intents -> [state : {"unused", "charged", "refunded"},
                                          link : Links \cup {None},
                                          key : RefundKeys \cup {None}]]]
    <3>1. [s \in Links |-> <<>>] \in [Links -> Seq(SubStates \cup {"canceled"})]
      OBVIOUS
    <3>2. [i \in Intents |-> [state |-> "unused", link |-> None, key |-> None]]
            \in [Intents -> [state : {"unused", "charged", "refunded"},
                             link : Links \cup {None}, key : RefundKeys \cup {None}]]
      OBVIOUS
    <3> QED
      BY <1>1, <3>1, <3>2
  <2>5. posts \in [RefundKeys -> Nat] /\ told \in [Intents -> Nat]
    BY <1>1
  <2> QED
    BY <2>1, <2>2, <2>3, <2>4, <2>5, Zenon DEF TypeOK
<1>6. OrdersTrue
  BY <1>3, NoOrderType, NoOrderTrue DEF OrdersTrue
<1>7. RequestsTrue
  BY <1>3 DEF RequestsTrue, Honest, Idle, DeliverPcs, WebhookPcs, PaymentPcs, SubscriptionPcs,
              RefundPcs
<1>8. StripeTrue
  BY <1>2, <1>3 DEF StripeTrue, Charged, NoRecord
<1>9. LinksFresh
  BY <1>3 DEF LinksFresh, At, Idle
<1>10. PaidOnce
  BY <1>2, <1>3, NoOrderType, PaymentsAssumption DEF PaidOnce, Unknown, Handles, At, Idle
<1>11. AskedOnce /\ RefundsTrue
  BY <1>3 DEF AskedOnce, RefundsTrue, Asks, At, Idle, NoRecord
<1>12. IsFiniteSet(OnRecord)
  <2>1. OnRecord = {}
    BY <1>2 DEF OnRecord, NoRecord
  <2> QED
    BY <2>1, FS_EmptySet
<1> QED
  BY <1>4, <1>5, <1>6, <1>7, <1>8, <1>9, <1>10, <1>11, <1>12 DEF IInv

\* What is on record of orders, payments and refunds is true throughout.
THEOREM Inductive == Spec => []IInv
<1>1. IInv /\ [Next]_vars => IInv'
  <2> SUFFICES ASSUME IInv, [Next]_vars PROVE IInv'
    OBVIOUS
  <2>1. /\ TypeOK /\ Shaped /\ OrdersTrue /\ RequestsTrue /\ StripeTrue /\ LinksFresh
        /\ PaidOnce /\ AskedOnce /\ RefundsTrue /\ IsFiniteSet(OnRecord)
    BY DEF IInv
  <2>2. TypeOK' /\ Shaped' /\ OrdersTrue' /\ StripeTrue'
    BY <2>1, TypeNext, ShapedNext, OrdersTrueNext, StripeTrueNext
  <2>3. RequestsTrue' /\ LinksFresh'
    BY <2>1, RequestsTrueNext, LinksFreshNext
  <2>4. PaidOnce' /\ AskedOnce' /\ RefundsTrue' /\ IsFiniteSet(OnRecord')
    BY <2>1, PaidOnceNext, AskedOnceNext, RefundsTrueNext, OnRecordNext
  <2> QED
    BY <2>2, <2>3, <2>4 DEF IInv
<1> QED
  BY <1>1, InitHolds, PTL DEF Spec

\* The rows of orders, payments, refunds and events, and what Stripe knows, keep
\* the types the code and Stripe's answers give them.
THEOREM TypeCorrect == Spec => []TypeOK
<1>1. IInv => TypeOK
  BY DEF IInv
<1> QED
  BY <1>1, Inductive, PTL

\* record_payment and issue_refund: however many requests and repeated events
\* overlap, a payment is announced at most once and a refund is asked of Stripe
\* at most once for a key.
THEOREM PaidAndAskedOnce == Spec => []OncePerKey
<1>1. IInv => OncePerKey
  BY DEF IInv, PaidOnce, AskedOnce, OncePerKey
<1> QED
  BY <1>1, Inductive, PTL

\* record_payment, issue_refund, cancel_subscription and the webhooks: whatever
\* requests overlap, fail or die, an order says of its money only what Stripe did
\* with a payment or a subscription of its own, and so does a refund's record.
THEOREM MoneyIsTrue == Spec => []MoneyIsStripes
<1>1. IInv => MoneyIsStripes
  BY DEF IInv, OrdersTrue, RowTrue, RefundsTrue, MoneyIsStripes
<1> QED
  BY <1>1, Inductive, PTL

\* Two members of a finite set make it larger than one.
LEMMA TwoMembers ==
    ASSUME NEW S, IsFiniteSet(S), NEW i \in S, NEW j \in S, i # j
    PROVE  Cardinality(S) > 1
<1>1. IsFiniteSet({i}) /\ Cardinality({i}) = 1
  BY FS_Singleton
<1>2. IsFiniteSet({i} \cup {j}) /\ Cardinality({i} \cup {j}) = 2
  <2> DEFINE A == {i}
  <2>1. IsFiniteSet(A) /\ Cardinality(A) = 1 /\ j \notin A
    BY <1>1
  <2> HIDE DEF A
  <2>2. Cardinality(A \cup {j}) = Cardinality(A) + 1 /\ IsFiniteSet(A \cup {j})
    BY <2>1, FS_AddElement
  <2>3. IsFiniteSet(A \cup {j}) /\ Cardinality(A \cup {j}) = 2
    BY <2>1, <2>2
  <2> QED
    BY <2>3 DEF A
<1>3. {i} \cup {j} \subseteq S
  OBVIOUS
<1>4. Cardinality({i} \cup {j}) <= Cardinality(S)
  BY <1>3, FS_Subset
<1>5. Cardinality(S) \in Nat
  BY FS_CardinalityType
<1> QED
  BY <1>2, <1>4, <1>5

LEMMA OnlyAPaymentFollows ==
    ASSUME IInv, [Next]_vars, NEW o \in Orders,
           order[o].payment = "refunded", order'[o].payment # "refunded"
    PROVE  order'[o].payment = "confirmed" /\ Cardinality(Credited(o)) > 1
<1>1. /\ TypeOK /\ Shaped /\ OrdersTrue /\ RequestsTrue /\ StripeTrue
      /\ PaidOnce /\ IsFiniteSet(OnRecord)
  BY DEF IInv
<1>2. PICK p \in Orders, row \in OrderRows :
        /\ order' = [order EXCEPT ![p] = row]
        /\ \/ row.payment \in {order[p].payment, "refunded"}
           \/ \E t \in Threads : Paid(t, p, row)
  BY <1>1, OrderNext DEF Rewrites
<1>3. order'[p] = row /\ \A q \in Orders : q # p => order'[q] = order[q]
  BY <1>1, <1>2, StateTypes
<1>4. p = o
  BY <1>3
<1>5. PICK t \in Threads : Paid(t, o, row)
  BY <1>2, <1>3, <1>4
<1>6. req[t].pc = "confirm" /\ req[t].order = o /\ order'[o].payment = "confirmed"
  BY <1>3, <1>4, <1>5 DEF Paid, ConfirmOrder, At
<1> DEFINE j == req[t].event.intent
<1>7. j \in Credited(o)
  BY <1>1, <1>6, ThreadKnows DEF Honest, PaymentPcs
<1>8. stripe.intent[j].state # "refunded"
  <2>1. j \in Intents
    BY <1>7 DEF Credited
  <2> QED
    BY <1>1, <1>6, <2>1 DEF PaidOnce, Handles, Unknown, At
<1>9. PICK i \in Credited(o) : stripe.intent[i].state = "refunded"
  BY <1>1 DEF OrdersTrue, RowTrue, RefundOf
<1>10. IsFiniteSet(Credited(o))
  <2>1. Credited(o) \subseteq OnRecord
    BY DEF Credited, OnRecord
  <2> QED
    BY <1>1, <2>1, FS_Subset
<1> QED
  BY <1>6, <1>7, <1>8, <1>9, <1>10, TwoMembers

\* _fail_payment, deliver_order and the rest: once an order says its payment was
\* refunded, no late webhook, delivery or retry makes it say otherwise, except a
\* second payment of its own that is confirmed.
THEOREM RefundsStay == Spec => RefundFinal
<1>1. IInv /\ [Next]_vars =>
        [\A o \in Orders : order[o].payment = "refunded" /\ order'[o].payment # "refunded" =>
           order'[o].payment = "confirmed" /\ Cardinality(Credited(o)) > 1]_vars
  BY OnlyAPaymentFollows
<1> QED
  BY <1>1, Inductive, PTL DEF Spec, RefundFinal
=============================================================================
