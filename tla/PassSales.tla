------------------------------ MODULE PassSales ------------------------------
(***************************************************************************)
(* Sale of the passes of one event: checkout, payment and booking.         *)
(*                                                                         *)
(* Source: apps/api/src/modules/payments/payments.service.ts, with         *)
(* pass-availability.ts, payment-jobs.ts and the event operations of       *)
(* modules/admin/events/admin-events.service.ts that share the event's     *)
(* row lock.                                                               *)
(*                                                                         *)
(* A database transaction is one action.  A handler is split wherever it   *)
(* awaits Razorpay between two transactions: other handlers, the expiry    *)
(* job, Razorpay and a restart of the process can act there.  The module   *)
(* stops where a refund has been requested (refund = "pending"); what the  *)
(* refund calls and the refund webhooks do from there is module Refunds.   *)
(***************************************************************************)
EXTENDS Integers, FiniteSets

CONSTANTS
    Users,        \* members
    Keys,         \* Idempotency-Key values of one member
    PaymentIds,   \* Razorpay payments
    Delivered,    \* the payments whose webhooks are not lost for good
    MaxQuantity,  \* LIMITS.PASS_MAX_PER_ORDER
    Hold,         \* LIMITS.ORDER_EXPIRY_MINUTES, in clock ticks
    Batch,        \* the LIMIT of the expiry job's query
    Capacities,   \* the capacities an admin may set
    Schedules,    \* the <<startsAt, endsAt>> pairs an admin may set
    Fates,        \* bound: the statuses Razorpay's payments take
    Amounts,      \* bound: whether a payment may be for another amount than the order
    MaxEdits,     \* bound: admin edits of the event
    MaxTime,      \* bound: last clock value
    MaxRequests,  \* bound: createOrder handlers that reach Razorpay, per order
    MaxHandlers,  \* bound: finalize() calls in flight
    MaxFaults,    \* bound: restarts and failed provider or database calls
    Null

ASSUME SalesAssumption ==
    /\ MaxQuantity \in Nat \ {0}
    /\ Hold \in Nat \ {0}
    /\ Batch \in Nat \ {0}
    /\ MaxTime \in Nat
    /\ MaxRequests \in Nat \ {0}
    /\ MaxHandlers \in Nat \ {0}
    /\ MaxFaults \in Nat
    /\ MaxEdits \in Nat
    /\ Delivered \subseteq PaymentIds
    /\ Fates \subseteq {"authorized", "captured", "failed"}
    /\ Amounts \subseteq BOOLEAN
    /\ Capacities \subseteq Nat \ {0}
    /\ Schedules \subseteq Nat \X Nat
    /\ IsFiniteSet(Users) /\ IsFiniteSet(Keys)
    /\ Null \notin Capacities /\ Null \notin PaymentIds
    /\ Null \notin Users \X Keys /\ Null \notin (Users \X Keys) \X Nat

VARIABLES
    now,        \* the clock
    event,      \* the events row
    orders,     \* the orders table, by (user_id, idempotency_key)
    attaching,  \* per order: createOrder handlers waiting for gateway.createOrder
    issued,     \* per order: Razorpay orders created for it
    remote,     \* Razorpay's payments
    seen,       \* per payment: the statuses it has had, each announced by a webhook
    handled,    \* webhook events whose payment_webhook_events row is processed
    handlers,   \* finalize() calls between their reads and their transaction
    payments,   \* the payments table
    bookings,   \* the event_bookings table, by order
    job,        \* the expireOrders run in progress
    edits,      \* admin edits so far
    faults      \* faults so far

tables == <<orders, payments, bookings>>
razorpay == <<issued, remote, seen>>
vars == <<now, event, orders, attaching, issued, remote, seen, handled,
          handlers, payments, bookings, job, edits, faults>>

\* UNIQUE (user_id, idempotency_key): the pair names at most one order.
Orders == Users \X Keys

OrderStatus == {"none", "created", "paid", "expired", "failed"}
PaymentStatus == {"created", "authorized", "captured", "failed"}
BookingStatus == {"none", "confirmed", "cancelled"}
CancelReasons == {"admin_refund", "sold_out", "event_unavailable"}

\* A Razorpay order is <<order, n>>: the n-th one created for that order.
RazorpayOrder == Orders \X (1 .. MaxRequests)

NoOrder == [status |-> "none", quantity |-> 0, expiresAt |-> 0, rzp |-> 0]
NoPayment == [status |-> "none", refund |-> "none"]
NoBooking == [status |-> "none", payment |-> Null, refund |-> "none", reason |-> "none"]
Idle == [due |-> {}, order |-> Null, todo |-> {}]

EventRow == [status : {"draft", "published", "archived"}, priced : BOOLEAN,
             capacity : Capacities \cup {Null}, startsAt : Nat, endsAt : Nat]
OrderRow == [status : OrderStatus, quantity : 0 .. MaxQuantity,
             expiresAt : Nat, rzp : 0 .. MaxRequests]
PaymentRow == [status : PaymentStatus \cup {"none"}, refund : {"none", "pending"}]
BookingRow == [status : BookingStatus, payment : PaymentIds \cup {Null},
               refund : {"none", "pending"}, reason : CancelReasons \cup {"none"}]
RemotePayment == [status : PaymentStatus \cup {"none"},
                  rzp : RazorpayOrder \cup {Null}, exact : BOOLEAN]
Handler == [payment : PaymentIds, status : PaymentStatus,
            source : PaymentStatus \cup {"verify", "job"}]
JobState == [due : SUBSET (Orders \X (0 .. MaxRequests)), order : Orders \cup {Null},
             todo : SUBSET (PaymentIds \X PaymentStatus)]

TypeOK ==
    /\ now \in 0 .. MaxTime
    /\ event \in EventRow
    /\ orders \in [Orders -> OrderRow]
    /\ attaching \in [Orders -> 0 .. MaxRequests]
    /\ issued \in [Orders -> 0 .. MaxRequests]
    /\ remote \in [PaymentIds -> RemotePayment]
    /\ seen \in [PaymentIds -> SUBSET PaymentStatus]
    /\ handled \subseteq PaymentIds \X PaymentStatus
    /\ handlers \subseteq Handler
    /\ payments \in [PaymentIds -> PaymentRow]
    /\ bookings \in [Orders -> BookingRow]
    /\ job \in JobState
    /\ edits \in 0 .. MaxEdits
    /\ faults \in 0 .. MaxFaults

-----------------------------------------------------------------------------
(* Seats *)

\* The passes of a set of orders, one element per pass: its size is SUM(quantity).
Passes(S) == {pass \in S \X (1 .. MaxQuantity) : pass[2] <= orders[pass[1]].quantity}

Confirmed == {o \in Orders : bookings[o].status = "confirmed"}
Live(o) == orders[o].status = "created" /\ orders[o].expiresAt > now
Holding == {o \in Orders : Live(o)}

\* seatCounts(): sold plus reserved, leaving out the orders in `excluded`.
SeatCounts(excluded) ==
    Cardinality(Passes(Confirmed)) + Cardinality(Passes(Holding \ excluded))

\* True when `quantity` more passes do not fit beside the others.
SoldOut(quantity, excluded) ==
    /\ event.capacity # Null
    /\ SeatCounts(excluded) + quantity > event.capacity

PassesOnSale == event.priced /\ event.status = "published" /\ event.startsAt > now

-----------------------------------------------------------------------------
(* Faults *)

Fault == faults < MaxFaults /\ faults' = faults + 1

\* What the API process keeps in memory only.
Forget ==
    /\ attaching' = [o \in Orders |-> 0]
    /\ handlers' = {}
    /\ job' = Idle

\* The API process restarts: the tables stay.
Restart ==
    /\ Fault
    /\ Forget
    /\ UNCHANGED <<now, event, tables, razorpay, handled, edits>>

-----------------------------------------------------------------------------
(* createOrder *)

\* A wrong SupersededBy: the previous hold is kept.
SupersededByNothing(o) == {}

\* The member's open orders are expired before the seats are counted.
SupersededBy(o) ==
    {p \in Orders : p[1] = o[1] /\ orders[p].status = "created"}

\* The seats a new order of this member competes with.
NoSeatFor(o, quantity) == SoldOut(quantity, SupersededBy(o))

ReplaceOrders(o, quantity) ==
    orders' = [p \in Orders |->
        IF p = o THEN [status |-> "created", quantity |-> quantity,
                       expiresAt |-> now + Hold, rzp |-> 0]
        ELSE IF p \in SupersededBy(o) THEN [orders[p] EXCEPT !.status = "expired"]
        ELSE orders[p]]

\* A first request with this key: the transaction, up to the Razorpay call.
CreateOrder(o, quantity) ==
    /\ orders[o].status = "none"
    /\ PassesOnSale
    /\ ~NoSeatFor(o, quantity)
    /\ ReplaceOrders(o, quantity)
    /\ attaching' = [attaching EXCEPT ![o] = @ + 1]
    /\ UNCHANGED <<now, event, razorpay, handled, handlers, payments, bookings, job, edits, faults>>

\* A request with a key that exists (a retry, or the loser of the race on the
\* unique key): it goes to Razorpay only if it read an open order without one.
JoinOrder(o) ==
    /\ orders[o].status = "created"
    /\ orders[o].rzp = 0
    /\ attaching[o] + issued[o] < MaxRequests
    /\ attaching' = [attaching EXCEPT ![o] = @ + 1]
    /\ UNCHANGED <<now, event, tables, razorpay, handled, handlers, job, edits, faults>>

\* gateway.createOrder answered: the Razorpay order ID is stored, whatever is there.
Attach(o) ==
    /\ attaching[o] > 0
    /\ issued[o] < MaxRequests
    /\ attaching' = [attaching EXCEPT ![o] = @ - 1]
    /\ issued' = [issued EXCEPT ![o] = @ + 1]
    /\ orders' = [orders EXCEPT ![o].rzp = issued[o] + 1]
    /\ UNCHANGED <<now, event, remote, seen, handled, handlers, payments, bookings, job, edits, faults>>

\* A wrong FailedStatus: nothing refuses the update of a paid order.
FailedStatusUnchecked(o) == "failed"

\* gateway.createOrder failed.  orders_paid_check refuses the update of a paid
\* order (paid_at is set), so that order stays as it is.
FailedStatus(o) == IF orders[o].status = "paid" THEN "paid" ELSE "failed"

AttachFails(o) ==
    /\ Fault
    /\ attaching[o] > 0
    /\ attaching' = [attaching EXCEPT ![o] = @ - 1]
    /\ orders' = [orders EXCEPT ![o].status = FailedStatus(o)]
    /\ UNCHANGED <<now, event, razorpay, handled, handlers, payments, bookings, job, edits>>

-----------------------------------------------------------------------------
(* Razorpay (external): payments on the orders it was asked to create *)

\* The member pays a Razorpay order that a createOrder response named.
Pay(p, r, exact) ==
    /\ remote[p].status = "none"
    /\ r[2] <= issued[r[1]]
    /\ remote' = [remote EXCEPT ![p] = [status |-> "created", rzp |-> r, exact |-> exact]]
    /\ seen' = [seen EXCEPT ![p] = {"created"}]
    /\ UNCHANGED <<now, event, tables, attaching, issued, handled, handlers, job, edits, faults>>

\* A payment may be declined and still be authorized late; capture is automatic
\* or asked for by finalize().
RemoteNext == [none |-> {}, created |-> {"authorized", "captured", "failed"},
               failed |-> {"authorized", "captured"}, authorized |-> {"captured"}, captured |-> {}]

RemoteStep(p, s) ==
    /\ s \in RemoteNext[remote[p].status] \cap Fates
    /\ remote' = [remote EXCEPT ![p].status = s]
    /\ seen' = [seen EXCEPT ![p] = @ \cup {s}]
    /\ UNCHANGED <<now, event, tables, attaching, issued, handled, handlers, job, edits, faults>>

-----------------------------------------------------------------------------
(* finalize *)

OrderOf(p) == remote[p].rzp[1]

\* Order.findOne({ razorpayOrderId }): the payment's Razorpay order is the
\* one stored on its order.
Known(p) == orders[OrderOf(p)].rzp = remote[p].rzp[2]

\* The part of finalize() before its transaction: an authorized payment of the
\* right amount is captured; when that call fails, its state is read again.
StartFinalize(p, s, source) ==
    /\ Cardinality(handlers) < MaxHandlers
    /\ IF s = "authorized" /\ remote[p].exact
       THEN \/ /\ remote[p].status = "authorized"
               /\ remote' = [remote EXCEPT ![p].status = "captured"]
               /\ seen' = [seen EXCEPT ![p] = @ \cup {"captured"}]
               /\ handlers' = handlers \cup
                    {[payment |-> p, status |-> "captured", source |-> source]}
            \/ /\ handlers' = handlers \cup
                    {[payment |-> p, status |-> remote[p].status, source |-> source]}
               /\ UNCHANGED <<remote, seen>>
       ELSE /\ handlers' = handlers \cup {[payment |-> p, status |-> s, source |-> source]}
            /\ UNCHANGED <<remote, seen>>

\* handleWebhook: an event not yet processed, of a payment we know.
Webhook(p, s) ==
    /\ s \in seen[p] \ {"created"}
    /\ <<p, s>> \notin handled
    /\ Known(p)
    /\ StartFinalize(p, s, s)
    /\ UNCHANGED <<now, event, tables, attaching, issued, handled, job, edits, faults>>

\* handleWebhook: 'Payment for an unknown order' is acknowledged and ignored.
WebhookIgnored(p, s) ==
    /\ s \in seen[p] \ {"created"}
    /\ <<p, s>> \notin handled
    /\ ~Known(p)
    /\ handled' = handled \cup {<<p, s>>}
    /\ UNCHANGED <<now, event, tables, attaching, razorpay, handlers, job, edits, faults>>

\* verify: the browser's pair is signed; the payment's state is fetched.
Verify(p) ==
    /\ remote[p].status # "none"
    /\ Known(p)
    /\ StartFinalize(p, remote[p].status, "verify")
    /\ UNCHANGED <<now, event, tables, attaching, issued, handled, job, edits, faults>>

\* A captured row is not moved back by a late event of these two statuses.
RowStatus(p, s) ==
    IF payments[p].status = "captured" /\ s \in {"authorized", "failed"} THEN "captured" ELSE s

\* A wrong CancelReason: an order whose time is up still counts as a live
\* hold until the job gets to it.
CancelReasonTrustsOrder(o) ==
    IF event.status # "published" \/ event.endsAt <= now THEN "event_unavailable"
    ELSE IF orders[o].status # "created" /\ SoldOut(orders[o].quantity, {o}) THEN "sold_out"
    ELSE "none"

\* Can the order be honoured?  A live hold always can, a lapsed one needs seats.
CancelReason(o) ==
    IF event.status # "published" \/ event.endsAt <= now THEN "event_unavailable"
    ELSE IF ~Live(o) /\ SoldOut(orders[o].quantity, {o}) THEN "sold_out"
    ELSE "none"

\* A wrong Books: the amount, or the existing booking, is not looked at.
BooksAnyAmount(p, s) ==
    /\ RowStatus(p, s) = "captured"
    /\ bookings[OrderOf(p)].status = "none"
BooksAgain(p, s) ==
    /\ RowStatus(p, s) = "captured"
    /\ remote[p].exact

\* The first captured payment of the right amount books; others are refunded.
Books(p, s) ==
    /\ RowStatus(p, s) = "captured"
    /\ bookings[OrderOf(p)].status = "none"
    /\ remote[p].exact
\* A wrong RowRefund: a second payment of a booked order is kept.
RowRefundOnlyUnbooked(p, s) ==
    IF /\ RowStatus(p, s) = "captured"
       /\ bookings[OrderOf(p)].status = "none"
       /\ Books(p, s) => CancelReason(OrderOf(p)) # "none"
    THEN "pending"
    ELSE payments[p].refund

RowRefund(p, s) ==
    IF /\ RowStatus(p, s) = "captured"
       /\ bookings[OrderOf(p)].payment # p
       /\ Books(p, s) => CancelReason(OrderOf(p)) # "none"
    THEN "pending"
    ELSE payments[p].refund

BookingFor(p) ==
    LET reason == CancelReason(OrderOf(p)) IN
    [status |-> IF reason = "none" THEN "confirmed" ELSE "cancelled",
     payment |-> p,
     refund |-> IF reason = "none" THEN "none" ELSE "pending",
     reason |-> reason]

\* The transaction: payment row, booking and order, under the event's and the
\* order's locks.
Record(p, s) ==
    LET o == OrderOf(p) IN
    /\ payments' = [payments EXCEPT ![p] = [status |-> RowStatus(p, s), refund |-> RowRefund(p, s)]]
    /\ IF Books(p, s)
       THEN /\ bookings' = [bookings EXCEPT ![o] = BookingFor(p)]
            /\ orders' = [orders EXCEPT ![o].status = "paid"]
       ELSE UNCHANGED <<bookings, orders>>

\* The handler commits; a webhook's record is marked processed after that.
Finalize(h) ==
    /\ Record(h.payment, h.status)
    /\ handlers' = handlers \ {h}
    /\ handled' = handled \cup ({<<h.payment, h.source>>} \cap (PaymentIds \X PaymentStatus))
    /\ UNCHANGED <<now, event, attaching, razorpay, job, edits, faults>>

\* The process stops between the commit and the mark: everything in memory is
\* lost and the event is delivered again.
FinalizeThenStop(h) ==
    /\ Fault
    /\ Record(h.payment, h.status)
    /\ Forget
    /\ UNCHANGED <<now, event, razorpay, handled, edits>>

\* A wrong FinalizeFails: the event counts as processed although finalize() failed.
FinalizeFailsAcknowledged(h) ==
    /\ Fault
    /\ handlers' = handlers \ {h}
    /\ handled' = handled \cup ({<<h.payment, h.source>>} \cap (PaymentIds \X PaymentStatus))
    /\ job' = IF h.source = "job" THEN [job EXCEPT !.order = Null, !.todo = {}] ELSE job
    /\ UNCHANGED <<now, event, tables, attaching, razorpay, edits>>

\* A database or Razorpay error inside finalize(): the webhook answers 5xx and
\* is retried, the job leaves the order for its next run.
FinalizeFails(h) ==
    /\ Fault
    /\ handlers' = handlers \ {h}
    /\ job' = IF h.source = "job" THEN [job EXCEPT !.order = Null, !.todo = {}] ELSE job
    /\ UNCHANGED <<now, event, tables, attaching, razorpay, handled, edits>>

-----------------------------------------------------------------------------
(* expireOrders *)

\* A wrong Due: orders without a Razorpay order are passed over.
DueAtRazorpay ==
    {o \in Orders : orders[o].status = "created" /\ orders[o].expiresAt <= now /\ orders[o].rzp # 0}

Due == {o \in Orders : orders[o].status = "created" /\ orders[o].expiresAt <= now}

\* The Batch oldest due orders, with the Razorpay order each had when read.
Oldest(S) ==
    /\ S \subseteq Due
    /\ Cardinality(S) = IF Cardinality(Due) < Batch THEN Cardinality(Due) ELSE Batch
    /\ \A o \in S, q \in Due \ S : orders[o].expiresAt <= orders[q].expiresAt

\* The `running` flag: one run at a time.
JobStart(S) ==
    /\ job = Idle
    /\ S # {}
    /\ Oldest(S)
    /\ job' = [Idle EXCEPT !.due = {<<o, orders[o].rzp>> : o \in S}]
    /\ UNCHANGED <<now, event, tables, attaching, razorpay, handled, handlers, edits, faults>>

\* A wrong JobAsk: the seats are released without asking Razorpay.
JobAskNothing(d) ==
    /\ job.order = Null
    /\ job' = [due |-> job.due \ {d}, order |-> d[1], todo |-> {}]
    /\ UNCHANGED <<now, event, tables, attaching, razorpay, handled, handlers, edits, faults>>

\* fetchOrderPayments of the next order, or nothing to ask when it has none.
JobAsk(d) ==
    /\ job.order = Null
    /\ job' = [due |-> job.due \ {d}, order |-> d[1],
               todo |-> {<<p, remote[p].status>> : p \in {q \in PaymentIds : remote[q].rzp = d}}]
    /\ UNCHANGED <<now, event, tables, attaching, razorpay, handled, handlers, edits, faults>>

\* Razorpay cannot be reached: the order is left for the next run.
JobAskFails(d) ==
    /\ Fault
    /\ job.order = Null
    /\ d[2] # 0
    /\ job' = [job EXCEPT !.due = @ \ {d}]
    /\ UNCHANGED <<now, event, tables, attaching, razorpay, handled, handlers, edits>>

JobBusy == \E h \in handlers : h.source = "job"

JobFinalize(x) ==
    /\ ~JobBusy
    /\ Known(x[1])
    /\ StartFinalize(x[1], x[2], "job")
    /\ job' = [job EXCEPT !.todo = @ \ {x}]
    /\ UNCHANGED <<now, event, tables, attaching, issued, handled, edits, faults>>

\* finalize() ignores a payment of a Razorpay order that was replaced meanwhile.
JobIgnores(x) ==
    /\ ~JobBusy
    /\ ~Known(x[1])
    /\ job' = [job EXCEPT !.todo = @ \ {x}]
    /\ UNCHANGED <<now, event, tables, attaching, razorpay, handled, handlers, edits, faults>>

\* UPDATE ... WHERE status = 'created'
ExpiredStatus(o) == IF orders[o].status = "created" THEN "expired" ELSE orders[o].status

JobExpire ==
    /\ job.order # Null
    /\ job.todo = {}
    /\ ~JobBusy
    /\ orders' = [orders EXCEPT ![job.order].status = ExpiredStatus(job.order)]
    /\ job' = [job EXCEPT !.order = Null]
    /\ UNCHANGED <<now, event, attaching, razorpay, handled, handlers, payments, bookings, edits, faults>>

-----------------------------------------------------------------------------
(* Admin operations that take the event's or the booking's lock *)

Edit == edits < MaxEdits /\ edits' = edits + 1

\* publish, unpublish, archive and restore: from, to and their other guard.
EventTransition(from, to, allowed) ==
    /\ Edit
    /\ event.status \in from
    /\ allowed
    /\ event' = [event EXCEPT !.status = to]
    /\ UNCHANGED <<now, tables, attaching, razorpay, handled, handlers, job, faults>>

Publish == EventTransition({"draft"}, "published", event.endsAt > now)
Unpublish == EventTransition({"published"}, "draft", TRUE)
Archive == EventTransition({"draft", "published"}, "archived", TRUE)
Restore == EventTransition({"archived"}, "draft", TRUE)

Reschedule(schedule) ==
    /\ Edit
    /\ event.status # "archived"
    /\ event' = [event EXCEPT !.startsAt = schedule[1], !.endsAt = schedule[2]]
    /\ UNCHANGED <<now, tables, attaching, razorpay, handled, handlers, job, faults>>

\* Capacity may not drop below what is sold or held.
CapacityAllowed(capacity) == capacity # Null => capacity >= SeatCounts({})

UpdatePass(priced, capacity) ==
    /\ Edit
    /\ event.status # "archived"
    /\ CapacityAllowed(capacity)
    /\ event' = [event EXCEPT !.priced = priced, !.capacity = capacity]
    /\ UNCHANGED <<now, tables, attaching, razorpay, handled, handlers, job, faults>>

\* refundBooking's transaction: the seats are free again at once.
RefundBooking(o) ==
    /\ bookings[o].status # "none"
    /\ bookings[o].refund = "none"
    /\ payments[bookings[o].payment].status = "captured"
    /\ bookings' = [bookings EXCEPT ![o].status = "cancelled", ![o].refund = "pending",
                                    ![o].reason = IF @ = "none" THEN "admin_refund" ELSE @]
    /\ payments' = [payments EXCEPT ![bookings[o].payment].refund = "pending"]
    /\ UNCHANGED <<now, event, orders, attaching, razorpay, handled, handlers, job, edits, faults>>

-----------------------------------------------------------------------------
(* Clock and specification *)

Tick ==
    /\ now < MaxTime
    /\ now' = now + 1
    /\ UNCHANGED <<event, tables, attaching, razorpay, handled, handlers, job, edits, faults>>

\* An event that was set up and has no orders yet.
Init ==
    /\ now = 0
    /\ \E status \in {"draft", "published", "archived"}, capacity \in Capacities \cup {Null},
          schedule \in Schedules :
          event = [status |-> status, priced |-> TRUE, capacity |-> capacity,
                   startsAt |-> schedule[1], endsAt |-> schedule[2]]
    /\ orders = [o \in Orders |-> NoOrder]
    /\ attaching = [o \in Orders |-> 0]
    /\ issued = [o \in Orders |-> 0]
    /\ remote = [p \in PaymentIds |-> [status |-> "none", rzp |-> Null, exact |-> FALSE]]
    /\ seen = [p \in PaymentIds |-> {}]
    /\ handled = {}
    /\ handlers = {}
    /\ payments = [p \in PaymentIds |-> NoPayment]
    /\ bookings = [o \in Orders |-> NoBooking]
    /\ job = Idle
    /\ edits = 0
    /\ faults = 0

Next ==
    \/ \E o \in Orders :
          \/ \E quantity \in 1 .. MaxQuantity : CreateOrder(o, quantity)
          \/ JoinOrder(o)
          \/ Attach(o)
          \/ AttachFails(o)
          \/ RefundBooking(o)
    \/ \E p \in PaymentIds :
          \/ \E r \in RazorpayOrder, exact \in Amounts : Pay(p, r, exact)
          \/ \E s \in PaymentStatus : RemoteStep(p, s) \/ Webhook(p, s) \/ WebhookIgnored(p, s)
          \/ Verify(p)
    \/ \E h \in handlers : Finalize(h) \/ FinalizeThenStop(h) \/ FinalizeFails(h)
    \/ \E S \in SUBSET Orders : JobStart(S)
    \/ \E d \in job.due : JobAsk(d) \/ JobAskFails(d)
    \/ \E x \in job.todo : JobFinalize(x) \/ JobIgnores(x)
    \/ JobExpire
    \/ Publish \/ Unpublish \/ Archive \/ Restore
    \/ \E schedule \in Schedules : Reschedule(schedule)
    \/ \E priced \in BOOLEAN, capacity \in Capacities \cup {Null} : UpdatePass(priced, capacity)
    \/ Tick
    \/ Restart

Spec == Init /\ [][Next]_vars

-----------------------------------------------------------------------------
(* Safety *)

\* The passes of confirmed bookings and live holds never exceed the capacity,
\* whatever createOrder, finalize, updatePass, refunds and the clock do between
\* each other (the event row lock and seatCounts).
NoOversell == event.capacity # Null => SeatCounts({}) <= event.capacity

\* A member holds seats with at most one order of the event: a new checkout
\* releases the previous hold, also when keys race or a request fails late.
OneOpenOrder ==
    \A o, q \in Orders :
        o[1] = q[1] /\ orders[o].status = "created" /\ orders[q].status = "created" => o = q

\* An order is paid exactly when it has a booking: neither the expiry job, nor a
\* newer checkout, nor a failed createOrder that answers late undoes a payment.
PaidIffBooked == \A o \in Orders : orders[o].status = "paid" <=> bookings[o].status # "none"

\* A booking rests on a payment of this order that Razorpay captured for the
\* exact amount, and no payment carries two bookings.
BookingBacked ==
    /\ \A o \in Orders : bookings[o].status # "none" =>
          LET p == bookings[o].payment IN
          /\ p \in PaymentIds
          /\ remote[p].status = "captured" /\ remote[p].exact
          /\ OrderOf(p) = o
    /\ \A o, q \in Orders :
          bookings[o].payment = bookings[q].payment => o = q \/ bookings[o].payment = Null

\* Money recorded as captured has a purpose: the payment is the booking's, or
\* its refund was requested in the same transaction.  A cancelled booking's is.
CapturedAccounted ==
    /\ \A p \in PaymentIds : payments[p].status = "captured" =>
          bookings[OrderOf(p)].payment = p \/ payments[p].refund = "pending"
    /\ \A o \in Orders : bookings[o].status = "cancelled" =>
          payments[bookings[o].payment].refund = "pending"

\* What a step may do to bookings, orders and refunds that money has settled.
MoneyKept ==
    /\ \A o \in Orders :
          /\ bookings[o].status # "none" => bookings'[o].payment = bookings[o].payment
          /\ bookings[o].status = "cancelled" => bookings'[o] = bookings[o]
          /\ orders[o].status = "paid" => orders'[o].status = "paid"
    /\ \A p \in PaymentIds : payments[p].refund = "pending" => payments'[p].refund = "pending"

\* What money has settled is final, however many finalize() calls of one order
\* overlap. A booking never changes its payment, a cancelled one is never
\* confirmed again, a paid order stays paid, and a refund that was marked is not
\* forgotten: neither a second payment, a duplicate webhook nor a handler with an
\* older snapshot of the payment rewrites them, not even one that moves the
\* status column of the payment's row back (CapturedIsFinal).
MoneyIsFinal == [][MoneyKept]_vars

\* A row that says captured goes on saying so.
CaptureKept ==
    \A p \in PaymentIds : payments[p].status = "captured" => payments'[p].status = "captured"

\* "Never move a captured payment backwards (webhooks can arrive out of order)."
\* Does not hold: the guard (RowStatus) names authorized and failed, and a
\* snapshot the expiry job fetched while the payment was still created may be
\* finalized after the webhook of the capture.
CapturedIsFinal == [][CaptureKept]_vars

-----------------------------------------------------------------------------
(* Liveness *)

\* The clock moves, the interval timer starts the job again, and the node
\* process runs the job and its handlers to their end.  Faults are bounded;
\* members and admins owe nothing.
JobFairness ==
    /\ WF_vars(Tick)
    /\ WF_vars(\E S \in SUBSET Orders : JobStart(S))
    /\ WF_vars(\E d \in job.due : JobAsk(d))
    /\ SF_vars(\E x \in job.todo : JobFinalize(x) \/ JobIgnores(x))
    /\ WF_vars(JobExpire)
    /\ \A p \in PaymentIds : WF_vars(\E h \in handlers : h.payment = p /\ Finalize(h))

\* Razorpay repeats a webhook until it is acknowledged, unless it is lost for good.
FairSpec == Spec /\ JobFairness /\ \A p \in Delivered : SF_vars(Webhook(p, "captured"))

\* A captured payment whose webhook comes through ends as a booking or as a
\* requested refund, even when handlers fail or the process stops between commit and acknowledgement.
CapturedEventuallySettled ==
    \A p \in Delivered :
        remote[p].status = "captured" ~>
            payments[p].refund = "pending" \/ \E o \in Orders : bookings[o].payment = p

\* Seats are not held for ever: an open order is paid, replaced, failed or
\* expired in the end.
HoldEventuallyReleased ==
    \A o \in Orders : orders[o].status = "created" ~> orders[o].status # "created"

\* A member who paid while the seats were held gets the order's booking (or the
\* refund) without any webhook: the job asks Razorpay before it releases the seats.
PaidHoldReconciled ==
    \A p \in PaymentIds, o \in Orders :
        remote[p].status = "captured" /\ remote[p].rzp[1] = o /\ Live(o) ~>
            payments[p].refund = "pending" \/ bookings[o].status # "none"
=============================================================================
