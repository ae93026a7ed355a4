------------------------------- MODULE Refunds -------------------------------
(***************************************************************************)
(* What happens to a payment once its money has to go back.                *)
(*                                                                         *)
(* Source: startRefund, applyRefund, onRefundWebhook and refundBooking of  *)
(* apps/api/src/modules/payments/payments.service.ts, and the branches of  *)
(* finalize() that ask for a refund.                                       *)
(*                                                                         *)
(* Unlike finalize(), this code runs outside transactions: a handler reads *)
(* a row, calls Razorpay, and writes the payment and then the booking in   *)
(* two statements.  A handler in flight is a record that says where it is, *)
(* what it read (Sequelize writes only the columns whose new value differs *)
(* from the value it read) and what it is going to write.                  *)
(***************************************************************************)
EXTENDS Integers, FiniteSets

CONSTANTS
    Booked,       \* payments that pay for a booking
    Extra,        \* second captured payments of an order that is already paid
    Mismatched,   \* payments of another amount than their order's
    RefundIds,    \* Razorpay refunds
    Slots,        \* bound: handlers in flight
    MaxErrors,    \* bound: refund calls that fail or time out
    MaxRestarts,  \* bound: restarts of the API process
    Null

PaymentIds == Booked \cup Extra \cup Mismatched

ASSUME RefundAssumption ==
    /\ Booked \cap Extra = {} /\ Booked \cap Mismatched = {} /\ Extra \cap Mismatched = {}
    /\ MaxErrors \in Nat
    /\ MaxRestarts \in Nat
    /\ Null \notin PaymentIds /\ Null \notin RefundIds

VARIABLES
    payments,   \* the payments table
    bookings,   \* the event_bookings table, by payment
    remote,     \* Razorpay's refunds
    seen,       \* per refund: the statuses it has had, each announced by a webhook
    handled,    \* webhook events whose payment_webhook_events row is processed
    handlers,   \* the handlers in flight
    disturbed,  \* history: payments whose handlers overlapped or were cut in two
    errors,     \* failed refund calls so far
    restarts    \* restarts so far

vars == <<payments, bookings, remote, seen, handled, handlers, disturbed, errors, restarts>>

RefundStatus == {"none", "pending", "processed", "failed"}
RazorpayRefundStatus == {"pending", "processed", "failed"}

PaymentRow == [status : {"authorized", "captured", "refunded"}, refund : RefundStatus]
BookingRow == [status : {"none", "confirmed", "cancelled"}, refund : RefundStatus]
RemoteRefund == [payment : PaymentIds \cup {Null}, status : RazorpayRefundStatus \cup {"none"}]

\* at: the next thing it does.  memory: the payment as it was read.  status: the
\* refund status it applies.  refund: the refund a webhook is about.
Handler == [at : {"call", "payment", "booking", "acknowledge"}, payment : PaymentIds,
            memory : PaymentRow, status : RazorpayRefundStatus, refund : RefundIds \cup {Null}]
Idle == [at |-> "idle"]

TypeOK ==
    /\ payments \in [PaymentIds -> PaymentRow]
    /\ bookings \in [PaymentIds -> BookingRow]
    /\ remote \in [RefundIds -> RemoteRefund]
    /\ seen \in [RefundIds -> SUBSET RazorpayRefundStatus]
    /\ handled \subseteq RefundIds \X RazorpayRefundStatus
    /\ handlers \in [Slots -> Handler \cup {Idle}]
    /\ disturbed \subseteq PaymentIds
    /\ errors \in 0 .. MaxErrors
    /\ restarts \in 0 .. MaxRestarts

-----------------------------------------------------------------------------
(* Handlers in flight *)

Busy(p) == \E i \in Slots : handlers[i].at # "idle" /\ handlers[i].payment = p

\* A handler starts in a free slot, whatever else is at work on its payment.
Begin(h) ==
    /\ \E i \in Slots : /\ handlers[i] = Idle
                        /\ handlers' = [handlers EXCEPT ![i] = h]
    /\ disturbed' = disturbed \cup {p \in {h.payment} : Busy(p)}

\* startRefund(payment): the row's columns as the transaction before it left them.
\* The bound: RefundIds has a refund for every call that is still to be made.
StartRefund(p, row) ==
    /\ Cardinality({i \in Slots : handlers[i].at = "call"})
         < Cardinality({r \in RefundIds : remote[r].status = "none"})
    /\ Begin([at |-> "call", payment |-> p, memory |-> row, status |-> "pending", refund |-> Null])

\* Payments of which a handler has written the payment and not yet the booking.
HalfWritten == {p \in PaymentIds : \E i \in Slots : handlers[i].at = "booking" /\ handlers[i].payment = p}

\* The process restarts: the handlers are gone.
Restart ==
    /\ restarts < MaxRestarts
    /\ restarts' = restarts + 1
    /\ handlers' = [i \in Slots |-> Idle]
    /\ disturbed' = disturbed \cup HalfWritten
    /\ UNCHANGED <<payments, bookings, remote, seen, handled, errors>>

-----------------------------------------------------------------------------
(* What asks for a refund *)

Processed(p) == \E r \in RefundIds : remote[r].payment = p /\ remote[r].status = "processed"

\* finalize() for a captured payment; `honoured` is whether its booking could be
\* confirmed.  A refunded row becomes captured again.
Finalize(p, honoured) ==
    /\ bookings' =
         IF p \in Booked /\ bookings[p].status = "none"
         THEN [bookings EXCEPT ![p] = IF honoured THEN [status |-> "confirmed", refund |-> "none"]
                                      ELSE [status |-> "cancelled", refund |-> "pending"]]
         ELSE bookings
    /\ LET asks == \/ p \in Booked /\ bookings[p].status = "none" /\ ~honoured
                   \/ p \notin Booked /\ payments[p].refund = "none"
           row == [status |-> "captured", refund |-> IF asks THEN "pending" ELSE payments[p].refund]
       IN /\ payments' = [payments EXCEPT ![p] = row]
          /\ IF asks \/ p \in Mismatched THEN StartRefund(p, row) ELSE UNCHANGED <<handlers, disturbed>>
    /\ UNCHANGED <<remote, seen, handled, errors, restarts>>

\* finalize() when Razorpay reports the payment itself as refunded.
FinalizeRefunded(p) ==
    /\ Processed(p)
    /\ payments' = [payments EXCEPT ![p].status = "refunded"]
    /\ UNCHANGED <<bookings, remote, seen, handled, handlers, disturbed, errors, restarts>>

\* refundBooking refuses a refund that is in progress or done.
RefundAllowed(p) ==
    /\ bookings[p].status # "none" /\ bookings[p].refund \in {"none", "failed"}
    /\ payments[p].status = "captured"

\* A wrong CancelledBooking: the pass stays valid while its money goes back.
CancelledBookingKept(p) == [bookings[p] EXCEPT !.refund = "pending"]

CancelledBooking(p) == [status |-> "cancelled", refund |-> "pending"]

\* refundBooking: an admin asks for the refund, or for a retry of a failed one.
RefundBooking(p) ==
    /\ RefundAllowed(p)
    /\ bookings' = [bookings EXCEPT ![p] = CancelledBooking(p)]
    /\ payments' = [payments EXCEPT ![p].refund = "pending"]
    /\ StartRefund(p, [payments[p] EXCEPT !.refund = "pending"])
    /\ UNCHANGED <<remote, seen, handled, errors, restarts>>

-----------------------------------------------------------------------------
(* Razorpay (external) *)

\* Razorpay refuses to refund more than was captured.
Refundable(p) ==
    \A r \in RefundIds : remote[r].payment = p => remote[r].status = "failed"

Error == errors < MaxErrors /\ errors' = errors + 1

NewRefund(r, p, s) ==
    /\ remote[r].status = "none"
    /\ Refundable(p)
    /\ remote' = [remote EXCEPT ![r] = [payment |-> p, status |-> s]]
    /\ seen' = [seen EXCEPT ![r] = {s}]

\* What is applied after the call: the answer, or 'failed' when it throws.
Answered(i, s) ==
    /\ handlers[i].at = "call"
    /\ handlers' = [handlers EXCEPT ![i].at = "payment", ![i].status = s]
    /\ UNCHANGED <<payments, bookings, handled, disturbed, restarts>>

RefundAccepted(i, r, s) ==
    /\ Answered(i, s)
    /\ NewRefund(r, handlers[i].payment, s)
    /\ UNCHANGED errors

\* The refund exists and the answer does not arrive in time.
RefundTimesOut(i, r, s) ==
    /\ Error
    /\ Answered(i, "failed")
    /\ NewRefund(r, handlers[i].payment, s)

RefundRefused(i) ==
    /\ Answered(i, "failed")
    /\ Error \/ (~Refundable(handlers[i].payment) /\ UNCHANGED errors)
    /\ UNCHANGED <<remote, seen>>

RemoteStep(r, s) ==
    /\ remote[r].status = "pending"
    /\ s # "pending"
    /\ remote' = [remote EXCEPT ![r].status = s]
    /\ seen' = [seen EXCEPT ![r] = @ \cup {s}]
    /\ UNCHANGED <<payments, bookings, handled, handlers, disturbed, errors, restarts>>

-----------------------------------------------------------------------------
(* onRefundWebhook and applyRefund *)

\* A wrong IgnoredEvent: every event is applied; or none once a refund was asked for.
IgnoredEventNone(p, s) == FALSE
IgnoredEventAll(p, s) == payments[p].refund # "none"

\* "A final state is never overwritten by a late event."
IgnoredEvent(p, s) ==
    payments[p].refund = "processed" \/ (payments[p].refund = "failed" /\ s = "pending")

\* The event is read, and the payment with it.  An ignored one is acknowledged.
RefundWebhook(r, s) ==
    /\ s \in seen[r]
    /\ <<r, s>> \notin handled
    /\ LET p == remote[r].payment IN
       Begin([at |-> IF IgnoredEvent(p, s) THEN "acknowledge" ELSE "payment",
              payment |-> p, memory |-> payments[p], status |-> s, refund |-> r])
    /\ UNCHANGED <<payments, bookings, remote, seen, handled, errors, restarts>>

\* A wrong RefundedRow: an answer that is not a failure counts as done.
RefundedRowOptimistic(h) ==
    IF h.status = "failed" THEN [payments[h.payment] EXCEPT !.refund = "failed"]
    ELSE [status |-> "refunded", refund |-> "processed"]

\* payment.update: only the columns that differ from what was read.
RefundedRow(h) ==
    [status |-> IF h.status = "processed" /\ h.memory.status # "refunded"
                THEN "refunded" ELSE payments[h.payment].status,
     refund |-> IF h.status # h.memory.refund THEN h.status ELSE payments[h.payment].refund]

\* Where a handler goes when the refund is applied: only webhooks acknowledge.
Done(h) == IF h.refund = Null THEN Idle ELSE [h EXCEPT !.at = "acknowledge"]

\* applyRefund, first statement.
WritePayment(i) ==
    /\ handlers[i].at = "payment"
    /\ LET h == handlers[i] IN
       /\ payments' = [payments EXCEPT ![h.payment] = RefundedRow(h)]
       /\ handlers' = [handlers EXCEPT ![i] =
              IF h.payment \in Booked THEN [h EXCEPT !.at = "booking"] ELSE Done(h)]
    /\ UNCHANGED <<bookings, remote, seen, handled, disturbed, errors, restarts>>

\* applyRefund, second statement: the booking is read and written whatever it says.
WriteBooking(i) ==
    /\ handlers[i].at = "booking"
    /\ bookings' = [bookings EXCEPT ![handlers[i].payment].refund = handlers[i].status]
    /\ handlers' = [handlers EXCEPT ![i] = Done(handlers[i])]
    /\ UNCHANGED <<payments, remote, seen, handled, disturbed, errors, restarts>>

\* record.update({ processedAt })
Acknowledge(i) ==
    /\ handlers[i].at = "acknowledge"
    /\ handled' = handled \cup {<<handlers[i].refund, handlers[i].status>>}
    /\ handlers' = [handlers EXCEPT ![i] = Idle]
    /\ UNCHANGED <<payments, bookings, remote, seen, disturbed, errors, restarts>>

-----------------------------------------------------------------------------
(* Specification *)

\* Payments that Razorpay authorized and that finalize() has recorded.
Init ==
    /\ payments = [p \in PaymentIds |-> [status |-> "authorized", refund |-> "none"]]
    /\ bookings = [p \in PaymentIds |-> [status |-> "none", refund |-> "none"]]
    /\ remote = [r \in RefundIds |-> [payment |-> Null, status |-> "none"]]
    /\ seen = [r \in RefundIds |-> {}]
    /\ handled = {}
    /\ handlers = [i \in Slots |-> Idle]
    /\ disturbed = {}
    /\ errors = 0
    /\ restarts = 0

Call(i) ==
    \/ \E r \in RefundIds, s \in {"pending", "processed"} :
          RefundAccepted(i, r, s) \/ RefundTimesOut(i, r, s)
    \/ RefundRefused(i)

Next ==
    \/ \E p \in PaymentIds :
          \/ \E honoured \in BOOLEAN : Finalize(p, honoured)
          \/ FinalizeRefunded(p)
          \/ RefundBooking(p)
    \/ \E r \in RefundIds, s \in RazorpayRefundStatus : RemoteStep(r, s) \/ RefundWebhook(r, s)
    \/ \E i \in Slots : Call(i) \/ WritePayment(i) \/ WriteBooking(i) \/ Acknowledge(i)
    \/ Restart

Spec == Init /\ [][Next]_vars

\* The process runs its handlers to their end, Razorpay decides every refund and
\* repeats the event that says so until it is acknowledged; payment webhooks are
\* repeated too.  The event of a refund that was only created may be lost.
FairSpec ==
    /\ Spec
    /\ \A i \in Slots : WF_vars(Call(i) \/ WritePayment(i) \/ WriteBooking(i) \/ Acknowledge(i))
    /\ \A r \in RefundIds :
          /\ WF_vars(\E s \in RazorpayRefundStatus : RemoteStep(r, s))
          /\ \A s \in {"processed", "failed"} : SF_vars(RefundWebhook(r, s))
    /\ \A p \in PaymentIds : WF_vars(Finalize(p, TRUE))

-----------------------------------------------------------------------------
(* Safety *)

\* A refund that the member or an admin sees as processed is one that Razorpay
\* processed, whatever answers were lost and whichever handlers overlapped.
ProcessedIsReal ==
    \A p \in PaymentIds :
        payments[p].refund = "processed" \/ bookings[p].refund = "processed" => Processed(p)

\* Money never goes back for a pass that is still valid: the booking is
\* cancelled before Razorpay is asked, and stays so.
NoPassAndRefund ==
    \A r \in RefundIds, p \in Booked :
        remote[r].payment = p => bookings[p].status = "cancelled"

\* Every event of a payment's refunds is acknowledged and no handler is at work on it.
AtRest(p) ==
    /\ ~Busy(p)
    /\ \A r \in RefundIds, s \in RazorpayRefundStatus :
          remote[r].payment = p /\ s \in seen[r] => <<r, s>> \in handled

\* Lost answers heal: at rest the payment and its booking agree, and say processed
\* exactly when Razorpay does, after time-outs, refused retries, late or repeated
\* events and restarts.  This needs that no two handlers of the payment
\* overlapped, and that no restart fell between the two writes of applyRefund():
\* the event that is delivered again is then ignored, and the booking keeps what
\* it had.  It is not so for a payment of another amount: each finalize() of it
\* asks for a refund again, and the refusal overwrites what was processed.
RestAgrees ==
    \A p \in (Booked \cup Extra) \ disturbed : AtRest(p) =>
        /\ payments[p].refund = "processed" <=> Processed(p)
        /\ p \in Booked => bookings[p].refund = payments[p].refund

\* "A processed refund is final and never overwritten by a late event", on the
\* payment and on its booking.  Does not hold where the handlers of a payment
\* overlap (startRefund() may write an older answer last), nor for a payment of
\* another amount (each finalize() of it starts a refund again).
ProcessedFinal ==
    [][\A p \in PaymentIds :
          /\ payments[p].refund = "processed" => payments'[p].refund = "processed"
          /\ bookings[p].refund = "processed" => bookings'[p].refund = "processed"]_vars

-----------------------------------------------------------------------------
(* Liveness *)

\* The requested refund of a booking's payment is decided in the end, also when
\* the call, its time-out, a retry and the events of both refunds overlap, as
\* long as the process is not stopped (BookingRefundDecided shows the stop).
RefundDecided ==
    \A p \in Booked : payments[p].refund = "pending" ~> payments[p].refund # "pending"

\* The same for what the member sees, the booking.
BookingRefundDecided ==
    \A p \in Booked : bookings[p].refund = "pending" ~> bookings[p].refund # "pending"
=============================================================================
