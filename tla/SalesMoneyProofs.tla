-------------------------- MODULE SalesMoneyProofs --------------------------
(***************************************************************************)
(* Proofs about the money of PassSales: one open order per member, what a  *)
(* booking rests on, what happens to every captured payment, and what no   *)
(* later step may take back; and that PassSales implements SeatLedger: its *)
(* every step is a step of the ledger or leaves it as it was.              *)
(***************************************************************************)
EXTENDS SalesLedger, PassSalesProofs

Captured(p) == remote[p].status = "captured"

\* Whoever believes that a payment was captured is right: webhooks, calls of
\* finalize() in flight, the job's list and the payments table.
CaptureBelieved ==
    /\ \A p \in PaymentIds : "captured" \in seen[p] => Captured(p)
    /\ \A h \in handlers : h.status = "captured" => Captured(h.payment)
    /\ \A x \in job.todo : x[2] = "captured" => Captured(x[1])
    /\ \A p \in PaymentIds : payments[p].status = "captured" => Captured(p)

\* No booking has no payment; a cancelled one is to be refunded.
BookingShape ==
    \A o \in Orders :
        /\ bookings[o].status = "none" => bookings[o].payment = Null
        /\ bookings[o].status # "none" => bookings[o].payment \in PaymentIds
        /\ bookings[o].status = "cancelled" => bookings[o].refund = "pending"

\* The first half of BookingBacked, per order: the second half follows from it.
Backed ==
    \A o \in Orders : bookings[o].status # "none" =>
        /\ Captured(bookings[o].payment)
        /\ remote[bookings[o].payment].exact
        /\ OrderOf(bookings[o].payment) = o

\* The inductive invariant.  CapturedAccounted needs that a payment row marked
\* captured is one of Razorpay's, and that a booked order is never booked again.
MoneyInv == TypeInv /\ CaptureBelieved /\ BookingShape /\ Backed /\ CapturedAccounted

-----------------------------------------------------------------------------
(* One open order per member *)

LEMMA NextOneOpenOrder == TypeInv /\ OneOpenOrder /\ [Next]_vars => OneOpenOrder'
  <1> SUFFICES ASSUME TypeInv, OneOpenOrder, [Next]_vars PROVE OneOpenOrder'
    OBVIOUS
  <1>1. orders \in [Orders -> OrderRow] /\ job \in JobState
    BY DEF TypeInv, TypeOK
  <1>2. ASSUME \A o \in Orders : orders'[o].status = "created" => orders[o].status = "created"
        PROVE  OneOpenOrder'
    BY <1>2 DEF OneOpenOrder
  <1>3. ASSUME NEW o \in Orders, NEW quantity \in 1 .. MaxQuantity, CreateOrder(o, quantity)
        PROVE  OneOpenOrder'
    <2>1. \A q \in Orders : orders'[q].status = "created" =>
             q = o \/ (orders[q].status = "created" /\ q[1] # o[1])
      BY <1>1, <1>3 DEF CreateOrder, ReplaceOrders, SupersededBy, OrderRow
    <2> QED BY <2>1 DEF OneOpenOrder
  <1>4. ASSUME NEW o \in Orders, Attach(o) \/ AttachFails(o)
        PROVE  OneOpenOrder'
    BY <1>1, <1>2, <1>4 DEF Attach, AttachFails, FailedStatus, OrderRow
  <1>5. ASSUME NEW h \in handlers, Record(h.payment, h.status)
        PROVE  OneOpenOrder'
    <2>1. \A q \in Orders : orders'[q].status = "created" => orders[q].status = "created"
      <3>1. h.payment \in PaymentIds /\ h.status \in PaymentStatus /\ remote[h.payment].status # "none"
        BY DEF TypeInv, TypeOK, PaymentsExist, Handler
      <3>2. OrderOf(h.payment) \in Orders
        BY <1>5, <3>1, RecordType
      <3> QED BY <1>1, <1>5, <3>2 DEF Record, OrderRow
    <2> QED BY <1>2, <2>1
  <1>6. CASE JobExpire
    <2>1. job.order \in Orders
      BY <1>1, <1>6 DEF JobExpire, JobState
    <2> QED BY <1>1, <1>2, <1>6, <2>1 DEF JobExpire, ExpiredStatus, OrderRow
  <1>7. CASE UNCHANGED orders
    BY <1>2, <1>7
  <1> QED
    BY <1>3, <1>4, <1>5, <1>6, <1>7
    DEF Next, vars, tables, JoinOrder, RefundBooking, Pay, RemoteStep, Webhook, WebhookIgnored,
        Verify, Finalize, FinalizeThenStop, FinalizeFails, JobStart, JobAsk, JobAskFails,
        JobFinalize, JobIgnores, Publish, Unpublish, Archive, Restore, EventTransition,
        Reschedule, UpdatePass, Tick, Restart

\* A member never has two open orders of the event, however many keys race and
\* whichever createOrder call fails late.
THEOREM MembersHoldOnce == Spec => []OneOpenOrder
  <1>1. Init => OneOpenOrder
    BY DEF Init, OneOpenOrder, NoOrder
  <1> QED BY InitTypeInv, NextTypeInv, <1>1, NextOneOpenOrder, PTL DEF Spec

-----------------------------------------------------------------------------
(* What Razorpay captured stays captured *)

\* The payment's order and amount are settled when it is made, and a captured
\* payment is never anything else again.
RemoteKept ==
    \A p \in PaymentIds :
        /\ remote[p].status # "none" => /\ remote'[p].rzp = remote[p].rzp
                                        /\ remote'[p].exact = remote[p].exact
        /\ remote[p].status = "captured" => remote'[p].status = "captured"

\* finalize()'s first part: what it captures is captured, and the call that it
\* starts carries "captured" only for a captured payment.
LEMMA StartFinalizeBelieved ==
  ASSUME TypeInv, CaptureBelieved, NEW p \in PaymentIds, NEW s \in PaymentStatus,
         NEW source \in PaymentStatus \cup {"verify", "job"},
         s = "captured" => Captured(p), StartFinalize(p, s, source)
  PROVE  /\ RemoteKept
         /\ \A q \in PaymentIds : "captured" \in seen'[q] => remote'[q].status = "captured"
         /\ \A h \in handlers' : h.status = "captured" => remote'[h.payment].status = "captured"
  <1>1. /\ remote \in [PaymentIds -> RemotePayment]
        /\ seen \in [PaymentIds -> SUBSET PaymentStatus]
        /\ handlers \subseteq Handler
    BY DEF TypeInv, TypeOK
  <1>2. CASE /\ remote' = [remote EXCEPT ![p].status = "captured"]
             /\ seen' = [seen EXCEPT ![p] = @ \cup {"captured"}]
             /\ handlers' = handlers \cup
                  {[payment |-> p, status |-> "captured", source |-> source]}
    <2>1. /\ \A q \in PaymentIds : remote'[q].rzp = remote[q].rzp /\ remote'[q].exact = remote[q].exact
          /\ remote'[p].status = "captured"
          /\ \A q \in PaymentIds : q # p => remote'[q].status = remote[q].status
      BY <1>1, <1>2 DEF RemotePayment
    <2>2. RemoteKept
      BY <2>1 DEF RemoteKept
    <2>3. \A q \in PaymentIds : "captured" \in seen'[q] => remote'[q].status = "captured"
      BY <1>1, <1>2, <2>1 DEF CaptureBelieved, Captured
    <2>4. \A h \in handlers' : h.status = "captured" => remote'[h.payment].status = "captured"
      BY <1>1, <1>2, <2>1 DEF CaptureBelieved, Captured, Handler
    <2> QED BY <2>2, <2>3, <2>4
  <1>3. CASE /\ UNCHANGED <<remote, seen>>
             /\ \/ handlers' = handlers \cup
                      {[payment |-> p, status |-> remote[p].status, source |-> source]}
                \/ handlers' = handlers \cup {[payment |-> p, status |-> s, source |-> source]}
    BY <1>1, <1>3 DEF RemoteKept, CaptureBelieved, Captured
  <1> QED BY <1>2, <1>3 DEF StartFinalize

LEMMA NextCaptureBelieved ==
  ASSUME TypeInv, CaptureBelieved, [Next]_vars
  PROVE  RemoteKept /\ CaptureBelieved'
  <1>1. /\ remote \in [PaymentIds -> RemotePayment]
        /\ seen \in [PaymentIds -> SUBSET PaymentStatus]
        /\ payments \in [PaymentIds -> PaymentRow]
        /\ handlers \subseteq Handler
        /\ job \in JobState
        /\ PaymentsExist
    BY DEF TypeInv, TypeOK
  <1>2. ASSUME UNCHANGED <<remote, seen, payments>>, handlers' \subseteq handlers,
               \A x \in job'.todo : x \in job.todo
        PROVE  RemoteKept /\ CaptureBelieved'
    BY <1>2 DEF RemoteKept, CaptureBelieved, Captured
  <1>3. ASSUME UNCHANGED payments, RemoteKept,
               \A q \in PaymentIds : "captured" \in seen'[q] => remote'[q].status = "captured",
               \A h \in handlers' : h.status = "captured" => remote'[h.payment].status = "captured",
               \A x \in job'.todo : x \in job.todo
        PROVE  CaptureBelieved'
    <2>1. \A x \in job.todo : x[1] \in PaymentIds
      BY <1>1 DEF JobState
    <2> QED BY <1>3, <2>1 DEF RemoteKept, CaptureBelieved, Captured
  <1>4. ASSUME NEW p \in PaymentIds, NEW r \in RazorpayOrder, NEW exact \in Amounts, Pay(p, r, exact)
        PROVE  RemoteKept /\ CaptureBelieved'
    <2>1. /\ remote[p].status = "none"
          /\ \A q \in PaymentIds : q # p => remote'[q] = remote[q] /\ seen'[q] = seen[q]
          /\ seen'[p] = {"created"}
          /\ UNCHANGED <<payments, handlers, job>>
      BY <1>1, <1>4 DEF Pay, tables
    <2>2. RemoteKept
      BY <2>1 DEF RemoteKept
    <2>3. \A h \in handlers : h.payment \in PaymentIds
      BY <1>1 DEF Handler
    <2>4. \A h \in handlers' : h.status = "captured" => remote'[h.payment].status = "captured"
      BY <2>1, <2>2, <2>3 DEF CaptureBelieved, Captured, RemoteKept
    <2>5. \A q \in PaymentIds : "captured" \in seen'[q] => remote'[q].status = "captured"
      BY <2>1 DEF CaptureBelieved, Captured
    <2> QED BY <1>3, <2>1, <2>2, <2>4, <2>5
  <1>5. ASSUME NEW p \in PaymentIds, NEW s \in PaymentStatus, RemoteStep(p, s)
        PROVE  RemoteKept /\ CaptureBelieved'
    <2>1. remote[p].status # "captured"
      BY <1>5 DEF RemoteStep, RemoteNext
    <2>2. /\ \A q \in PaymentIds : remote'[q].rzp = remote[q].rzp /\ remote'[q].exact = remote[q].exact
          /\ remote'[p].status = s
          /\ \A q \in PaymentIds : q # p => remote'[q].status = remote[q].status /\ seen'[q] = seen[q]
          /\ seen'[p] = seen[p] \cup {s}
          /\ UNCHANGED <<payments, handlers, job>>
      BY <1>1, <1>5 DEF RemoteStep, RemotePayment, tables
    <2>3. RemoteKept
      BY <2>1, <2>2 DEF RemoteKept
    <2>4. \A h \in handlers : h.payment \in PaymentIds
      BY <1>1 DEF Handler
    <2>5. \A h \in handlers' : h.status = "captured" => remote'[h.payment].status = "captured"
      BY <2>2, <2>3, <2>4 DEF CaptureBelieved, Captured, RemoteKept
    <2>6. \A q \in PaymentIds : "captured" \in seen'[q] => remote'[q].status = "captured"
      BY <2>1, <2>2 DEF CaptureBelieved, Captured
    <2> QED BY <1>3, <2>2, <2>3, <2>5, <2>6
  <1>6. ASSUME NEW p \in PaymentIds, NEW s \in PaymentStatus, Webhook(p, s)
        PROVE  RemoteKept /\ CaptureBelieved'
    <2>1. s = "captured" => Captured(p)
      BY <1>6 DEF Webhook, CaptureBelieved
    <2> QED BY <1>3, <1>6, <2>1, StartFinalizeBelieved DEF Webhook, tables
  <1>7. ASSUME NEW p \in PaymentIds, Verify(p)
        PROVE  RemoteKept /\ CaptureBelieved'
    <2>1. remote[p].status \in PaymentStatus
      BY <1>1, <1>7 DEF Verify, RemotePayment
    <2> QED BY <1>3, <1>7, <2>1, StartFinalizeBelieved DEF Verify, tables, Captured
  <1>8. ASSUME NEW x \in job.todo, JobFinalize(x)
        PROVE  RemoteKept /\ CaptureBelieved'
    <2>1. x[1] \in PaymentIds /\ x[2] \in PaymentStatus
      BY <1>1 DEF JobState
    <2>2. x[2] = "captured" => Captured(x[1])
      BY DEF CaptureBelieved
    <2>3. \A y \in job'.todo : y \in job.todo
      BY <1>1, <1>8 DEF JobFinalize, JobState
    <2> QED BY <1>3, <1>8, <2>1, <2>2, <2>3, StartFinalizeBelieved DEF JobFinalize, tables
  <1>9. ASSUME NEW d \in job.due, JobAsk(d)
        PROVE  RemoteKept /\ CaptureBelieved'
    <2>1. UNCHANGED <<remote, seen, payments, handlers>>
      BY <1>9 DEF JobAsk, tables, razorpay
    <2>2. \A x \in job'.todo : x[2] = "captured" => Captured(x[1])
      BY <1>9 DEF JobAsk, Captured
    <2> QED BY <2>1, <2>2 DEF RemoteKept, CaptureBelieved, Captured
  <1>10. ASSUME NEW h \in handlers, Finalize(h) \/ FinalizeThenStop(h)
         PROVE  RemoteKept /\ CaptureBelieved'
    <2>1. h.payment \in PaymentIds
      BY <1>1 DEF Handler
    <2>2. \A q \in PaymentIds : q # h.payment => payments'[q] = payments[q]
      BY <1>1, <1>10, <2>1 DEF Finalize, FinalizeThenStop, Record
    <2>3. payments'[h.payment].status = RowStatus(h.payment, h.status)
      BY <1>1, <1>10, <2>1 DEF Finalize, FinalizeThenStop, Record
    <2>4. RowStatus(h.payment, h.status) = "captured" => Captured(h.payment)
      BY <2>1 DEF RowStatus, CaptureBelieved
    <2>5. UNCHANGED <<remote, seen>> /\ handlers' \subseteq handlers
      BY <1>10 DEF Finalize, FinalizeThenStop, Forget, razorpay
    <2>6. \A x \in job'.todo : x \in job.todo
      BY <1>10 DEF Finalize, FinalizeThenStop, Forget, Idle
    <2> QED BY <2>1, <2>2, <2>3, <2>4, <2>5, <2>6 DEF RemoteKept, CaptureBelieved, Captured
  <1>11. ASSUME NEW o \in Orders, RefundBooking(o)
         PROVE  RemoteKept /\ CaptureBelieved'
    <2>1. \A q \in PaymentIds : payments'[q].status = payments[q].status
      BY <1>1, <1>11 DEF RefundBooking, PaymentRow
    <2>2. UNCHANGED <<remote, seen, handlers, job>>
      BY <1>11 DEF RefundBooking, razorpay
    <2> QED BY <2>1, <2>2 DEF RemoteKept, CaptureBelieved, Captured
  <1>12. ASSUME NEW h \in handlers, FinalizeFails(h)
         PROVE  RemoteKept /\ CaptureBelieved'
    <2>1. \A x \in job'.todo : x \in job.todo
      BY <1>1, <1>12 DEF FinalizeFails, JobState
    <2>2. handlers' \subseteq handlers /\ UNCHANGED <<remote, seen, payments>>
      BY <1>12 DEF FinalizeFails, tables, razorpay
    <2> QED BY <1>2, <2>1, <2>2
  <1>13. CASE \/ \E S \in SUBSET Orders : JobStart(S)
              \/ \E d \in job.due : JobAskFails(d)
              \/ \E x \in job.todo : JobIgnores(x)
              \/ JobExpire
    <2>1. \A x \in job'.todo : x \in job.todo
      BY <1>1, <1>13 DEF JobStart, JobAskFails, JobIgnores, JobExpire, Idle, JobState
    <2>2. UNCHANGED <<remote, seen, payments, handlers>>
      BY <1>13 DEF JobStart, JobAskFails, JobIgnores, JobExpire, tables, razorpay
    <2> QED BY <1>2, <2>1, <2>2
  <1>14. CASE Restart
    BY <1>2, <1>14 DEF Restart, Forget, Idle, tables, razorpay
  <1>15. CASE UNCHANGED <<remote, seen, payments, handlers, job>>
    BY <1>2, <1>15
  <1> QED
    BY <1>4, <1>5, <1>6, <1>7, <1>8, <1>9, <1>10, <1>11, <1>12, <1>13, <1>14, <1>15
    DEF Next, vars, tables, razorpay, CreateOrder, JoinOrder, Attach, AttachFails, WebhookIgnored,
        Publish, Unpublish, Archive, Restore, EventTransition, Reschedule, UpdatePass, Tick

-----------------------------------------------------------------------------
(* Bookings, captured payments and what is final *)

\* finalize()'s transaction, for a call that carries a payment's state.
LEMMA RecordMoney ==
  ASSUME MoneyInv, NEW h \in handlers, Record(h.payment, h.status), UNCHANGED <<now, event, remote>>
  PROVE  BookingShape' /\ Backed' /\ CapturedAccounted' /\ MoneyKept
  <1> DEFINE p == h.payment
             s == h.status
             o == OrderOf(p)
             row == [status |-> RowStatus(p, s), refund |-> RowRefund(p, s)]
  <1>1. /\ p \in PaymentIds /\ s \in PaymentStatus /\ remote[p].status # "none"
        /\ TypeInv /\ CaptureBelieved /\ BookingShape /\ Backed /\ CapturedAccounted
    BY DEF MoneyInv, TypeInv, TypeOK, PaymentsExist, Handler
  <1>2. o \in Orders
    BY <1>1, RecordType
  <1>3. /\ orders \in [Orders -> OrderRow] /\ bookings \in [Orders -> BookingRow]
        /\ payments \in [PaymentIds -> PaymentRow] /\ Null \notin PaymentIds
    BY <1>1, SalesAssumption DEF TypeInv, TypeOK
  <1>4. payments' = [payments EXCEPT ![p] = row]
    BY DEF Record
  <1>5. RowStatus(p, s) = "captured" => Captured(p)
    BY <1>1 DEF RowStatus, CaptureBelieved
  <1>6. payments[p].refund = "pending" => RowRefund(p, s) = "pending"
    BY DEF RowRefund
  <1>7. \A q \in PaymentIds : OrderOf(q)' = OrderOf(q) /\ Captured(q)' = Captured(q)
    BY DEF OrderOf, Captured
  <1>8. \A q \in PaymentIds : payments[q].refund = "pending" => payments'[q].refund = "pending"
    BY <1>1, <1>3, <1>4, <1>6
  <1>9. CASE ~Books(p, s)
    <2>1. UNCHANGED <<bookings, orders>>
      BY <1>9 DEF Record
    <2>2. BookingShape' /\ Backed'
      BY <1>1, <1>7, <2>1 DEF BookingShape, Backed
    <2>3. ASSUME NEW q \in PaymentIds, payments'[q].status = "captured"
          PROVE  bookings[OrderOf(q)].payment = q \/ payments'[q].refund = "pending"
      <3>1. CASE q = p
        <4>1. RowStatus(p, s) = "captured"
          BY <1>1, <1>3, <1>4, <2>3, <3>1
        <4>2. bookings[o].payment # p => RowRefund(p, s) = "pending"
          BY <1>9, <4>1 DEF RowRefund
        <4> QED BY <1>1, <1>3, <1>4, <3>1, <4>2
      <3>2. CASE q # p
        BY <1>1, <1>3, <1>4, <2>3, <3>2 DEF CapturedAccounted
      <3> QED BY <3>1, <3>2
    <2>4. \A x \in Orders : bookings[x].status = "cancelled" =>
             payments'[bookings[x].payment].refund = "pending"
      BY <1>1, <1>8 DEF CapturedAccounted, BookingShape
    <2>5. CapturedAccounted'
      BY <1>7, <2>1, <2>3, <2>4 DEF CapturedAccounted
    <2>6. MoneyKept
      BY <1>8, <2>1 DEF MoneyKept
    <2> QED BY <2>2, <2>5, <2>6
  <1>10. CASE Books(p, s)
    <2> DEFINE reason == CancelReason(o)
    <2>1. /\ bookings' = [bookings EXCEPT ![o] = BookingFor(p)]
          /\ orders' = [orders EXCEPT ![o].status = "paid"]
          /\ bookings[o].status = "none" /\ RowStatus(p, s) = "captured" /\ remote[p].exact
      BY <1>10 DEF Record, Books
    <2>2. BookingFor(p) =
            [status |-> IF reason = "none" THEN "confirmed" ELSE "cancelled",
             payment |-> p,
             refund |-> IF reason = "none" THEN "none" ELSE "pending",
             reason |-> reason]
      BY DEF BookingFor
    <2>3. bookings[o].payment = Null /\ bookings[o].payment # p
      BY <1>1, <1>2, <1>3, <2>1 DEF BookingShape
    <2>4. reason # "none" => RowRefund(p, s) = "pending"
      BY <2>1, <2>3 DEF RowRefund
    <2> HIDE DEF o, reason, row
    <2>5. /\ bookings'[o].status \in {"confirmed", "cancelled"}
          /\ bookings'[o].payment = p
          /\ bookings'[o].status = "cancelled" => reason # "none" /\ bookings'[o].refund = "pending"
          /\ \A x \in Orders : x # o => bookings'[x] = bookings[x]
      BY <1>2, <1>3, <2>1, <2>2
    <2>6. BookingShape'
      BY <1>1, <2>5 DEF BookingShape
    <2>7. Captured(p) /\ OrderOf(p) = o
      BY <1>5, <2>1 DEF o
    <2>8. Backed'
      <3>1. ASSUME NEW x \in Orders, bookings'[x].status # "none"
            PROVE  LET b == bookings'[x].payment IN
                   b \in PaymentIds /\ Captured(b) /\ remote[b].exact /\ OrderOf(b) = x
        <4>1. CASE x = o
          BY <1>1, <2>1, <2>5, <2>7, <4>1
        <4>2. CASE x # o
          BY <1>1, <2>5, <3>1, <4>2 DEF Backed, BookingShape
        <4> QED BY <4>1, <4>2
      <3> QED BY <1>7, <3>1 DEF Backed
    <2>9. CapturedAccounted'
      <3>1. ASSUME NEW q \in PaymentIds, payments'[q].status = "captured"
            PROVE  bookings'[OrderOf(q)].payment = q \/ payments'[q].refund = "pending"
        <4>1. CASE q = p
          BY <2>5, <2>7, <4>1
        <4>2. CASE q # p
          <5>1. payments'[q] = payments[q]
            BY <1>1, <1>3, <1>4, <4>2
          <5>2. bookings[OrderOf(q)].payment = q \/ payments[q].refund = "pending"
            BY <1>1, <3>1, <5>1 DEF CapturedAccounted
          <5>3. OrderOf(q) \in Orders
            <6>1. remote[q].status # "none"
              BY <1>1, <3>1, <5>1 DEF CaptureBelieved, Captured
            <6> QED BY <1>1, <6>1 DEF TypeInv, PaymentsExist, OrderOf, RazorpayOrder
          <5>4. OrderOf(q) = o => bookings[OrderOf(q)].payment # q
            BY <1>3, <2>3
          <5> QED BY <2>5, <5>1, <5>2, <5>3, <5>4
        <4> QED BY <4>1, <4>2
      <3>2. ASSUME NEW x \in Orders, bookings'[x].status = "cancelled"
            PROVE  payments'[bookings'[x].payment].refund = "pending"
        <4>1. CASE x = o
          <5>1. payments'[p].refund = RowRefund(p, s)
            BY <1>1, <1>3, <1>4 DEF row
          <5> QED BY <2>4, <2>5, <3>2, <4>1, <5>1
        <4>2. CASE x # o
          BY <1>1, <1>8, <2>5, <3>2, <4>2 DEF CapturedAccounted, BookingShape
        <4> QED BY <4>1, <4>2
      <3> QED BY <1>7, <3>1, <3>2 DEF CapturedAccounted
    <2>10. MoneyKept
      <3>1. \A x \in Orders : orders[x].status = "paid" => orders'[x].status = "paid"
        BY <1>2, <1>3, <2>1 DEF OrderRow
      <3> QED BY <1>8, <2>1, <2>5, <3>1 DEF MoneyKept
    <2> QED BY <2>6, <2>8, <2>9, <2>10
  <1> QED BY <1>9, <1>10

\* refundBooking's transaction.
LEMMA RefundBookingMoney ==
  ASSUME MoneyInv, NEW o \in Orders, RefundBooking(o)
  PROVE  BookingShape' /\ Backed' /\ CapturedAccounted' /\ MoneyKept
  <1> DEFINE p == bookings[o].payment
  <1>1. /\ TypeInv /\ CaptureBelieved /\ BookingShape /\ Backed /\ CapturedAccounted
        /\ bookings \in [Orders -> BookingRow] /\ payments \in [PaymentIds -> PaymentRow]
    BY DEF MoneyInv, TypeInv, TypeOK
  <1>2. bookings[o].status # "none" /\ bookings[o].status # "cancelled" /\ p \in PaymentIds
    BY <1>1 DEF RefundBooking, BookingShape
  <1>3. /\ bookings'[o].status = "cancelled" /\ bookings'[o].payment = p
        /\ bookings'[o].refund = "pending"
        /\ \A x \in Orders : x # o => bookings'[x] = bookings[x]
        /\ \A x \in Orders : bookings'[x].payment = bookings[x].payment
    BY <1>1 DEF RefundBooking, BookingRow
  <1>4. /\ payments'[p].refund = "pending" /\ payments'[p].status = payments[p].status
        /\ \A q \in PaymentIds : q # p => payments'[q] = payments[q]
    BY <1>1, <1>2 DEF RefundBooking, PaymentRow
  <1>5. UNCHANGED <<orders, remote>>
    BY DEF RefundBooking, razorpay
  <1>6. \A q \in PaymentIds : OrderOf(q)' = OrderOf(q) /\ Captured(q)' = Captured(q)
    BY <1>5 DEF OrderOf, Captured
  <1> HIDE DEF p
  <1>7. BookingShape'
    BY <1>1, <1>2, <1>3 DEF BookingShape
  <1>8. Backed'
    <2>1. \A x \in Orders : bookings'[x].status # "none" => bookings[x].status # "none"
      BY <1>2, <1>3
    <2>2. \A x \in Orders : bookings[x].status # "none" => bookings[x].payment \in PaymentIds
      BY <1>1 DEF BookingShape
    <2> QED BY <1>1, <1>3, <1>5, <1>6, <2>1, <2>2 DEF Backed
  <1>9. CapturedAccounted'
    <2>1. ASSUME NEW q \in PaymentIds, payments'[q].status = "captured"
          PROVE  bookings'[OrderOf(q)].payment = q \/ payments'[q].refund = "pending"
      <3>1. payments[q].status = "captured"
        BY <1>2, <1>4, <2>1
      <3>2. OrderOf(q) \in Orders
        <4>1. remote[q].status # "none"
          BY <1>1, <3>1 DEF CaptureBelieved, Captured
        <4> QED BY <1>1, <4>1 DEF TypeInv, PaymentsExist, OrderOf, RazorpayOrder
      <3>3. bookings[OrderOf(q)].payment = q \/ payments[q].refund = "pending"
        BY <1>1, <3>1 DEF CapturedAccounted
      <3> QED BY <1>3, <1>4, <3>2, <3>3
    <2>2. ASSUME NEW x \in Orders, bookings'[x].status = "cancelled"
          PROVE  payments'[bookings'[x].payment].refund = "pending"
      <3>1. CASE x = o
        BY <1>3, <1>4, <3>1
      <3>2. CASE x # o
        <4>1. payments[bookings[x].payment].refund = "pending" /\ bookings[x].payment \in PaymentIds
          BY <1>1, <1>3, <2>2, <3>2 DEF CapturedAccounted, BookingShape
        <4> QED BY <1>3, <1>4, <3>2, <4>1
      <3> QED BY <3>1, <3>2
    <2> QED BY <1>6, <2>1, <2>2 DEF CapturedAccounted
  <1>10. MoneyKept
    BY <1>2, <1>3, <1>4, <1>5 DEF MoneyKept
  <1> QED BY <1>7, <1>8, <1>9, <1>10

LEMMA NextMoneyInv ==
  ASSUME MoneyInv, [Next]_vars
  PROVE  MoneyInv' /\ MoneyKept
  <1>1. /\ TypeInv /\ CaptureBelieved /\ BookingShape /\ Backed /\ CapturedAccounted
        /\ orders \in [Orders -> OrderRow] /\ job \in JobState
    BY DEF MoneyInv, TypeInv, TypeOK
  <1>2. TypeInv' /\ CaptureBelieved' /\ RemoteKept
    BY <1>1, NextTypeInv, NextCaptureBelieved
  <1> SUFFICES BookingShape' /\ Backed' /\ CapturedAccounted' /\ MoneyKept
    BY <1>2 DEF MoneyInv
  \* Steps that leave payments and bookings alone.
  <1>3. ASSUME UNCHANGED <<payments, bookings>>,
               \A o \in Orders : orders[o].status = "paid" => orders'[o].status = "paid"
        PROVE  BookingShape' /\ Backed' /\ CapturedAccounted' /\ MoneyKept
    <2>1. \A q \in PaymentIds : Captured(q) =>
             Captured(q)' /\ OrderOf(q)' = OrderOf(q) /\ remote'[q].exact = remote[q].exact
      BY <1>2 DEF RemoteKept, Captured, OrderOf
    <2>2. BookingShape'
      BY <1>1, <1>3 DEF BookingShape
    <2>3. \A o \in Orders : bookings[o].status # "none" => bookings[o].payment \in PaymentIds
      BY <1>1 DEF BookingShape
    <2>4. Backed'
      BY <1>1, <1>3, <2>1, <2>3 DEF Backed
    <2>5. \A q \in PaymentIds : payments[q].status = "captured" => Captured(q)
      BY <1>1 DEF CaptureBelieved
    <2>6. CapturedAccounted'
      BY <1>1, <1>3, <2>1, <2>5 DEF CapturedAccounted
    <2>7. MoneyKept
      BY <1>3 DEF MoneyKept
    <2> QED BY <2>2, <2>4, <2>6, <2>7
  <1>4. ASSUME NEW o \in Orders, NEW quantity \in 1 .. MaxQuantity, CreateOrder(o, quantity)
        PROVE  BookingShape' /\ Backed' /\ CapturedAccounted' /\ MoneyKept
    BY <1>1, <1>3, <1>4 DEF CreateOrder, ReplaceOrders, SupersededBy, OrderRow
  <1>5. ASSUME NEW o \in Orders, Attach(o) \/ AttachFails(o)
        PROVE  BookingShape' /\ Backed' /\ CapturedAccounted' /\ MoneyKept
    BY <1>1, <1>3, <1>5 DEF Attach, AttachFails, FailedStatus, OrderRow
  <1>6. ASSUME NEW o \in Orders, RefundBooking(o)
        PROVE  BookingShape' /\ Backed' /\ CapturedAccounted' /\ MoneyKept
    BY <1>6, RefundBookingMoney
  <1>7. ASSUME NEW h \in handlers, Finalize(h) \/ FinalizeThenStop(h)
        PROVE  BookingShape' /\ Backed' /\ CapturedAccounted' /\ MoneyKept
    BY <1>7, RecordMoney DEF Finalize, FinalizeThenStop, razorpay
  <1>8. CASE JobExpire
    <2>1. job.order \in Orders
      BY <1>1, <1>8 DEF JobExpire, JobState
    <2> QED BY <1>1, <1>3, <1>8, <2>1 DEF JobExpire, ExpiredStatus, OrderRow
  <1>9. CASE UNCHANGED tables
    BY <1>3, <1>9 DEF tables
  <1> QED
    BY <1>4, <1>5, <1>6, <1>7, <1>8, <1>9
    DEF Next, vars, tables, JoinOrder, Pay, RemoteStep, Webhook, WebhookIgnored, Verify,
        FinalizeFails, JobStart, JobAsk, JobAskFails, JobFinalize, JobIgnores, Publish, Unpublish,
        Archive, Restore, EventTransition, Reschedule, UpdatePass, Tick, Restart

LEMMA InitMoneyInv == Init => MoneyInv
  <1> SUFFICES ASSUME Init PROVE MoneyInv
    OBVIOUS
  <1>1. TypeInv
    BY InitTypeInv
  <1>2. CaptureBelieved
    BY DEF Init, CaptureBelieved, NoPayment, Idle
  <1>3. BookingShape /\ Backed
    BY DEF Init, BookingShape, Backed, NoBooking
  <1>4. CapturedAccounted
    BY DEF Init, CapturedAccounted, NoBooking, NoPayment
  <1> QED BY <1>1, <1>2, <1>3, <1>4 DEF MoneyInv

LEMMA MoneyInvariant == Spec => []MoneyInv
  BY InitMoneyInv, NextMoneyInv, PTL DEF Spec

\* Every booking rests on a payment of its own order, captured by Razorpay for
\* the exact amount, and no payment carries two bookings.
THEOREM BookingsBacked == Spec => []BookingBacked
  <1>1. MoneyInv => BookingBacked
    <2> SUFFICES ASSUME MoneyInv PROVE BookingBacked
      OBVIOUS
    <2>1. BookingShape /\ Backed
      BY DEF MoneyInv
    <2>2. \A o \in Orders : bookings[o].status # "none" =>
             LET p == bookings[o].payment IN
             p \in PaymentIds /\ remote[p].status = "captured" /\ remote[p].exact /\ OrderOf(p) = o
      BY <2>1 DEF BookingShape, Backed, Captured
    <2>3. \A o \in Orders : bookings[o].payment # Null => OrderOf(bookings[o].payment) = o
      BY <2>1, <2>2 DEF BookingShape
    <2> QED BY <2>2, <2>3 DEF BookingBacked
  <1> QED BY <1>1, MoneyInvariant, PTL

\* Every payment recorded as captured is its order's booking or is to be
\* refunded, and a cancelled booking's payment is to be refunded.
THEOREM CapturedMoneyAccounted == Spec => []CapturedAccounted
  <1>1. MoneyInv => CapturedAccounted
    BY DEF MoneyInv
  <1> QED BY <1>1, MoneyInvariant, PTL

\* No step of any handler, webhook, job or admin rewrites what money settled: which
\* payment a booking has, that it is cancelled, that an order is paid and that a
\* payment is to be refunded.
THEOREM SettledMoneyIsFinal == Spec => MoneyIsFinal
  <1>1. MoneyInv /\ [Next]_vars => [MoneyKept]_vars
    BY NextMoneyInv
  <1> QED BY <1>1, MoneyInvariant, PTL DEF Spec, MoneyIsFinal


-----------------------------------------------------------------------------
(* A payment stands on an order that exists *)

OrderBehindPayment ==
    /\ \A o \in Orders : issued[o] > 0 => orders[o].status # "none"
    /\ \A p \in PaymentIds : remote[p].status # "none" => orders[OrderOf(p)].status # "none"

LEMMA NextOrderBehindPayment ==
  ASSUME TypeInv, OrderBehindPayment, [Next]_vars
  PROVE  OrderBehindPayment'
  <1>1. /\ orders \in [Orders -> OrderRow] /\ job \in JobState
        /\ remote \in [PaymentIds -> RemotePayment] /\ issued \in [Orders -> 0 .. MaxRequests]
        /\ attaching \in [Orders -> 0 .. MaxRequests]
        /\ PaymentsExist /\ NoneWaits
    BY DEF TypeInv, TypeOK
  <1>2. \A p \in PaymentIds : remote[p].status # "none" => OrderOf(p) \in Orders
    BY <1>1 DEF PaymentsExist, OrderOf, RazorpayOrder
  <1>3. ASSUME \A o \in Orders : orders[o].status # "none" => orders'[o].status # "none",
               UNCHANGED issued,
               \A p \in PaymentIds : remote'[p].status # "none" =>
                  remote[p].status # "none" /\ remote'[p].rzp = remote[p].rzp
        PROVE  OrderBehindPayment'
    BY <1>2, <1>3 DEF OrderBehindPayment, OrderOf
  <1>4. ASSUME NEW o \in Orders, NEW quantity \in 1 .. MaxQuantity, CreateOrder(o, quantity)
        PROVE  OrderBehindPayment'
    BY <1>1, <1>3, <1>4 DEF CreateOrder, ReplaceOrders, OrderRow, razorpay
  <1>5. ASSUME NEW o \in Orders, Attach(o)
        PROVE  OrderBehindPayment'
    <2>1. orders[o].status # "none"
      BY <1>1, <1>5 DEF Attach, NoneWaits
    <2>2. \A q \in Orders : orders'[q].status = orders[q].status
      BY <1>1, <1>5 DEF Attach, OrderRow
    <2>3. \A q \in Orders : q # o => issued'[q] = issued[q]
      BY <1>1, <1>5 DEF Attach
    <2> QED BY <1>2, <1>5, <2>1, <2>2, <2>3 DEF OrderBehindPayment, OrderOf, Attach
  <1>6. ASSUME NEW o \in Orders, AttachFails(o)
        PROVE  OrderBehindPayment'
    BY <1>1, <1>3, <1>6 DEF AttachFails, FailedStatus, OrderRow, razorpay
  <1>7. ASSUME NEW p \in PaymentIds, NEW r \in RazorpayOrder, NEW exact \in Amounts, Pay(p, r, exact)
        PROVE  OrderBehindPayment'
    <2>1. /\ UNCHANGED <<orders, issued>>
          /\ remote'[p].rzp = r
          /\ \A q \in PaymentIds : q # p => remote'[q] = remote[q]
      BY <1>1, <1>7 DEF Pay, tables
    <2>2. r[1] \in Orders /\ r[2] \in Nat /\ r[2] >= 1 /\ issued[r[1]] \in Nat
      BY <1>1, SalesAssumption DEF RazorpayOrder
    <2>3. orders[r[1]].status # "none"
      BY <1>7, <2>2 DEF Pay, OrderBehindPayment
    <2> QED BY <2>1, <2>3 DEF OrderBehindPayment, OrderOf
  <1>8. ASSUME NEW p \in PaymentIds, NEW s \in PaymentStatus, RemoteStep(p, s)
        PROVE  OrderBehindPayment'
    <2>1. remote[p].status # "none"
      BY <1>8 DEF RemoteStep, RemoteNext
    <2> QED BY <1>1, <1>3, <1>8, <2>1 DEF RemoteStep, RemotePayment, tables
  <1>9. ASSUME NEW p \in PaymentIds, NEW s, NEW source, remote[p].status # "none",
               StartFinalize(p, s, source), UNCHANGED <<orders, issued>>
        PROVE  OrderBehindPayment'
    <2>1. remote' = remote \/ remote' = [remote EXCEPT ![p].status = "captured"]
      BY <1>9 DEF StartFinalize
    <2>2. \A q \in PaymentIds : remote'[q].status # "none" =>
             remote[q].status # "none" /\ remote'[q].rzp = remote[q].rzp
      BY <1>1, <1>9, <2>1 DEF RemotePayment
    <2> QED BY <1>3, <1>9, <2>2
  <1>10. ASSUME NEW p \in PaymentIds, NEW s \in PaymentStatus, Webhook(p, s)
         PROVE  OrderBehindPayment'
    <2>1. remote[p].status # "none"
      BY <1>1, <1>10 DEF Webhook, PaymentsExist
    <2> QED BY <1>9, <1>10, <2>1 DEF Webhook, tables
  <1>11. ASSUME NEW p \in PaymentIds, Verify(p)
         PROVE  OrderBehindPayment'
    BY <1>9, <1>11 DEF Verify, tables
  <1>12. ASSUME NEW x \in job.todo, JobFinalize(x)
         PROVE  OrderBehindPayment'
    <2>1. x[1] \in PaymentIds /\ remote[x[1]].status # "none"
      BY <1>1 DEF JobState, PaymentsExist
    <2> QED BY <1>9, <1>12, <2>1 DEF JobFinalize, tables
  <1>13. ASSUME NEW h \in handlers, Finalize(h) \/ FinalizeThenStop(h)
         PROVE  OrderBehindPayment'
    <2>1. h.payment \in PaymentIds /\ h.status \in PaymentStatus /\ remote[h.payment].status # "none"
      BY DEF TypeInv, TypeOK, PaymentsExist, Handler
    <2>2. Record(h.payment, h.status) /\ UNCHANGED <<issued, remote>>
      BY <1>13 DEF Finalize, FinalizeThenStop, razorpay
    <2>3. \A o \in Orders : orders'[o].status = "none" => orders[o].status = "none"
      BY <2>1, <2>2, RecordType
    <2> QED BY <1>3, <2>2, <2>3
  <1>14. CASE JobExpire
    <2>1. job.order \in Orders
      BY <1>1, <1>14 DEF JobExpire, JobState
    <2> QED BY <1>1, <1>3, <1>14, <2>1 DEF JobExpire, ExpiredStatus, OrderRow, razorpay
  <1>15. CASE UNCHANGED <<orders, issued, remote>>
    BY <1>3, <1>15
  <1> QED
    BY <1>4, <1>5, <1>6, <1>7, <1>8, <1>10, <1>11, <1>12, <1>13, <1>14, <1>15
    DEF Next, vars, tables, razorpay, JoinOrder, RefundBooking, WebhookIgnored, FinalizeFails,
        JobStart, JobAsk, JobAskFails, JobIgnores, Publish, Unpublish, Archive, Restore,
        EventTransition, Reschedule, UpdatePass, Tick, Restart

\* What the mapping needs: seats are never oversold, an order with a booking is
\* paid, and only an order that exists can be booked.
LedgerInv == SeatInv /\ OrderBehindPayment

LEMMA LedgerInvariant == Spec => []LedgerInv
  <1>1. Init => LedgerInv
    <2>1. Init => OrderBehindPayment
      BY DEF Init, OrderBehindPayment
    <2> QED BY <2>1, InitSeatInv DEF LedgerInv
  <1>2. LedgerInv /\ [Next]_vars => LedgerInv'
    BY NextSeatInv, NextOrderBehindPayment DEF LedgerInv, SeatInv
  <1> QED BY <1>1, <1>2, PTL DEF Spec

-----------------------------------------------------------------------------
(* The mapping *)

\* The five claim states, told apart by the rows and the clock.
LEMMA ClaimStates ==
  ASSUME TypeInv, PaidIffBooked, NEW o \in Orders
  PROVE  /\ ClaimState(o) = "sold" <=> bookings[o].status = "confirmed"
         /\ ClaimState(o) = "returned" <=> bookings[o].status = "cancelled"
         /\ ClaimState(o) = "free" <=> orders[o].status = "none"
         /\ ClaimState(o) = "held" <=> Live(o)
         /\ ClaimState(o) \in {"sold", "returned", "free", "held", "lapsed"}
  <1>1. bookings[o].status \in {"none", "confirmed", "cancelled"}
    BY DEF TypeInv, TypeOK, BookingRow, BookingStatus
  <1>2. bookings[o].status # "none" => orders[o].status = "paid"
    BY DEF PaidIffBooked
  <1>3. Live(o) => orders[o].status = "created"
    BY DEF Live
  <1> QED BY <1>1, <1>2, <1>3 DEF ClaimState

LEMMA ClaimStatesNext ==
  ASSUME TypeInv', PaidIffBooked', NEW o \in Orders
  PROVE  /\ ClaimState(o)' = "sold" <=> bookings'[o].status = "confirmed"
         /\ ClaimState(o)' = "returned" <=> bookings'[o].status = "cancelled"
         /\ ClaimState(o)' = "free" <=> orders'[o].status = "none"
         /\ ClaimState(o)' = "held" <=> Live(o)'
         /\ ClaimState(o)' \in {"sold", "returned", "free", "held", "lapsed"}
  <1>1. bookings'[o].status \in {"none", "confirmed", "cancelled"}
    BY DEF TypeInv, TypeOK, BookingRow, BookingStatus
  <1>2. bookings'[o].status # "none" => orders'[o].status = "paid"
    BY DEF PaidIffBooked
  <1>3. Live(o)' => orders'[o].status = "created"
    BY DEF Live
  <1> QED BY <1>1, <1>2, <1>3 DEF ClaimState

LEMMA ClaimSets ==
  ASSUME TypeInv, PaidIffBooked
  PROVE  /\ Ledger!Claims = Orders
         /\ Ledger!In({"held"}) = Holding
         /\ Ledger!In({"held", "sold"}) = Confirmed \cup Holding
         /\ Confirmed \cap Holding = {}
  <1>1. Ledger!Claims = Orders
    BY DEF Ledger!Claims, Orders
  <1>2. \A o \in Orders : OrderClaims[o].state = ClaimState(o)
    BY DEF OrderClaims
  <1>3. \A o \in Orders :
           /\ ClaimState(o) = "sold" <=> bookings[o].status = "confirmed"
           /\ ClaimState(o) = "held" <=> Live(o)
    BY ClaimStates
  <1>4. Ledger!In({"held"}) = Holding
    BY <1>1, <1>2, <1>3 DEF Ledger!In, Holding
  <1>5. Ledger!In({"held", "sold"}) = Confirmed \cup Holding
    BY <1>1, <1>2, <1>3 DEF Ledger!In, Holding, Confirmed
  <1>6. Confirmed \cap Holding = {}
    BY <1>3 DEF Confirmed, Holding
  <1> QED BY <1>1, <1>4, <1>5, <1>6

\* The seats of two disjoint sets of orders add up.
LEMMA PassesUnion ==
  ASSUME NEW S \in SUBSET Orders, NEW T \in SUBSET Orders, S \cap T = {}, NEW q
  PROVE  Cardinality(PassesOf(S \cup T, q)) =
           Cardinality(PassesOf(S, q)) + Cardinality(PassesOf(T, q))
  <1>1. PassesOf(S \cup T, q) = PassesOf(S, q) \cup PassesOf(T, q)
    BY DEF PassesOf
  <1>2. PassesOf(S, q) \cap PassesOf(T, q) = {}
    BY DEF PassesOf
  <1>3. Cardinality(PassesOf(S, q) \cap PassesOf(T, q)) = 0
    BY <1>2, FS_EmptySet
  <1>4. Cardinality(PassesOf(S, q) \cup PassesOf(T, q)) =
          Cardinality(PassesOf(S, q)) + Cardinality(PassesOf(T, q))
          - Cardinality(PassesOf(S, q) \cap PassesOf(T, q))
    BY PassesFinite, FS_Union
  <1>5. Cardinality(PassesOf(S, q)) \in Nat /\ Cardinality(PassesOf(T, q)) \in Nat
    BY PassesFinite
  <1> QED BY <1>1, <1>3, <1>4, <1>5

\* The ledger counts with the same Cardinality.
LEMMA LedgerCardinality ==
  ASSUME NEW S
  PROVE  Ledger!Cardinality(S) = Cardinality(S)
  BY DEF Cardinality, Ledger!Cardinality, IsFiniteSet, Ledger!IsFiniteSet

\* seatCounts() of the program is the number of seats the ledger counts.
LEMMA LedgerCounts ==
  ASSUME TypeInv, PaidIffBooked, NEW X
  PROVE  /\ Cardinality(Ledger!SeatsOf(Ledger!In({"held", "sold"}) \ (Holding \cap X))) = SeatCounts(X)
         /\ SeatCounts(X) \in Nat
  <1> DEFINE S == Confirmed \cup (Holding \ X)
  <1>1. Ledger!In({"held", "sold"}) \ (Holding \cap X) = S
    BY ClaimSets
  <1>2. S \in SUBSET Orders
    BY SeatSets
  <1>3. \A o \in Orders : OrderClaims[o].passes = Quantities[o]
    BY DEF OrderClaims, Quantities
  <1>4. Ledger!SeatsOf(S) = PassesOf(S, Quantities)
    BY <1>2, <1>3 DEF Ledger!SeatsOf, PassesOf
  <1>5. Cardinality(PassesOf(S, Quantities)) =
          Cardinality(PassesOf(Confirmed, Quantities)) + Cardinality(PassesOf(Holding \ X, Quantities))
    <2>1. Confirmed \cap (Holding \ X) = {} /\ Confirmed \in SUBSET Orders /\ Holding \ X \in SUBSET Orders
      BY ClaimSets, SeatSets
    <2> QED BY <2>1, PassesUnion
  <1>6. Cardinality(PassesOf(S, Quantities)) \in Nat
    BY <1>2, PassesFinite
  <1> HIDE DEF S
  <1> QED BY <1>1, <1>4, <1>5, <1>6, SeatCountsAsPasses

\* Steps that change no claim leave the ledger as it was.
LEMMA LedgerStutters ==
  ASSUME \A o \in Orders : ClaimState(o)' = ClaimState(o) /\ orders'[o].quantity = orders[o].quantity,
         event'.capacity = event.capacity
  PROVE  UNCHANGED Ledger!ledger
  BY DEF Ledger!ledger, OrderClaims

\* Steps that change the state of the claims in S, all in the same way.
LEMMA LedgerMoves ==
  ASSUME NEW S \in SUBSET Orders, NEW state,
         \A o \in S : ClaimState(o)' = state,
         \A o \in Orders \ S : ClaimState(o)' = ClaimState(o),
         \A o \in Orders : orders'[o].quantity = orders[o].quantity,
         event'.capacity = event.capacity
  PROVE  Ledger!Move(S, state)
  <1>1. \A o \in Orders : OrderClaims[o] = [state |-> ClaimState(o), passes |-> orders[o].quantity]
    BY DEF OrderClaims
  <1>2. \A o \in Orders :
           [OrderClaims[o] EXCEPT !.state = state] = [state |-> state, passes |-> orders[o].quantity]
    <2> TAKE o \in Orders
    <2> DEFINE row == [state |-> ClaimState(o), passes |-> orders[o].quantity]
    <2>1. OrderClaims[o] = row
      BY <1>1
    <2>2. [row EXCEPT !.state = state] = [state |-> state, passes |-> orders[o].quantity]
      OBVIOUS
    <2> QED BY <2>1, <2>2, Zenon
  <1>3. OrderClaims' =
          [o \in Orders |-> IF o \in S THEN [OrderClaims[o] EXCEPT !.state = state] ELSE OrderClaims[o]]
    BY <1>1, <1>2 DEF OrderClaims
  <1> QED BY <1>3 DEF Ledger!Move, Ledger!Claims, Orders

-----------------------------------------------------------------------------
(* Step by step *)

\* Holds end, or nothing happens to the seats: the clock, a failed createOrder,
\* the expiry job, and every step that touches neither orders nor bookings.
LEMMA HoldsEnd ==
  ASSUME LedgerInv, LedgerInv', event'.capacity = event.capacity,
         \A o \in Orders :
            /\ orders'[o].quantity = orders[o].quantity
            /\ bookings'[o].status = bookings[o].status
            /\ orders'[o].status = "none" <=> orders[o].status = "none"
            /\ Live(o)' => Live(o)
  PROVE  [Ledger!LedgerNext]_(Ledger!ledger)
  <1> DEFINE S == {o \in Holding : ~Live(o)'}
  <1>1. TypeInv /\ PaidIffBooked /\ TypeInv' /\ PaidIffBooked'
    BY DEF LedgerInv, SeatInv
  <1>2. S \in SUBSET Orders /\ S \in SUBSET Holding
    BY SeatSets
  <1>3. ASSUME NEW o \in Orders
        PROVE  ClaimState(o)' = IF o \in S THEN "lapsed" ELSE ClaimState(o)
    <2>1. o \in S <=> Live(o) /\ ~Live(o)'
      BY DEF Holding
    <2> HIDE DEF S
    <2> QED BY <1>1, <2>1, ClaimStates, ClaimStatesNext
  <1> HIDE DEF S
  <1>4. CASE S = {}
    BY <1>3, <1>4, LedgerStutters
  <1>5. CASE S # {}
    <2>1. Ledger!Move(S, "lapsed")
      BY <1>2, <1>3, LedgerMoves
    <2>2. S \in SUBSET Ledger!Claims /\ S \subseteq Ledger!In({"held"})
      BY <1>1, <1>2, ClaimSets
    <2> QED BY <1>5, <2>1, <2>2 DEF Ledger!LedgerNext, Ledger!Lapse
  <1> QED BY <1>4, <1>5

\* createOrder holds seats; the member's earlier hold ends with it.
LEMMA CreateOrderHolds ==
  ASSUME LedgerInv, LedgerInv', NEW o \in Orders, NEW quantity \in 1 .. MaxQuantity,
         CreateOrder(o, quantity)
  PROVE  Ledger!HoldSeats(o, quantity)
  <1> DEFINE replaced == {d \in Ledger!In({"held"}) : d[1] = o[1]}
  <1>1. /\ TypeInv /\ PaidIffBooked /\ TypeInv' /\ PaidIffBooked'
        /\ orders \in [Orders -> OrderRow] /\ now \in Nat
    BY DEF LedgerInv, SeatInv, TypeInv, TypeOK
  <1>2. /\ orders[o].status = "none" /\ event' = event /\ bookings' = bookings /\ now' = now
        /\ event.capacity # Null => ~(SeatCounts(SupersededBy(o)) + quantity > event.capacity)
    BY DEF CreateOrder, NoSeatFor, SoldOut
  <1>3. replaced = Holding \cap SupersededBy(o)
    BY <1>1, ClaimSets DEF Holding, Live, SupersededBy
  <1>4. o \in Ledger!In({"free"})
    BY <1>1, <1>2, ClaimSets, ClaimStates DEF Ledger!In, OrderClaims
  <1>5. Ledger!FitsBeside(Ledger!In({"held", "sold"}) \ replaced, quantity)
    <2>1. /\ Cardinality(Ledger!SeatsOf(Ledger!In({"held", "sold"}) \ replaced)) = SeatCounts(SupersededBy(o))
          /\ SeatCounts(SupersededBy(o)) \in Nat
      BY <1>1, <1>3, LedgerCounts
    <2>2. event.capacity # Null => event.capacity \in Nat
      BY <1>1, SalesAssumption DEF TypeInv, TypeOK, EventRow
    <2> QED BY <1>2, <2>1, <2>2, LedgerCardinality, SalesAssumption DEF Ledger!FitsBeside
  <1>6. \A d \in Orders : OrderClaims[d] = [state |-> ClaimState(d), passes |-> orders[d].quantity]
    BY DEF OrderClaims
  <1>7. ASSUME NEW d \in Orders
        PROVE  /\ ClaimState(d)' = IF d = o THEN "held" ELSE IF d \in replaced THEN "lapsed" ELSE ClaimState(d)
               /\ orders'[d].quantity = IF d = o THEN quantity ELSE orders[d].quantity
    <2>1. orders'[d].quantity = IF d = o THEN quantity ELSE orders[d].quantity
      BY <1>1 DEF CreateOrder, ReplaceOrders, OrderRow
    <2>2. /\ d = o => Live(d)'
          /\ d # o => (orders'[d].status = "none" <=> orders[d].status = "none")
          /\ d # o => (Live(d)' <=> Live(d) /\ d \notin SupersededBy(o))
      <3>1. CASE d = o
        BY <1>1, <1>2, <3>1, SalesAssumption DEF CreateOrder, ReplaceOrders, Live
      <3>2. CASE d # o /\ d \in SupersededBy(o)
        BY <1>1, <1>2, <3>2 DEF CreateOrder, ReplaceOrders, OrderRow, Live, SupersededBy
      <3>3. CASE d # o /\ d \notin SupersededBy(o)
        BY <1>1, <1>2, <3>3 DEF CreateOrder, ReplaceOrders, Live
      <3> QED BY <3>1, <3>2, <3>3
    <2>3. d \in replaced <=> Live(d) /\ d \in SupersededBy(o)
      BY <1>3 DEF Holding
    <2> HIDE DEF replaced
    <2>4. CASE d = o
      BY <1>1, <2>1, <2>2, <2>4, ClaimStatesNext
    <2>5. CASE d # o
      <3>1. bookings'[d].status = bookings[d].status
        BY <1>2
      <3> QED BY <1>1, <2>1, <2>2, <2>3, <2>5, <3>1, ClaimStates, ClaimStatesNext
    <2> QED BY <2>4, <2>5
  <1>8. ASSUME NEW d \in Orders
        PROVE  [OrderClaims[d] EXCEPT !.state = "lapsed"] = [state |-> "lapsed", passes |-> orders[d].quantity]
    <2> DEFINE row == [state |-> ClaimState(d), passes |-> orders[d].quantity]
    <2>1. OrderClaims[d] = row
      BY <1>6
    <2>2. [row EXCEPT !.state = "lapsed"] = [state |-> "lapsed", passes |-> orders[d].quantity]
      OBVIOUS
    <2> QED BY <2>1, <2>2, Zenon
  <1> HIDE DEF replaced
  <1>9. OrderClaims' =
          [d \in Orders |->
             IF d = o THEN [state |-> "held", passes |-> quantity]
             ELSE IF d \in replaced THEN [OrderClaims[d] EXCEPT !.state = "lapsed"]
             ELSE OrderClaims[d]]
    BY <1>6, <1>7, <1>8 DEF OrderClaims
  <1> QED
    BY <1>2, <1>4, <1>5, <1>9 DEF Ledger!HoldSeats, Ledger!Claims, Orders, replaced

\* finalize() sells the claim, or gives it back when it cannot be honoured.
LEMMA RecordSells ==
  ASSUME LedgerInv, LedgerInv', NEW h \in handlers, Record(h.payment, h.status),
         Books(h.payment, h.status), UNCHANGED <<now, event>>
  PROVE  Ledger!LedgerNext
  <1> DEFINE p == h.payment
  <1>1. /\ p \in PaymentIds /\ h.status \in PaymentStatus /\ remote[p].status # "none"
        /\ TypeInv /\ PaidIffBooked /\ TypeInv' /\ PaidIffBooked' /\ OrderBehindPayment
        /\ orders \in [Orders -> OrderRow] /\ bookings \in [Orders -> BookingRow]
    BY DEF LedgerInv, SeatInv, TypeInv, TypeOK, PaymentsExist, Handler
  <1> PICK o \in Orders : o = OrderOf(p)
    BY <1>1, RecordType
  <1>2. o \in Orders /\ orders[o].status # "none"
    BY <1>1 DEF OrderBehindPayment
  <1>3. /\ bookings[o].status = "none"
        /\ bookings' = [bookings EXCEPT ![o] = BookingFor(p)]
        /\ orders' = [orders EXCEPT ![o].status = "paid"]
        /\ BookingFor(p).status = IF CancelReason(o) = "none" THEN "confirmed" ELSE "cancelled"
    BY DEF Record, Books, BookingFor
  <1>4. CancelReason(o) = "none" /\ ~Live(o) => ~SoldOut(orders[o].quantity, {o})
    BY DEF CancelReason
  <1>5. /\ \A d \in Orders : orders'[d].quantity = orders[d].quantity
        /\ \A d \in Orders \ {o} : /\ bookings'[d].status = bookings[d].status
                                   /\ orders'[d].status = orders[d].status
                                   /\ Live(d)' = Live(d)
        /\ bookings'[o].status = IF CancelReason(o) = "none" THEN "confirmed" ELSE "cancelled"
    BY <1>1, <1>2, <1>3 DEF OrderRow, Live
  <1>6. \A d \in Orders \ {o} : ClaimState(d)' = ClaimState(d)
    BY <1>1, <1>5, ClaimStates, ClaimStatesNext
  <1>7. ClaimState(o)' = IF CancelReason(o) = "none" THEN "sold" ELSE "returned"
    BY <1>1, <1>5, ClaimStatesNext
  <1>8. ClaimState(o) = IF Live(o) THEN "held" ELSE "lapsed"
    BY <1>1, <1>2, <1>3, ClaimStates
  <1>9. o \in Ledger!Claims /\ OrderClaims[o].state = ClaimState(o) /\ OrderClaims[o].passes = orders[o].quantity
    BY <1>1, <1>2, ClaimSets DEF OrderClaims
  <1>10. CASE CancelReason(o) = "none"
    <2>1. Ledger!Move({o}, "sold")
      <3>1. {o} \in SUBSET Orders /\ \A d \in {o} : ClaimState(d)' = "sold"
        BY <1>2, <1>7, <1>10
      <3> QED BY <1>5, <1>6, <3>1, LedgerMoves
    <2>2. CASE Live(o)
      <3>1. o \in Ledger!In({"held"})
        BY <1>8, <1>9, <2>2 DEF Ledger!In
      <3> QED BY <1>9, <2>1, <3>1 DEF Ledger!LedgerNext, Ledger!Sell
    <2>3. CASE ~Live(o)
      <3>1. o \in Ledger!In({"lapsed"})
        BY <1>8, <1>9, <2>3 DEF Ledger!In
      <3>2. Holding \cap {o} = {}
        BY <2>3 DEF Holding
      <3>3. Cardinality(Ledger!SeatsOf(Ledger!In({"held", "sold"}))) = SeatCounts({o})
            /\ SeatCounts({o}) \in Nat
        <4>1. Ledger!In({"held", "sold"}) \ (Holding \cap {o}) = Ledger!In({"held", "sold"})
          BY <3>2
        <4> QED BY <1>1, <4>1, LedgerCounts
      <3>4. event.capacity # Null => event.capacity \in Nat
        BY <1>1, SalesAssumption DEF TypeInv, TypeOK, EventRow
      <3>5. orders[o].quantity \in Nat
        BY <1>1, <1>2, SalesAssumption DEF OrderRow
      <3>6. Ledger!FitsBeside(Ledger!In({"held", "sold"}), OrderClaims[o].passes)
        BY <1>4, <1>9, <1>10, <2>3, <3>3, <3>4, <3>5, LedgerCardinality DEF Ledger!FitsBeside, SoldOut
      <3> QED BY <1>9, <2>1, <3>1, <3>6 DEF Ledger!LedgerNext, Ledger!Sell
    <2> QED BY <2>2, <2>3
  <1>11. CASE CancelReason(o) # "none"
    <2>1. Ledger!Move({o}, "returned")
      <3>1. {o} \in SUBSET Orders /\ \A d \in {o} : ClaimState(d)' = "returned"
        BY <1>2, <1>7, <1>11
      <3> QED BY <1>5, <1>6, <3>1, LedgerMoves
    <2>2. o \in Ledger!In({"held", "lapsed", "sold"})
      BY <1>8, <1>9 DEF Ledger!In
    <2> QED BY <1>9, <2>1, <2>2 DEF Ledger!LedgerNext, Ledger!GiveBack
  <1> QED BY <1>10, <1>11

\* An admin's refund gives a sold claim back.
LEMMA RefundGivesBack ==
  ASSUME LedgerInv, LedgerInv', NEW o \in Orders, RefundBooking(o)
  PROVE  [Ledger!LedgerNext]_(Ledger!ledger)
  <1>1. /\ TypeInv /\ PaidIffBooked /\ TypeInv' /\ PaidIffBooked'
        /\ bookings \in [Orders -> BookingRow]
    BY DEF LedgerInv, SeatInv, TypeInv, TypeOK
  <1>2. /\ UNCHANGED <<now, event, orders>>
        /\ bookings[o].status # "none"
        /\ bookings'[o].status = "cancelled"
        /\ \A d \in Orders \ {o} : bookings'[d] = bookings[d]
    BY <1>1 DEF RefundBooking, BookingRow
  <1>3. \A d \in Orders : Live(d)' = Live(d)
    BY <1>2 DEF Live
  <1>4. /\ ClaimState(o)' = "returned"
        /\ \A d \in Orders \ {o} : ClaimState(d)' = ClaimState(d)
    BY <1>1, <1>2, <1>3, ClaimStates, ClaimStatesNext
  <1>5. CASE bookings[o].status = "confirmed"
    <2>1. {o} \in SUBSET Orders /\ \A d \in {o} : ClaimState(d)' = "returned"
      BY <1>4
    <2>2. Ledger!Move({o}, "returned")
      BY <1>2, <1>4, <2>1, LedgerMoves
    <2>3. o \in Ledger!Claims /\ OrderClaims[o].state = "sold"
      BY <1>1, <1>5, ClaimSets, ClaimStates DEF OrderClaims
    <2> QED BY <2>2, <2>3 DEF Ledger!LedgerNext, Ledger!GiveBack, Ledger!In
  <1>6. CASE bookings[o].status # "confirmed"
    <2>1. bookings[o].status = "cancelled"
      BY <1>1, <1>2, <1>6 DEF BookingRow, BookingStatus
    <2>2. ClaimState(o)' = ClaimState(o)
      BY <1>1, <1>4, <2>1, ClaimStates
    <2> QED BY <1>2, <1>4, <2>2, LedgerStutters
  <1> QED BY <1>5, <1>6

\* updatePass sets the capacity within what is held and sold.
LEMMA UpdatePassSetsCapacity ==
  ASSUME LedgerInv, NEW priced \in BOOLEAN, NEW capacity \in Capacities \cup {Null},
         UpdatePass(priced, capacity)
  PROVE  Ledger!SetCapacity(capacity)
  <1>1. TypeInv /\ PaidIffBooked /\ event \in EventRow
    BY DEF LedgerInv, SeatInv, TypeInv, TypeOK
  <1>2. event'.capacity = capacity /\ UNCHANGED <<now, orders, bookings>>
    BY <1>1 DEF UpdatePass, tables, EventRow
  <1>3. UNCHANGED OrderClaims
    BY <1>2 DEF OrderClaims, ClaimState, Live
  <1>4. Cardinality(Ledger!SeatsOf(Ledger!In({"held", "sold"}))) = SeatCounts({}) /\ SeatCounts({}) \in Nat
    <2>1. Ledger!In({"held", "sold"}) \ (Holding \cap {}) = Ledger!In({"held", "sold"})
      OBVIOUS
    <2> QED BY <1>1, <2>1, LedgerCounts
  <1>5. capacity # Null => capacity \in Nat /\ SeatCounts({}) <= capacity
    BY <1>4, SalesAssumption DEF UpdatePass, CapacityAllowed
  <1> QED BY <1>2, <1>3, <1>4, <1>5, LedgerCardinality DEF Ledger!SetCapacity

LEMMA LedgerStep ==
  ASSUME LedgerInv, LedgerInv', [Next]_vars
  PROVE  [Ledger!LedgerNext]_(Ledger!ledger)
  <1>1. /\ orders \in [Orders -> OrderRow] /\ bookings \in [Orders -> BookingRow]
        /\ now \in Nat /\ event \in EventRow /\ job \in JobState /\ NoneWaits
    BY DEF LedgerInv, SeatInv, TypeInv, TypeOK
  <1>2. Ledger!Claims = Orders
    BY DEF Ledger!Claims, Orders
  <1>3. ASSUME NEW o \in Orders, NEW quantity \in 1 .. MaxQuantity, CreateOrder(o, quantity)
        PROVE  [Ledger!LedgerNext]_(Ledger!ledger)
    BY <1>2, <1>3, CreateOrderHolds DEF Ledger!LedgerNext
  <1>4. ASSUME NEW o \in Orders, Attach(o)
        PROVE  [Ledger!LedgerNext]_(Ledger!ledger)
    <2>1. \A d \in Orders :
             /\ orders'[d].quantity = orders[d].quantity
             /\ orders'[d].status = orders[d].status
             /\ Live(d)' = Live(d)
      BY <1>1, <1>4 DEF Attach, OrderRow, Live
    <2> QED BY <1>4, <2>1, HoldsEnd DEF Attach
  <1>5. ASSUME NEW o \in Orders, AttachFails(o)
        PROVE  [Ledger!LedgerNext]_(Ledger!ledger)
    <2>1. orders[o].status # "none"
      <3>1. attaching[o] # 0
        BY <1>5 DEF AttachFails
      <3> QED BY <1>1, <3>1 DEF NoneWaits
    <2>2. \A d \in Orders :
             /\ orders'[d].quantity = orders[d].quantity
             /\ orders'[d].status = "none" <=> orders[d].status = "none"
             /\ Live(d)' => Live(d)
      BY <1>1, <1>5, <2>1 DEF AttachFails, FailedStatus, OrderRow, Live
    <2> QED BY <1>5, <2>2, HoldsEnd DEF AttachFails
  <1>6. ASSUME NEW o \in Orders, RefundBooking(o)
        PROVE  [Ledger!LedgerNext]_(Ledger!ledger)
    BY <1>6, RefundGivesBack
  <1>7. CASE UNCHANGED <<now, orders, bookings>> /\ event'.capacity = event.capacity
    BY <1>7, HoldsEnd DEF Live
  <1>8. ASSUME NEW h \in handlers, Finalize(h) \/ FinalizeThenStop(h)
        PROVE  [Ledger!LedgerNext]_(Ledger!ledger)
    <2>1. Record(h.payment, h.status) /\ UNCHANGED <<now, event>>
      BY <1>8 DEF Finalize, FinalizeThenStop
    <2>2. CASE Books(h.payment, h.status)
      BY <2>1, <2>2, RecordSells
    <2>3. CASE ~Books(h.payment, h.status)
      BY <1>7, <2>1, <2>3 DEF Record
    <2> QED BY <2>2, <2>3
  <1>9. CASE JobExpire
    <2>1. job.order \in Orders
      BY <1>1, <1>9 DEF JobExpire, JobState
    <2>2. \A d \in Orders :
             /\ orders'[d].quantity = orders[d].quantity
             /\ orders'[d].status = "none" <=> orders[d].status = "none"
             /\ Live(d)' => Live(d)
      BY <1>1, <1>9, <2>1 DEF JobExpire, ExpiredStatus, OrderRow, Live
    <2> QED BY <1>9, <2>2, HoldsEnd DEF JobExpire
  <1>10. CASE \/ Publish \/ Unpublish \/ Archive \/ Restore
              \/ \E schedule \in Schedules : Reschedule(schedule)
    <2>1. event'.capacity = event.capacity /\ UNCHANGED <<now, orders, bookings>>
      BY <1>1, <1>10 DEF Publish, Unpublish, Archive, Restore, EventTransition, Reschedule,
                         tables, EventRow
    <2> QED BY <1>7, <2>1
  <1>11. ASSUME NEW priced \in BOOLEAN, NEW capacity \in Capacities \cup {Null},
                UpdatePass(priced, capacity)
         PROVE  [Ledger!LedgerNext]_(Ledger!ledger)
    BY <1>11, UpdatePassSetsCapacity DEF Ledger!LedgerNext
  <1>12. CASE Tick
    <2>1. UNCHANGED <<event, orders, bookings>> /\ \A d \in Orders : Live(d)' => Live(d)
      BY <1>1, <1>12 DEF Tick, tables, Live, OrderRow
    <2> QED BY <2>1, HoldsEnd
  <1> QED
    BY <1>3, <1>4, <1>5, <1>6, <1>7, <1>8, <1>9, <1>10, <1>11, <1>12
    DEF Next, vars, tables, JoinOrder, Pay, RemoteStep, Webhook, WebhookIgnored, Verify, FinalizeFails,
        JobStart, JobAsk, JobAskFails, JobFinalize, JobIgnores, Restart

\* The sale of passes implements the seat ledger, whatever the number of
\* members, orders and payments.
THEOREM SalesImplementLedger == Spec => ImplementsSeatLedger
  <1>1. Init => Ledger!LedgerInit
    <2> SUFFICES ASSUME Init PROVE Ledger!LedgerInit
      OBVIOUS
    <2>1. event.capacity \in Capacities \cup {Null}
      BY DEF Init
    <2>2. \A o \in Orders : ClaimState(o) = "free" /\ orders[o].quantity = 0
      <3>1. \A o \in Orders :
               bookings[o].status = "none" /\ orders[o].status = "none" /\ orders[o].quantity = 0
        BY DEF Init, NoOrder, NoBooking
      <3> QED BY <3>1 DEF ClaimState, Live
    <2>3. OrderClaims = [o \in Orders |-> [state |-> "free", passes |-> 0]]
      BY <2>2 DEF OrderClaims
    <2> QED BY <2>1, <2>3 DEF Ledger!LedgerInit, Ledger!Claims, Orders
  <1>2. LedgerInv /\ LedgerInv' /\ [Next]_vars => [Ledger!LedgerNext]_(Ledger!ledger)
    BY LedgerStep
  <1> QED
    BY <1>1, <1>2, LedgerInvariant, PTL DEF Spec, ImplementsSeatLedger, Ledger!LedgerSpec
=============================================================================
