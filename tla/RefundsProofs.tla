---------------------------- MODULE RefundsProofs ----------------------------
(***************************************************************************)
(* Proofs about Refunds, for every set of payments, refunds and handlers   *)
(* in flight, whether or not handlers overlap, fail or are lost.           *)
(***************************************************************************)
EXTENDS Refunds, TLAPS

\* The slot i holds a handler.
Active(i) == handlers[i] # Idle

\* A handler never holds a result that Razorpay has not given: what it applies
\* as processed is processed, an announced status is one the refund has, and
\* only webhooks are acknowledged.
Honest ==
    /\ \A i \in Slots : Active(i) /\ handlers[i].status = "processed" => Processed(handlers[i].payment)
    /\ \A r \in RefundIds : "processed" \in seen[r] => remote[r].status = "processed"
    /\ \A i \in Slots : Active(i) /\ handlers[i].at = "acknowledge" => handlers[i].refund # Null

\* Only refunds that Razorpay has are announced.
Announced ==
    /\ \A r \in RefundIds : remote[r].status # "none" => remote[r].payment \in PaymentIds
    /\ \A r \in RefundIds : remote[r].status = "none" => remote[r].payment = Null /\ seen[r] = {}

\* Nobody calls Razorpay for a booking that is not cancelled.
CancelledFirst ==
    \A i \in Slots : Active(i) /\ handlers[i].at = "call" /\ handlers[i].payment \in Booked =>
        bookings[handlers[i].payment].status = "cancelled"

RefundInv ==
    /\ TypeOK
    /\ Announced
    /\ Honest
    /\ CancelledFirst
    /\ ProcessedIsReal
    /\ NoPassAndRefund

LEMMA IdleIsNoHandler == Idle \notin Handler /\ \A h \in Handler : h.at # "idle"
  BY DEF Idle, Handler

LEMMA InitRefundInv == Init => RefundInv
  <1> SUFFICES ASSUME Init PROVE RefundInv
    OBVIOUS
  <1>1. TypeOK
    BY RefundAssumption DEF Init, TypeOK, PaymentRow, BookingRow, RemoteRefund, RefundStatus
  <1>2. Announced /\ ProcessedIsReal /\ NoPassAndRefund
    BY RefundAssumption
    DEF Init, Announced, ProcessedIsReal, NoPassAndRefund, PaymentIds
  <1>3. Honest /\ CancelledFirst
    BY DEF Init, Honest, CancelledFirst, Active
  <1> QED BY <1>1, <1>2, <1>3 DEF RefundInv

\* A handler that starts, starts in one slot and leaves the others.
LEMMA BeginStarts ==
  ASSUME TypeOK, NEW h \in Handler, Begin(h)
  PROVE  /\ handlers' \in [Slots -> Handler \cup {Idle}]
         /\ disturbed' \subseteq PaymentIds
         /\ \A i \in Slots : handlers'[i] = handlers[i] \/ handlers'[i] = h
  BY DEF TypeOK, Begin, Handler

\* As long as Razorpay's refunds stay as they are, new handlers and rows are
\* judged one by one.
LEMMA SameRefunds ==
  ASSUME UNCHANGED remote
  PROVE  \A p \in PaymentIds : Processed(p)' = Processed(p)
  BY DEF Processed

\* A handler that starts keeps the invariant when what it brings is honest.
LEMMA BeginKeeps ==
  ASSUME RefundInv, NEW h \in Handler, Begin(h), UNCHANGED <<remote, seen>>,
         h.status = "processed" => Processed(h.payment),
         h.at = "acknowledge" => h.refund # Null
  PROVE  /\ handlers' \in [Slots -> Handler \cup {Idle}]
         /\ disturbed' \subseteq PaymentIds
         /\ Announced'
         /\ Honest'
  <1>1. TypeOK
    BY DEF RefundInv
  <1>2. /\ handlers' \in [Slots -> Handler \cup {Idle}]
        /\ disturbed' \subseteq PaymentIds
        /\ \A i \in Slots : handlers'[i] = handlers[i] \/ handlers'[i] = h
    BY <1>1, BeginStarts
  <1>3. \A p : Processed(p)' = Processed(p)
    BY DEF Processed
  <1>4. Honest'
    BY <1>2, <1>3 DEF RefundInv, Honest, Active
  <1> QED BY <1>2, <1>4 DEF RefundInv, Announced

\* Steps that leave Razorpay and the handlers alone, or only take handlers away.
LEMMA NoNewHandler ==
  ASSUME RefundInv, UNCHANGED <<remote, seen>>,
         \A i \in Slots : handlers'[i] = handlers[i] \/ handlers'[i] = Idle
  PROVE  Announced' /\ Honest'
  <1>1. \A p : Processed(p)' = Processed(p)
    BY DEF Processed
  <1> QED BY <1>1 DEF RefundInv, Announced, Honest, Active

LEMMA FinalizeKeeps ==
  ASSUME RefundInv, NEW p \in PaymentIds, NEW honoured \in BOOLEAN, Finalize(p, honoured)
  PROVE  RefundInv'
  <1> DEFINE asks == \/ p \in Booked /\ bookings[p].status = "none" /\ ~honoured
                     \/ p \notin Booked /\ payments[p].refund = "none"
             row == [status |-> "captured", refund |-> IF asks THEN "pending" ELSE payments[p].refund]
             h == [at |-> "call", payment |-> p, memory |-> row, status |-> "pending", refund |-> Null]
  <1>1. /\ TypeOK
        /\ payments \in [PaymentIds -> PaymentRow] /\ bookings \in [PaymentIds -> BookingRow]
        /\ handlers \in [Slots -> Handler \cup {Idle}]
    BY DEF RefundInv, TypeOK
  <1>2. row \in PaymentRow /\ h \in Handler
    BY <1>1 DEF PaymentRow, Handler, RefundStatus, RazorpayRefundStatus
  <1>3. payments' = [payments EXCEPT ![p] = row] /\ UNCHANGED <<remote, seen, handled, errors, restarts>>
    BY DEF Finalize
  <1>4. UNCHANGED <<handlers, disturbed>> \/ (Begin(h) /\ (asks \/ p \in Mismatched))
    BY DEF Finalize, StartRefund
  <1>5. /\ bookings' \in [PaymentIds -> BookingRow]
        /\ \A q \in PaymentIds : bookings[q].status # "none" => bookings'[q] = bookings[q]
        /\ \A q \in PaymentIds : bookings'[q].refund = "processed" => bookings[q].refund = "processed"
        /\ p \in Booked /\ asks => bookings'[p].status = "cancelled"
    BY <1>1 DEF Finalize, BookingRow, RefundStatus
  <1> HIDE DEF h
  <1>6. /\ handlers' \in [Slots -> Handler \cup {Idle}] /\ disturbed' \subseteq PaymentIds
        /\ Announced' /\ Honest'
        /\ \A i \in Slots : handlers'[i] = handlers[i] \/ (handlers'[i] = h /\ (asks \/ p \in Mismatched))
    <2>1. CASE UNCHANGED <<handlers, disturbed>>
      BY <1>1, <1>3, <2>1, NoNewHandler DEF TypeOK
    <2>2. CASE Begin(h) /\ (asks \/ p \in Mismatched)
      <3>1. h.status # "processed" /\ h.at # "acknowledge"
        BY DEF h
      <3> QED BY <1>1, <1>2, <1>3, <2>2, <3>1, BeginKeeps, BeginStarts
    <2> QED BY <1>4, <2>1, <2>2
  <1>7. TypeOK'
    BY <1>1, <1>2, <1>3, <1>5, <1>6 DEF TypeOK
  <1>8. CancelledFirst'
    <2>1. h.payment = p
      BY DEF h
    <2>2. p \in Booked => p \notin Mismatched
      BY RefundAssumption
    <2>3. \A i \in Slots : Active(i)' /\ handlers'[i].at = "call" /\ handlers'[i].payment \in Booked =>
             bookings'[handlers'[i].payment].status = "cancelled"
      BY <1>1, <1>5, <1>6, <2>1, <2>2 DEF RefundInv, CancelledFirst, Active, PaymentIds
    <2> QED BY <2>3 DEF CancelledFirst, Active
  <1>9. ProcessedIsReal'
    <2>1. \A q \in PaymentIds : payments'[q].refund = "processed" => payments[q].refund = "processed"
      BY <1>1, <1>3
    <2>2. \A q : Processed(q)' = Processed(q)
      BY <1>3 DEF Processed
    <2> QED BY <1>5, <2>1, <2>2 DEF RefundInv, ProcessedIsReal
  <1>10. NoPassAndRefund'
    BY <1>3, <1>5 DEF RefundInv, NoPassAndRefund, PaymentIds
  <1> QED BY <1>6, <1>7, <1>8, <1>9, <1>10 DEF RefundInv

LEMMA RefundBookingKeeps ==
  ASSUME RefundInv, NEW p \in PaymentIds, RefundBooking(p)
  PROVE  RefundInv'
  <1> DEFINE row == [payments[p] EXCEPT !.refund = "pending"]
             h == [at |-> "call", payment |-> p, memory |-> row, status |-> "pending", refund |-> Null]
  <1>1. /\ TypeOK
        /\ payments \in [PaymentIds -> PaymentRow] /\ bookings \in [PaymentIds -> BookingRow]
        /\ handlers \in [Slots -> Handler \cup {Idle}]
    BY DEF RefundInv, TypeOK
  <1>2. row \in PaymentRow /\ h \in Handler
    BY <1>1 DEF PaymentRow, Handler, RefundStatus, RazorpayRefundStatus
  <1>3. /\ payments' = [payments EXCEPT ![p] = row]
        /\ UNCHANGED <<remote, seen, handled, errors, restarts>>
    BY <1>1 DEF RefundBooking, PaymentRow
  <1>4. Begin(h)
    BY DEF RefundBooking, StartRefund
  <1>5. /\ bookings' = [bookings EXCEPT ![p] = [status |-> "cancelled", refund |-> "pending"]]
        /\ bookings' \in [PaymentIds -> BookingRow]
    BY <1>1 DEF RefundBooking, CancelledBooking, BookingRow, RefundStatus
  <1>6. h.status = "pending" /\ h.payment = p /\ h.at = "call" /\ row.refund = "pending"
    BY <1>1 DEF PaymentRow
  <1> HIDE DEF h, row
  <1>7. /\ handlers' \in [Slots -> Handler \cup {Idle}] /\ disturbed' \subseteq PaymentIds
        /\ Announced' /\ Honest'
        /\ \A i \in Slots : handlers'[i] = handlers[i] \/ handlers'[i] = h
    BY <1>1, <1>2, <1>3, <1>4, <1>6, BeginKeeps, BeginStarts
  <1>8. TypeOK'
    BY <1>1, <1>2, <1>3, <1>5, <1>7 DEF TypeOK
  <1>9. CancelledFirst'
    BY <1>1, <1>5, <1>6, <1>7 DEF RefundInv, CancelledFirst, Active, PaymentIds
  <1>10. ProcessedIsReal'
    <2>1. \A q \in PaymentIds :
             /\ payments'[q].refund = "processed" => payments[q].refund = "processed"
             /\ bookings'[q].refund = "processed" => bookings[q].refund = "processed"
      BY <1>1, <1>3, <1>5, <1>6
    <2>2. \A q : Processed(q)' = Processed(q)
      BY <1>3 DEF Processed
    <2> QED BY <2>1, <2>2 DEF RefundInv, ProcessedIsReal
  <1>11. NoPassAndRefund'
    BY <1>1, <1>3, <1>5 DEF RefundInv, NoPassAndRefund, PaymentIds
  <1> QED BY <1>7, <1>8, <1>9, <1>10, <1>11 DEF RefundInv

\* Refunds do not disappear from Razorpay, and a processed one stays processed.
LEMMA NewRefundKeeps ==
  ASSUME RefundInv, NEW r \in RefundIds, NEW p \in PaymentIds, NEW s \in {"pending", "processed"},
         NewRefund(r, p, s), p \in Booked => bookings[p].status = "cancelled", UNCHANGED bookings
  PROVE  /\ remote' \in [RefundIds -> RemoteRefund]
         /\ seen' \in [RefundIds -> SUBSET RazorpayRefundStatus]
         /\ Announced' /\ NoPassAndRefund'
         /\ \A q \in RefundIds : "processed" \in seen'[q] => remote'[q].status = "processed"
         /\ \A q \in PaymentIds : Processed(q) => Processed(q)'
         /\ s = "processed" => Processed(p)'
  <1>1. /\ remote \in [RefundIds -> RemoteRefund] /\ seen \in [RefundIds -> SUBSET RazorpayRefundStatus]
        /\ remote[r].status = "none"
        /\ remote' = [remote EXCEPT ![r] = [payment |-> p, status |-> s]]
        /\ seen' = [seen EXCEPT ![r] = {s}]
    BY DEF RefundInv, TypeOK, NewRefund
  <1>2. /\ remote' \in [RefundIds -> RemoteRefund]
        /\ seen' \in [RefundIds -> SUBSET RazorpayRefundStatus]
    BY <1>1 DEF RemoteRefund, RazorpayRefundStatus
  <1>3. Announced'
    BY <1>1 DEF RefundInv, Announced
  <1>4. NoPassAndRefund'
    BY <1>1 DEF RefundInv, NoPassAndRefund
  <1>5. \A q \in RefundIds : "processed" \in seen'[q] => remote'[q].status = "processed"
    BY <1>1 DEF RefundInv, Honest
  <1>6. \A q \in PaymentIds : Processed(q) => Processed(q)'
    BY <1>1 DEF Processed
  <1>7. s = "processed" => Processed(p)'
    BY <1>1 DEF Processed
  <1> QED BY <1>2, <1>3, <1>4, <1>5, <1>6, <1>7

LEMMA CallKeeps ==
  ASSUME RefundInv, NEW i \in Slots, Call(i)
  PROVE  RefundInv'
  <1>1. /\ TypeOK /\ handlers \in [Slots -> Handler \cup {Idle}]
    BY DEF RefundInv, TypeOK
  <1>2. handlers[i].at = "call"
    BY DEF Call, RefundAccepted, RefundTimesOut, RefundRefused, Answered
  <1>3. handlers[i] \in Handler
    BY <1>1, <1>2 DEF Idle
  <1>p. PICK p \in PaymentIds : p = handlers[i].payment
    BY <1>3 DEF Handler
  <1>4. p \in Booked => bookings[p].status = "cancelled"
    BY <1>2, <1>p DEF RefundInv, CancelledFirst, Active, Idle
  \* What an answer leaves to be shown: that it is honest.
  <1>5. ASSUME NEW s \in {"pending", "processed", "failed"}, Answered(i, s),
               errors' \in 0 .. MaxErrors,
               remote' \in [RefundIds -> RemoteRefund],
               seen' \in [RefundIds -> SUBSET RazorpayRefundStatus],
               Announced', NoPassAndRefund',
               \A q \in RefundIds : "processed" \in seen'[q] => remote'[q].status = "processed",
               \A q \in PaymentIds : Processed(q) => Processed(q)',
               s = "processed" => Processed(p)'
        PROVE  RefundInv'
    <2>1. /\ handlers' = [handlers EXCEPT ![i] = [handlers[i] EXCEPT !.at = "payment", !.status = s]]
          /\ UNCHANGED <<payments, bookings, handled, disturbed, restarts>>
      BY <1>1, <1>3, <1>5 DEF Answered, Handler
    <2>2. /\ handlers'[i] \in Handler
          /\ handlers'[i].at = "payment" /\ handlers'[i].status = s /\ handlers'[i].payment = p
          /\ \A j \in Slots : j # i => handlers'[j] = handlers[j]
      BY <1>1, <1>3, <1>p, <2>1 DEF Handler, RazorpayRefundStatus
    <2>3. handlers' \in [Slots -> Handler \cup {Idle}]
      BY <1>1, <2>1, <2>2
    <2>4. TypeOK'
      BY <1>1, <1>5, <2>1, <2>3 DEF TypeOK
    <2>5. Honest'
      <3>1. \A j \in Slots :
               (Active(j) /\ handlers[j].status = "processed" => Processed(handlers[j].payment))'
        <4> SUFFICES ASSUME NEW j \in Slots, Active(j)', handlers'[j].status = "processed"
                     PROVE  Processed(handlers[j].payment)'
          OBVIOUS
        <4>1. CASE j = i
          BY <1>5, <2>2, <4>1 DEF Processed
        <4>2. CASE j # i
          <5>1. handlers[j] # Idle /\ handlers[j] \in Handler /\ handlers[j].status = "processed"
            BY <1>1, <2>2, <4>2 DEF Active
          <5>2. handlers[j].payment \in PaymentIds /\ Processed(handlers[j].payment)
            BY <5>1 DEF Handler, RefundInv, Honest, Active
          <5> QED BY <1>5, <2>2, <4>2, <5>2 DEF Processed
        <4> QED BY <4>1, <4>2
      <3>2. \A j \in Slots : (Active(j) /\ handlers[j].at = "acknowledge" => handlers[j].refund # Null)'
        BY <2>2 DEF RefundInv, Honest, Active
      <3> QED BY <1>5, <3>1, <3>2 DEF Honest
    <2>6. CancelledFirst'
      BY <2>1, <2>2 DEF RefundInv, CancelledFirst, Active
    <2>7. ProcessedIsReal'
      BY <1>5, <2>1 DEF RefundInv, ProcessedIsReal
    <2> QED BY <1>5, <2>4, <2>5, <2>6, <2>7 DEF RefundInv
  <1>6. ASSUME Error PROVE errors' \in 0 .. MaxErrors
    BY <1>1, <1>6, RefundAssumption DEF Error, TypeOK
  <1>7. ASSUME NEW r \in RefundIds, NEW s \in {"pending", "processed"},
               RefundAccepted(i, r, s)
        PROVE  RefundInv'
    <2>1. Answered(i, s) /\ NewRefund(r, p, s) /\ UNCHANGED errors /\ UNCHANGED bookings
      BY <1>7, <1>p DEF RefundAccepted, Answered
    <2>2. errors' \in 0 .. MaxErrors
      BY <1>1, <2>1 DEF TypeOK
    <2> QED BY <1>3, <1>4, <1>5, <2>1, <2>2, NewRefundKeeps
  <1>8. ASSUME NEW r \in RefundIds, NEW s \in {"pending", "processed"},
               RefundTimesOut(i, r, s)
        PROVE  RefundInv'
    <2>1. Answered(i, "failed") /\ NewRefund(r, p, s) /\ Error /\ UNCHANGED bookings
      BY <1>8, <1>p DEF RefundTimesOut, Answered
    <2> QED BY <1>3, <1>4, <1>5, <1>6, <2>1, NewRefundKeeps
  <1>9. ASSUME RefundRefused(i)
        PROVE  RefundInv'
    <2>1. Answered(i, "failed") /\ UNCHANGED <<remote, seen>> /\ (Error \/ UNCHANGED errors)
          /\ UNCHANGED bookings
      BY <1>9 DEF RefundRefused, Answered
    <2>2. errors' \in 0 .. MaxErrors
      BY <1>1, <1>6, <2>1 DEF TypeOK
    <2>3. /\ remote' \in [RefundIds -> RemoteRefund]
          /\ seen' \in [RefundIds -> SUBSET RazorpayRefundStatus]
          /\ Announced' /\ NoPassAndRefund'
          /\ \A q \in RefundIds : "processed" \in seen'[q] => remote'[q].status = "processed"
      BY <2>1 DEF RefundInv, TypeOK, Announced, NoPassAndRefund, Honest
    <2>4. \A q \in PaymentIds : Processed(q) => Processed(q)'
      BY <2>1 DEF Processed
    <2> QED BY <1>5, <2>1, <2>2, <2>3, <2>4
  <1> QED BY <1>7, <1>8, <1>9 DEF Call

LEMMA RemoteStepKeeps ==
  ASSUME RefundInv, NEW r \in RefundIds, NEW s \in RazorpayRefundStatus, RemoteStep(r, s)
  PROVE  RefundInv'
  <1>1. /\ TypeOK /\ remote \in [RefundIds -> RemoteRefund]
        /\ seen \in [RefundIds -> SUBSET RazorpayRefundStatus]
        /\ handlers \in [Slots -> Handler \cup {Idle}]
    BY DEF RefundInv, TypeOK
  <1>2. /\ remote[r].status = "pending"
        /\ remote' = [remote EXCEPT ![r].status = s]
        /\ seen' = [seen EXCEPT ![r] = @ \cup {s}]
        /\ UNCHANGED <<payments, bookings, handled, handlers, disturbed, errors, restarts>>
    BY DEF RemoteStep
  <1>3. remote' \in [RefundIds -> RemoteRefund] /\ seen' \in [RefundIds -> SUBSET RazorpayRefundStatus]
    BY <1>1, <1>2 DEF RemoteRefund
  <1>4. TypeOK'
    BY <1>1, <1>2, <1>3 DEF TypeOK
  <1>5. \A q \in RefundIds :
           /\ remote'[q].payment = remote[q].payment
           /\ remote[q].status = "processed" => remote'[q].status = "processed"
           /\ remote'[q].status = "none" => remote[q].status = "none"
           /\ "processed" \in seen'[q] => remote'[q].status = "processed"
    BY <1>1, <1>2 DEF RefundInv, Honest, RemoteRefund, RazorpayRefundStatus
  <1>6. \A p \in PaymentIds : Processed(p) => Processed(p)'
    BY <1>5 DEF Processed
  <1>7. Announced'
    <2>1. \A q \in RefundIds : q # r => seen'[q] = seen[q]
      BY <1>1, <1>2
    <2>2. remote[r].payment \in PaymentIds /\ remote'[r].status # "none"
      BY <1>1, <1>2 DEF RefundInv, Announced, RazorpayRefundStatus, RemoteRefund
    <2>3. \A q \in RefundIds : remote'[q].status # "none" => remote[q].status # "none"
      BY <1>1, <1>2
    <2> QED BY <1>5, <2>1, <2>2, <2>3 DEF RefundInv, Announced
  <1>8. Honest'
    <2>1. \A i \in Slots :
             (Active(i) /\ handlers[i].status = "processed" => Processed(handlers[i].payment))'
      <3> SUFFICES ASSUME NEW i \in Slots, Active(i)', handlers'[i].status = "processed"
                   PROVE  Processed(handlers[i].payment)'
        OBVIOUS
      <3>1. handlers[i].payment \in PaymentIds /\ Processed(handlers[i].payment)
        BY <1>1, <1>2 DEF RefundInv, Honest, Active, Handler
      <3> QED BY <1>2, <1>5, <3>1 DEF Processed
    <2>2. \A j \in Slots : (Active(j) /\ handlers[j].at = "acknowledge" => handlers[j].refund # Null)'
      BY <1>2 DEF RefundInv, Honest, Active
    <2> QED BY <1>5, <2>1, <2>2 DEF Honest
  <1>9. CancelledFirst'
    BY <1>2 DEF RefundInv, CancelledFirst, Active
  <1>10. ProcessedIsReal'
    BY <1>2, <1>6 DEF RefundInv, ProcessedIsReal
  <1>11. NoPassAndRefund'
    BY <1>2, <1>5 DEF RefundInv, NoPassAndRefund
  <1> QED BY <1>4, <1>7, <1>8, <1>9, <1>10, <1>11 DEF RefundInv

LEMMA RefundWebhookKeeps ==
  ASSUME RefundInv, NEW r \in RefundIds, NEW s \in RazorpayRefundStatus, RefundWebhook(r, s)
  PROVE  RefundInv'
  <1> DEFINE p == remote[r].payment
             h == [at |-> IF IgnoredEvent(p, s) THEN "acknowledge" ELSE "payment",
                   payment |-> p, memory |-> payments[p], status |-> s, refund |-> r]
  <1>1. /\ TypeOK /\ payments \in [PaymentIds -> PaymentRow]
        /\ handlers \in [Slots -> Handler \cup {Idle}]
    BY DEF RefundInv, TypeOK
  <1>2. s \in seen[r] /\ Begin(h) /\ UNCHANGED <<payments, bookings, remote, seen, handled, errors, restarts>>
    BY DEF RefundWebhook
  <1>3. p \in PaymentIds
    BY <1>2 DEF RefundInv, Announced
  <1>4. h \in Handler /\ h.status = s /\ h.payment = p /\ h.at # "call" /\ h.refund # Null
    BY <1>1, <1>3, RefundAssumption DEF Handler, RefundStatus, RazorpayRefundStatus
  <1>5. s = "processed" => Processed(p)
    BY <1>2 DEF RefundInv, Honest, Processed
  <1> HIDE DEF h, p
  <1>6. /\ handlers' \in [Slots -> Handler \cup {Idle}] /\ disturbed' \subseteq PaymentIds
        /\ Announced' /\ Honest'
        /\ \A i \in Slots : handlers'[i] = handlers[i] \/ handlers'[i] = h
    BY <1>1, <1>2, <1>4, <1>5, BeginKeeps, BeginStarts
  <1>7. TypeOK'
    BY <1>1, <1>2, <1>6 DEF TypeOK
  <1>8. CancelledFirst'
    BY <1>2, <1>4, <1>6 DEF RefundInv, CancelledFirst, Active
  <1>9. ProcessedIsReal' /\ NoPassAndRefund'
    BY <1>2 DEF RefundInv, ProcessedIsReal, NoPassAndRefund, Processed
  <1> QED BY <1>6, <1>7, <1>8, <1>9 DEF RefundInv

\* A handler moves on: it keeps its payment and its result, or it is done.
LEMMA HandlerMovesOn ==
  ASSUME RefundInv, NEW i \in Slots, NEW at \in {"booking", "acknowledge"},
         handlers[i] \in Handler, at = "acknowledge" => handlers[i].refund # Null,
         handlers' = [handlers EXCEPT ![i] = [handlers[i] EXCEPT !.at = at]]
           \/ handlers' = [handlers EXCEPT ![i] = Idle],
         UNCHANGED <<remote, seen>>,
         \A p \in PaymentIds : bookings'[p].status = bookings[p].status
  PROVE  /\ handlers' \in [Slots -> Handler \cup {Idle}]
         /\ Announced' /\ Honest' /\ CancelledFirst' /\ NoPassAndRefund'
  <1>1. handlers \in [Slots -> Handler \cup {Idle}]
    BY DEF RefundInv, TypeOK
  <1>2. handlers' \in [Slots -> Handler \cup {Idle}]
    BY <1>1 DEF Handler
  <1>3. \A j \in Slots : \/ handlers'[j] = handlers[j]
                          \/ handlers'[j] = Idle
                          \/ /\ handlers[j] \in Handler
                             /\ handlers'[j].status = handlers[j].status
                             /\ handlers'[j].payment = handlers[j].payment
                             /\ handlers'[j].refund = handlers[j].refund
                             /\ handlers'[j].at # "call"
                             /\ handlers'[j].at = "acknowledge" => handlers[j].refund # Null
    BY <1>1 DEF Handler
  <1>4. Honest'
    <2>1. \A j \in Slots :
             (Active(j) /\ handlers[j].status = "processed" => Processed(handlers[j].payment))'
      <3> SUFFICES ASSUME NEW j \in Slots, Active(j)', handlers'[j].status = "processed"
                   PROVE  Processed(handlers[j].payment)'
        OBVIOUS
      <3>1. handlers[j].status = "processed" /\ handlers'[j].payment = handlers[j].payment /\ Active(j)
        BY <1>3, IdleIsNoHandler DEF Active
      <3> QED BY <3>1 DEF RefundInv, Honest, Processed
    <2>2. \A j \in Slots : (Active(j) /\ handlers[j].at = "acknowledge" => handlers[j].refund # Null)'
      BY <1>3, IdleIsNoHandler DEF RefundInv, Honest, Active
    <2> QED BY <2>1, <2>2 DEF RefundInv, Honest
  <1>5. CancelledFirst'
    BY <1>1, <1>3, IdleIsNoHandler DEF RefundInv, CancelledFirst, Active, Handler
  <1>6. Announced' /\ NoPassAndRefund'
    BY DEF RefundInv, Announced, NoPassAndRefund, PaymentIds
  <1> QED BY <1>2, <1>4, <1>5, <1>6

LEMMA WritePaymentKeeps ==
  ASSUME RefundInv, NEW i \in Slots, WritePayment(i)
  PROVE  RefundInv'
  <1>1. /\ TypeOK /\ payments \in [PaymentIds -> PaymentRow]
        /\ handlers \in [Slots -> Handler \cup {Idle}]
    BY DEF RefundInv, TypeOK
  <1>2. /\ handlers[i].at = "payment"
        /\ payments' = [payments EXCEPT ![handlers[i].payment] = RefundedRow(handlers[i])]
        /\ UNCHANGED <<bookings, remote, seen, handled, disturbed, errors, restarts>>
    BY DEF WritePayment
  <1>3. handlers[i] \in Handler /\ Active(i)
    BY <1>1, <1>2 DEF Idle, Active
  <1>4. PICK p \in PaymentIds : p = handlers[i].payment
    BY <1>3 DEF Handler
  <1>5. \/ handlers' = [handlers EXCEPT ![i] = [handlers[i] EXCEPT !.at = "booking"]]
        \/ /\ handlers' = [handlers EXCEPT ![i] = [handlers[i] EXCEPT !.at = "acknowledge"]]
           /\ handlers[i].refund # Null
        \/ handlers' = [handlers EXCEPT ![i] = Idle]
    BY DEF WritePayment, Done
  <1>6. /\ handlers' \in [Slots -> Handler \cup {Idle}]
        /\ Announced' /\ Honest' /\ CancelledFirst' /\ NoPassAndRefund'
    BY <1>2, <1>3, <1>5, HandlerMovesOn
  <1>7. /\ RefundedRow(handlers[i]) \in PaymentRow
        /\ RefundedRow(handlers[i]).refund \in {handlers[i].status, payments[p].refund}
    BY <1>1, <1>3, <1>4 DEF RefundedRow, PaymentRow, Handler, RefundStatus, RazorpayRefundStatus
  <1>8. TypeOK'
    BY <1>1, <1>2, <1>4, <1>6, <1>7 DEF TypeOK
  <1>9. handlers[i].status = "processed" => Processed(p)
    BY <1>3, <1>4 DEF RefundInv, Honest
  <1>10. ProcessedIsReal'
    <2>1. \A q \in PaymentIds : payments'[q].refund = "processed" => Processed(q)
      BY <1>1, <1>2, <1>4, <1>7, <1>9 DEF RefundInv, ProcessedIsReal
    <2>2. \A q \in PaymentIds : Processed(q)' = Processed(q)
      BY <1>2, SameRefunds
    <2> QED BY <1>2, <2>1, <2>2 DEF RefundInv, ProcessedIsReal
  <1> QED BY <1>6, <1>8, <1>10 DEF RefundInv

LEMMA WriteBookingKeeps ==
  ASSUME RefundInv, NEW i \in Slots, WriteBooking(i)
  PROVE  RefundInv'
  <1>1. /\ TypeOK /\ bookings \in [PaymentIds -> BookingRow]
        /\ handlers \in [Slots -> Handler \cup {Idle}]
    BY DEF RefundInv, TypeOK
  <1>2. /\ handlers[i].at = "booking"
        /\ bookings' = [bookings EXCEPT ![handlers[i].payment].refund = handlers[i].status]
        /\ UNCHANGED <<payments, remote, seen, handled, disturbed, errors, restarts>>
    BY DEF WriteBooking
  <1>3. handlers[i] \in Handler /\ Active(i)
    BY <1>1, <1>2 DEF Idle, Active
  <1>4. PICK p \in PaymentIds : p = handlers[i].payment
    BY <1>3 DEF Handler
  <1>5. \/ /\ handlers' = [handlers EXCEPT ![i] = [handlers[i] EXCEPT !.at = "acknowledge"]]
           /\ handlers[i].refund # Null
        \/ handlers' = [handlers EXCEPT ![i] = Idle]
    BY DEF WriteBooking, Done
  <1>6. /\ bookings' \in [PaymentIds -> BookingRow]
        /\ \A q \in PaymentIds : bookings'[q].status = bookings[q].status
        /\ bookings'[p].refund = handlers[i].status
        /\ \A q \in PaymentIds : q # p => bookings'[q] = bookings[q]
    BY <1>1, <1>2, <1>3, <1>4 DEF BookingRow, Handler, RefundStatus, RazorpayRefundStatus
  <1>7. /\ handlers' \in [Slots -> Handler \cup {Idle}]
        /\ Announced' /\ Honest' /\ CancelledFirst' /\ NoPassAndRefund'
    BY <1>2, <1>3, <1>5, <1>6, HandlerMovesOn
  <1>8. TypeOK'
    BY <1>1, <1>2, <1>6, <1>7 DEF TypeOK
  <1>9. handlers[i].status = "processed" => Processed(p)
    BY <1>3, <1>4 DEF RefundInv, Honest
  <1>10. ProcessedIsReal'
    <2>1. \A q \in PaymentIds : bookings'[q].refund = "processed" => Processed(q)
      BY <1>6, <1>9 DEF RefundInv, ProcessedIsReal
    <2>2. \A q \in PaymentIds : Processed(q)' = Processed(q)
      BY <1>2, SameRefunds
    <2> QED BY <1>2, <2>1, <2>2 DEF RefundInv, ProcessedIsReal
  <1> QED BY <1>7, <1>8, <1>10 DEF RefundInv

LEMMA NextRefundInv == RefundInv /\ [Next]_vars => RefundInv'
  <1> SUFFICES ASSUME RefundInv, [Next]_vars PROVE RefundInv'
    OBVIOUS
  <1>1. ASSUME NEW i \in Slots, Acknowledge(i)
        PROVE  RefundInv'
    <2>1. /\ handlers[i].at = "acknowledge"
          /\ handled' = handled \cup {<<handlers[i].refund, handlers[i].status>>}
          /\ handlers' = [handlers EXCEPT ![i] = Idle]
          /\ UNCHANGED <<payments, bookings, remote, seen, disturbed, errors, restarts>>
      BY <1>1 DEF Acknowledge
    <2>2. handlers[i] \in Handler
      BY <2>1 DEF RefundInv, TypeOK, Idle
    <2>3. /\ handlers' \in [Slots -> Handler \cup {Idle}]
          /\ Announced' /\ Honest' /\ CancelledFirst' /\ NoPassAndRefund'
      BY <2>1, <2>2, HandlerMovesOn
    <2>4. <<handlers[i].refund, handlers[i].status>> \in RefundIds \X RazorpayRefundStatus
      BY <2>1, <2>2 DEF RefundInv, Honest, Handler, Active, Idle
    <2>5. TypeOK'
      BY <2>1, <2>3, <2>4 DEF RefundInv, TypeOK
    <2>6. ProcessedIsReal'
      BY <2>1 DEF RefundInv, ProcessedIsReal, Processed
    <2> QED BY <2>3, <2>5, <2>6 DEF RefundInv
  <1>2. ASSUME NEW p \in PaymentIds, FinalizeRefunded(p)
        PROVE  RefundInv'
    <2>1. /\ payments' = [payments EXCEPT ![p].status = "refunded"]
          /\ UNCHANGED <<bookings, remote, seen, handled, handlers, disturbed, errors, restarts>>
      BY <1>2 DEF FinalizeRefunded
    <2>2. payments \in [PaymentIds -> PaymentRow]
      BY DEF RefundInv, TypeOK
    <2>3. /\ payments' \in [PaymentIds -> PaymentRow]
          /\ \A q \in PaymentIds : payments'[q].refund = payments[q].refund
      BY <2>1, <2>2 DEF PaymentRow
    <2>4. TypeOK'
      BY <2>1, <2>3 DEF RefundInv, TypeOK
    <2>5. Announced' /\ Honest' /\ CancelledFirst' /\ NoPassAndRefund'
      BY <2>1 DEF RefundInv, Announced, Honest, CancelledFirst, NoPassAndRefund, Active, Processed
    <2>6. ProcessedIsReal'
      BY <2>1, <2>3 DEF RefundInv, ProcessedIsReal, Processed
    <2> QED BY <2>4, <2>5, <2>6 DEF RefundInv
  <1>3. CASE Restart
    <2>1. /\ handlers' = [i \in Slots |-> Idle] /\ disturbed' = disturbed \cup HalfWritten
          /\ restarts < MaxRestarts /\ restarts' = restarts + 1
          /\ UNCHANGED <<payments, bookings, remote, seen, handled, errors>>
      BY <1>3 DEF Restart
    <2>2. TypeOK'
      BY <2>1, RefundAssumption DEF RefundInv, TypeOK, HalfWritten
    <2>3. Announced' /\ Honest' /\ CancelledFirst'
      BY <2>1 DEF RefundInv, Announced, Honest, CancelledFirst, Active
    <2>4. ProcessedIsReal' /\ NoPassAndRefund'
      BY <2>1 DEF RefundInv, ProcessedIsReal, NoPassAndRefund, Processed
    <2> QED BY <2>2, <2>3, <2>4 DEF RefundInv
  <1>4. CASE UNCHANGED vars
    BY <1>4 DEF RefundInv, TypeOK, Announced, Honest, CancelledFirst, ProcessedIsReal,
                NoPassAndRefund, Active, Processed, vars
  <1> QED
    BY <1>1, <1>2, <1>3, <1>4, FinalizeKeeps, RefundBookingKeeps, CallKeeps, RemoteStepKeeps,
       RefundWebhookKeeps, WritePaymentKeeps, WriteBookingKeeps
    DEF Next

\* Every state of the refund code is well typed.
THEOREM RefundTypes == Spec => []TypeOK
  <1>1. RefundInv => TypeOK
    BY DEF RefundInv
  <1> QED BY InitRefundInv, NextRefundInv, <1>1, PTL DEF Spec

\* Money that is shown as returned was returned by Razorpay: no overlap of
\* startRefund with webhooks, no lost answer and no restart can fake it.
THEOREM RefundsShownAreReal == Spec => []ProcessedIsReal
  <1>1. RefundInv => ProcessedIsReal
    BY DEF RefundInv
  <1> QED BY InitRefundInv, NextRefundInv, <1>1, PTL DEF Spec

\* No refund exists at Razorpay for a pass that is still valid.
THEOREM NeverPassAndRefund == Spec => []NoPassAndRefund
  <1>1. RefundInv => NoPassAndRefund
    BY DEF RefundInv
  <1> QED BY InitRefundInv, NextRefundInv, <1>1, PTL DEF Spec

-----------------------------------------------------------------------------
(* Payments whose handlers did not overlap *)

\* The payments that a second finalize() does not refund again.
Refunding == Booked \cup Extra

Undisturbed == Refunding \ disturbed

\* One handler per payment, where none overlapped.
OneEach ==
    \A i, j \in Slots :
        Active(i) /\ Active(j) /\ handlers[i].payment = handlers[j].payment
            => i = j \/ handlers[i].payment \in disturbed

\* Events are about refunds that exist, and a processed refund is announced.
EventsTrue ==
    /\ \A i \in Slots : Active(i) /\ handlers[i].refund # Null =>
          /\ remote[handlers[i].refund].status # "none"
          /\ remote[handlers[i].refund].payment = handlers[i].payment
    /\ \A r \in RefundIds, s \in RazorpayRefundStatus : <<r, s>> \in handled => remote[r].status # "none"
    /\ \A r \in RefundIds : remote[r].status = "processed" => "processed" \in seen[r]

\* A refund is asked for only once the booking exists.
BookedFirst ==
    \A p \in PaymentIds : bookings[p].status = "none" =>
        /\ p \in Booked => payments[p].refund = "none" /\ bookings[p].refund = "none"
        /\ \A i \in Slots : Active(i) /\ handlers[i].payment = p => p \notin Booked

OnlyBooked == \A p \in PaymentIds : bookings[p].status # "none" => p \in Booked

\* What a handler read is still so when it writes, and what it wrote when it goes on.
StillTrue(i) ==
    LET h == handlers[i]
        p == h.payment
    IN  /\ h.at \in {"call", "payment"} =>
             h.memory.refund = payments[p].refund /\ payments[p].refund # "processed"
        /\ h.at = "booking" => payments[p].refund = h.status
        /\ h.at # "booking" /\ p \in Booked => bookings[p].refund = payments[p].refund
        /\ h.at = "acknowledge" /\ h.status = "processed" => payments[p].refund = "processed"

HandlersKnow == \A i \in Slots : Active(i) /\ handlers[i].payment \in Undisturbed => StillTrue(i)

\* A payment nobody is working on agrees with its booking.
QuietAgree ==
    \A p \in Booked \ disturbed :
        (\A i \in Slots : Active(i) => handlers[i].payment # p) => bookings[p].refund = payments[p].refund

\* An acknowledged processed event is never forgotten.
ProcessedKept ==
    \A p \in Undisturbed, r \in RefundIds :
        remote[r].payment = p /\ <<r, "processed">> \in handled => payments[p].refund = "processed"

SerialInv ==
    /\ RefundInv
    /\ OneEach
    /\ EventsTrue
    /\ BookedFirst
    /\ OnlyBooked
    /\ HandlersKnow
    /\ QuietAgree
    /\ ProcessedKept

LEMMA RefundingPayments ==
  /\ Refunding \subseteq PaymentIds /\ Booked \subseteq Refunding
  /\ Undisturbed \subseteq Refunding /\ Booked \ disturbed \subseteq Undisturbed
  BY DEF Refunding, Undisturbed, PaymentIds

LEMMA ActiveHandlers ==
  ASSUME TypeOK
  PROVE  /\ handlers \in [Slots -> Handler \cup {Idle}]
         /\ \A i \in Slots : Active(i) <=> handlers[i] \in Handler
         /\ \A i \in Slots : Active(i) => /\ handlers[i].payment \in PaymentIds
                                          /\ handlers[i].refund \in RefundIds \cup {Null}
                                          /\ handlers[i].at # "idle"
                                          /\ handlers[i].status \in RazorpayRefundStatus
  BY IdleIsNoHandler DEF TypeOK, Active, Handler

\* A handler that starts is alone with its payment, or the payment is disturbed.
LEMMA BeginAlone ==
  ASSUME TypeOK, NEW h \in Handler, Begin(h)
  PROVE  /\ h.payment \notin disturbed' =>
              \A i \in Slots : Active(i) => handlers[i].payment # h.payment
         /\ disturbed \subseteq disturbed' /\ disturbed' \subseteq disturbed \cup {h.payment}
         /\ \E i \in Slots : handlers[i] = Idle /\ handlers' = [handlers EXCEPT ![i] = h]
  <1>1. \E i \in Slots : handlers[i] = Idle /\ handlers' = [handlers EXCEPT ![i] = h]
    BY DEF Begin
  <1>2. disturbed' = disturbed \cup {p \in {h.payment} : Busy(p)}
    BY DEF Begin
  <1>3. h.payment \notin disturbed' => ~Busy(h.payment)
    BY <1>2
  <1>4. ~Busy(h.payment) => \A i \in Slots : Active(i) => handlers[i].payment # h.payment
    BY ActiveHandlers DEF Busy
  <1> QED BY <1>1, <1>2, <1>3, <1>4

\* A handler that starts with what the rows say keeps what handlers know, as
\* long as the rows of other payments stay as they are.
LEMMA SerialBegin ==
  ASSUME SerialInv, TypeOK', NEW h \in Handler, Begin(h),
         UNCHANGED <<remote, seen, handled>>,
         h.refund # Null => /\ remote[h.refund].status # "none"
                            /\ remote[h.refund].payment = h.payment,
         \A p \in PaymentIds : p # h.payment =>
             payments'[p].refund = payments[p].refund /\ bookings'[p] = bookings[p],
         h.payment \in Booked => bookings'[h.payment].status # "none",
         bookings'[h.payment].status # "none" => h.payment \in Booked,
         h.payment \in Undisturbed' =>
             /\ h.at \in {"call", "payment"} =>
                  h.memory.refund = payments'[h.payment].refund
                    /\ payments'[h.payment].refund # "processed"
             /\ h.at # "booking"
             /\ h.payment \in Booked => bookings'[h.payment].refund = payments'[h.payment].refund
             /\ h.at = "acknowledge" /\ h.status = "processed" =>
                  payments'[h.payment].refund = "processed"
             /\ payments[h.payment].refund = "processed" => payments'[h.payment].refund = "processed"
  PROVE  OneEach' /\ EventsTrue' /\ BookedFirst' /\ OnlyBooked' /\ HandlersKnow'
           /\ QuietAgree' /\ ProcessedKept'
  <1>1. TypeOK /\ h.payment \in PaymentIds
    BY DEF SerialInv, RefundInv, Handler
  <1>2. PICK i \in Slots : handlers[i] = Idle /\ handlers' = [handlers EXCEPT ![i] = h]
    BY <1>1, BeginAlone
  <1>3. /\ h.payment \notin disturbed' => \A j \in Slots : Active(j) => handlers[j].payment # h.payment
        /\ disturbed \subseteq disturbed' /\ Undisturbed' \subseteq Undisturbed
    BY <1>1, BeginAlone DEF Undisturbed, Refunding
  <1>4. /\ handlers'[i] = h /\ Active(i)' /\ ~Active(i)
        /\ \A j \in Slots : j # i => handlers'[j] = handlers[j] /\ Active(j)' = Active(j)
    BY <1>1, <1>2, ActiveHandlers, IdleIsNoHandler DEF Active
  <1>5. OneEach'
    BY <1>3, <1>4 DEF SerialInv, OneEach
  <1>6. EventsTrue'
    BY <1>4 DEF SerialInv, EventsTrue
  <1>7. BookedFirst'
    BY <1>1, <1>4 DEF SerialInv, BookedFirst
  <1>8. OnlyBooked'
    BY DEF SerialInv, OnlyBooked
  <1>9. HandlersKnow'
    <2> SUFFICES ASSUME NEW j \in Slots, Active(j)', handlers'[j].payment \in Undisturbed'
                 PROVE  StillTrue(j)'
      BY DEF HandlersKnow
    <2>1. CASE j = i
      BY <1>4, <2>1 DEF StillTrue
    <2>2. CASE j # i
      <3>1. handlers'[j] = handlers[j] /\ Active(j) /\ StillTrue(j) /\ handlers[j].payment # h.payment
        BY <1>3, <1>4, <2>2 DEF SerialInv, HandlersKnow, Undisturbed
      <3>2. handlers[j].payment \in PaymentIds
        BY <1>1, <3>1, ActiveHandlers
      <3> QED BY <3>1, <3>2 DEF StillTrue
    <2> QED BY <2>1, <2>2
  <1>10. QuietAgree'
    <2> SUFFICES ASSUME NEW p \in Booked \ disturbed',
                        \A j \in Slots : Active(j)' => handlers'[j].payment # p
                 PROVE  bookings'[p].refund = payments'[p].refund
      BY DEF QuietAgree
    <2>1. p # h.payment /\ p \in PaymentIds /\ p \notin disturbed
      BY <1>3, <1>4, RefundingPayments
    <2>2. \A j \in Slots : Active(j) => handlers[j].payment # p
      BY <1>4
    <2> QED BY <2>1, <2>2 DEF SerialInv, QuietAgree
  <1>11. ProcessedKept'
    BY <1>3, RefundingPayments DEF SerialInv, ProcessedKept
  <1> QED BY <1>5, <1>6, <1>7, <1>8, <1>9, <1>10, <1>11

LEMMA SerialRefundBooking ==
  ASSUME SerialInv, RefundInv', NEW p \in PaymentIds, RefundBooking(p)
  PROVE  SerialInv'
  <1> DEFINE row == [payments[p] EXCEPT !.refund = "pending"]
             h == [at |-> "call", payment |-> p, memory |-> row, status |-> "pending", refund |-> Null]
  <1>1. /\ TypeOK /\ TypeOK' /\ payments \in [PaymentIds -> PaymentRow]
        /\ bookings \in [PaymentIds -> BookingRow]
    BY DEF SerialInv, RefundInv, TypeOK
  <1>2. row \in PaymentRow /\ h \in Handler
    BY <1>1 DEF PaymentRow, Handler, RefundStatus, RazorpayRefundStatus
  <1>3. payments' = [payments EXCEPT ![p] = row] /\ UNCHANGED <<remote, seen, handled>>
    BY <1>1 DEF RefundBooking, PaymentRow
  <1>4. Begin(h)
    BY DEF RefundBooking, StartRefund
  <1>5. /\ bookings' = [bookings EXCEPT ![p] = [status |-> "cancelled", refund |-> "pending"]]
        /\ bookings[p].status # "none" /\ bookings[p].refund \in {"none", "failed"}
    BY DEF RefundBooking, CancelledBooking, RefundAllowed
  <1>6. /\ h.status = "pending" /\ h.payment = p /\ h.at = "call" /\ row.refund = "pending"
        /\ h.memory = row /\ h.refund = Null
    BY <1>1 DEF PaymentRow
  <1> HIDE DEF h, row
  <1>7. p \in Booked /\ (p \notin disturbed' => payments[p].refund # "processed")
    <2>1. p \in Booked
      BY <1>5 DEF SerialInv, OnlyBooked
    <2>2. /\ p \notin disturbed' => \A i \in Slots : Active(i) => handlers[i].payment # p
          /\ disturbed \subseteq disturbed'
      BY <1>1, <1>2, <1>4, <1>6, BeginAlone
    <2> QED BY <1>5, <2>1, <2>2 DEF SerialInv, QuietAgree
  <1>8. /\ payments'[p].refund = "pending" /\ bookings'[p].status = "cancelled"
        /\ bookings'[p].refund = "pending"
    BY <1>1, <1>3, <1>5, <1>6
  <1>9. \A q \in PaymentIds : q # p => payments'[q].refund = payments[q].refund /\ bookings'[q] = bookings[q]
    BY <1>1, <1>3, <1>5
  <1>10. OneEach' /\ EventsTrue' /\ BookedFirst' /\ OnlyBooked' /\ HandlersKnow'
           /\ QuietAgree' /\ ProcessedKept'
    BY <1>1, <1>2, <1>3, <1>4, <1>6, <1>7, <1>8, <1>9, SerialBegin DEF Undisturbed
  <1> QED BY <1>10 DEF SerialInv

LEMMA SerialRefundWebhook ==
  ASSUME SerialInv, RefundInv', NEW r \in RefundIds, NEW s \in RazorpayRefundStatus,
         RefundWebhook(r, s)
  PROVE  SerialInv'
  <1>1. /\ TypeOK /\ TypeOK' /\ payments \in [PaymentIds -> PaymentRow]
    BY DEF SerialInv, RefundInv, TypeOK
  <1>2. /\ s \in seen[r] /\ remote[r].status # "none" /\ remote[r].payment \in PaymentIds
        /\ UNCHANGED <<payments, bookings, remote, seen, handled>>
    BY DEF RefundWebhook, SerialInv, RefundInv, Announced
  <1>3. PICK p \in PaymentIds : p = remote[r].payment
    BY <1>2
  <1> DEFINE h == [at |-> IF IgnoredEvent(p, s) THEN "acknowledge" ELSE "payment",
                   payment |-> p, memory |-> payments[p], status |-> s, refund |-> r]
  <1>4. Begin(h)
    BY <1>3 DEF RefundWebhook
  <1>5. h \in Handler
    BY <1>1 DEF Handler, RazorpayRefundStatus
  <1>6. /\ h.payment = p /\ h.memory = payments[p] /\ h.status = s /\ h.refund = r
        /\ h.at = IF IgnoredEvent(p, s) THEN "acknowledge" ELSE "payment"
    OBVIOUS
  <1> HIDE DEF h
  <1>7. /\ p \notin disturbed' => \A i \in Slots : Active(i) => handlers[i].payment # p
        /\ disturbed \subseteq disturbed'
    BY <1>1, <1>4, <1>5, <1>6, BeginAlone
  <1>8. p \in Booked => /\ bookings[p].status # "none"
                        /\ p \notin disturbed' => bookings[p].refund = payments[p].refund
    BY <1>3, <1>7 DEF SerialInv, RefundInv, NoPassAndRefund, QuietAgree
  <1>9. bookings[p].status # "none" => p \in Booked
    BY DEF SerialInv, OnlyBooked
  <1>10. /\ h.at \in {"call", "payment"} => payments[p].refund # "processed"
         /\ h.at # "booking"
         /\ h.at = "acknowledge" /\ s = "processed" => payments[p].refund = "processed"
    BY <1>6 DEF IgnoredEvent
  <1>11. OneEach' /\ EventsTrue' /\ BookedFirst' /\ OnlyBooked' /\ HandlersKnow'
           /\ QuietAgree' /\ ProcessedKept'
    BY <1>1, <1>2, <1>3, <1>4, <1>5, <1>6, <1>8, <1>9, <1>10, SerialBegin DEF Undisturbed
  <1> QED BY <1>11 DEF SerialInv

LEMMA SerialFinalize ==
  ASSUME SerialInv, RefundInv', NEW p \in PaymentIds, NEW honoured \in BOOLEAN,
         Finalize(p, honoured)
  PROVE  SerialInv'
  <1> DEFINE asks == \/ p \in Booked /\ bookings[p].status = "none" /\ ~honoured
                     \/ p \notin Booked /\ payments[p].refund = "none"
             row == [status |-> "captured", refund |-> IF asks THEN "pending" ELSE payments[p].refund]
             h == [at |-> "call", payment |-> p, memory |-> row, status |-> "pending", refund |-> Null]
  <1>1. /\ TypeOK /\ TypeOK' /\ payments \in [PaymentIds -> PaymentRow]
        /\ bookings \in [PaymentIds -> BookingRow]
    BY DEF SerialInv, RefundInv, TypeOK
  <1>2. row \in PaymentRow /\ h \in Handler
    BY <1>1 DEF PaymentRow, Handler, RefundStatus, RazorpayRefundStatus
  <1>3. payments' = [payments EXCEPT ![p] = row] /\ UNCHANGED <<remote, seen, handled>>
    BY DEF Finalize
  <1>4. \/ asks /\ Begin(h)
        \/ ~asks /\ p \in Mismatched /\ Begin(h)
        \/ ~asks /\ UNCHANGED <<handlers, disturbed>>
    BY DEF Finalize, StartRefund
  <1>5. /\ \A q \in PaymentIds : q # p => bookings'[q] = bookings[q]
        /\ bookings[p].status # "none" \/ p \notin Booked => bookings'[p] = bookings[p]
        /\ bookings[p].status = "none" /\ p \in Booked =>
             IF honoured THEN bookings'[p] = [status |-> "confirmed", refund |-> "none"]
             ELSE bookings'[p] = [status |-> "cancelled", refund |-> "pending"]
    BY <1>1 DEF Finalize
  <1>6. /\ h.status = "pending" /\ h.payment = p /\ h.at = "call" /\ h.memory = row /\ h.refund = Null
        /\ asks => row.refund = "pending"
        /\ ~asks => row.refund = payments[p].refund
    OBVIOUS
  <1>7. /\ payments'[p] = row
        /\ \A q \in PaymentIds : q # p => payments'[q] = payments[q]
    BY <1>1, <1>3
  <1>8. asks => payments[p].refund = "none"
    BY DEF SerialInv, BookedFirst
  <1>9. p \in Mismatched => p \notin Refunding /\ p \notin Booked
    BY RefundAssumption DEF Refunding
  <1>10. /\ p \in Booked => bookings'[p].status # "none"
         /\ bookings'[p].status # "none" => p \in Booked
    BY <1>5 DEF SerialInv, OnlyBooked
  <1> HIDE DEF h, row
  <1>11. CASE Begin(h) /\ (asks \/ p \in Mismatched)
    <2>1. p \in Refunding => /\ payments'[p].refund = "pending"
                             /\ payments[p].refund # "processed"
                             /\ p \in Booked => bookings'[p].refund = "pending"
      <3>1. p \in Refunding => asks
        BY <1>9, <1>11
      <3>2. p \in Booked /\ asks => bookings'[p].refund = "pending"
        BY <1>5, <1>8, <1>9, RefundAssumption
      <3> QED BY <1>6, <1>7, <1>8, <3>1, <3>2, RefundingPayments
    <2>2. \A q \in PaymentIds : q # p =>
             payments'[q].refund = payments[q].refund /\ bookings'[q] = bookings[q]
      BY <1>5, <1>7
    <2>3. OneEach' /\ EventsTrue' /\ BookedFirst' /\ OnlyBooked' /\ HandlersKnow'
           /\ QuietAgree' /\ ProcessedKept'
      BY <1>1, <1>2, <1>3, <1>6, <1>7, <1>10, <1>11, <2>1, <2>2, SerialBegin
      DEF Undisturbed
    <2> QED BY <2>3 DEF SerialInv
  <1>12. CASE ~asks /\ UNCHANGED <<handlers, disturbed>>
    <2>1. \A q \in PaymentIds : payments'[q].refund = payments[q].refund
      BY <1>6, <1>7, <1>12
    <2>2. \A j \in Slots : handlers'[j] = handlers[j] /\ Active(j)' = Active(j)
      BY <1>12 DEF Active
    <2>3. OneEach' /\ EventsTrue' /\ OnlyBooked' /\ ProcessedKept'
      BY <1>3, <1>5, <1>10, <1>12, <2>1, <2>2, RefundingPayments
      DEF SerialInv, OneEach, EventsTrue, OnlyBooked, ProcessedKept, Undisturbed
    <2>4. BookedFirst'
      BY <1>5, <1>10, <2>1, <2>2 DEF SerialInv, BookedFirst
    <2>5. p \in Booked /\ bookings[p].status = "none" =>
             /\ bookings'[p].refund = payments'[p].refund
             /\ \A j \in Slots : Active(j) => handlers[j].payment # p
      BY <1>5, <1>12, <2>1 DEF SerialInv, BookedFirst
    <2>6. QuietAgree'
      BY <1>5, <1>12, <2>1, <2>2, <2>5, RefundingPayments DEF SerialInv, QuietAgree
    <2>7. HandlersKnow'
      <3> SUFFICES ASSUME NEW j \in Slots, Active(j)', handlers'[j].payment \in Undisturbed'
                   PROVE  StillTrue(j)'
        BY DEF HandlersKnow
      <3>1. Active(j) /\ StillTrue(j) /\ handlers'[j] = handlers[j] /\ handlers[j].payment \in PaymentIds
        BY <1>1, <1>12, <2>2, ActiveHandlers DEF SerialInv, HandlersKnow, Undisturbed
      <3>2. handlers[j].payment \in Booked => bookings'[handlers[j].payment] = bookings[handlers[j].payment]
        BY <1>5, <2>5, <3>1
      <3> QED BY <2>1, <3>1, <3>2 DEF StillTrue
    <2> QED BY <2>3, <2>4, <2>6, <2>7 DEF SerialInv
  <1> QED BY <1>4, <1>11, <1>12

\* A handler goes on with the payment it has: nobody else works on that payment.
LEMMA SerialGoesOn ==
  ASSUME SerialInv, TypeOK', UNCHANGED disturbed, NEW i \in Slots, Active(i),
         \A j \in Slots : j # i => handlers'[j] = handlers[j],
         Active(i)' => /\ handlers'[i].payment = handlers[i].payment
                       /\ handlers'[i].refund = handlers[i].refund,
         \A p \in PaymentIds : p # handlers[i].payment =>
             payments'[p].refund = payments[p].refund /\ bookings'[p] = bookings[p],
         \A p \in PaymentIds : bookings'[p].status = bookings[p].status,
         handlers[i].payment \in Undisturbed /\ Active(i)' => StillTrue(i)',
         handlers[i].payment \in Booked \ disturbed /\ ~Active(i)' =>
             bookings'[handlers[i].payment].refund = payments'[handlers[i].payment].refund
  PROVE  OneEach' /\ BookedFirst' /\ OnlyBooked' /\ HandlersKnow' /\ QuietAgree'
  <1>1. TypeOK /\ handlers[i].payment \in PaymentIds
    BY ActiveHandlers DEF SerialInv, RefundInv
  <1>2. \A j \in Slots : Active(j)' =>
           /\ Active(j) /\ handlers'[j].payment = handlers[j].payment
           /\ j # i => \/ handlers[j].payment # handlers[i].payment
                       \/ handlers[j].payment \in disturbed
    BY DEF SerialInv, OneEach, Active
  <1>3. OneEach'
    BY <1>2 DEF SerialInv, OneEach
  <1>4. handlers[i].payment \in Booked => bookings[handlers[i].payment].status # "none"
    BY <1>1 DEF SerialInv, BookedFirst
  <1>5. BookedFirst'
    BY <1>2, <1>4 DEF SerialInv, BookedFirst
  <1>6. OnlyBooked'
    BY DEF SerialInv, OnlyBooked
  <1>7. HandlersKnow'
    <2> SUFFICES ASSUME NEW j \in Slots, j # i, Active(j)', handlers'[j].payment \in Undisturbed
                 PROVE  StillTrue(j)'
      BY <1>2 DEF HandlersKnow, Undisturbed
    <2>1. handlers'[j] = handlers[j] /\ Active(j) /\ StillTrue(j) /\ handlers[j].payment # handlers[i].payment
      BY <1>2 DEF SerialInv, HandlersKnow, Undisturbed
    <2>2. handlers[j].payment \in PaymentIds
      BY <1>1, <2>1, ActiveHandlers
    <2> QED BY <2>1, <2>2 DEF StillTrue
  <1>8. QuietAgree'
    <2> SUFFICES ASSUME NEW p \in Booked \ disturbed,
                        \A j \in Slots : Active(j)' => handlers'[j].payment # p
                 PROVE  bookings'[p].refund = payments'[p].refund
      BY DEF QuietAgree
    <2>1. CASE p = handlers[i].payment
      BY <1>2, <2>1
    <2>2. CASE p # handlers[i].payment
      <3>1. \A j \in Slots : Active(j) => handlers[j].payment # p
        BY <2>2 DEF Active
      <3> QED BY <2>2, <3>1, RefundingPayments DEF SerialInv, QuietAgree
    <2> QED BY <2>1, <2>2
  <1> QED BY <1>3, <1>5, <1>6, <1>7, <1>8

\* Where a handler that is not a call goes next.
LEMMA DoneGoes ==
  ASSUME NEW h \in Handler
  PROVE  \/ Done(h) = Idle
         \/ /\ Done(h) \in Handler /\ Done(h).at = "acknowledge" /\ h.refund # Null
            /\ Done(h).payment = h.payment /\ Done(h).refund = h.refund
            /\ Done(h).status = h.status
  BY DEF Done, Handler

LEMMA SerialWritePayment ==
  ASSUME SerialInv, RefundInv', NEW i \in Slots, WritePayment(i)
  PROVE  SerialInv'
  <1>1. /\ TypeOK /\ TypeOK' /\ payments \in [PaymentIds -> PaymentRow]
        /\ handlers \in [Slots -> Handler \cup {Idle}]
    BY DEF SerialInv, RefundInv, TypeOK
  <1>2. /\ handlers[i].at = "payment"
        /\ payments' = [payments EXCEPT ![handlers[i].payment] = RefundedRow(handlers[i])]
        /\ handlers' = [handlers EXCEPT ![i] =
              IF handlers[i].payment \in Booked THEN [handlers[i] EXCEPT !.at = "booking"]
              ELSE Done(handlers[i])]
        /\ UNCHANGED <<bookings, remote, seen, handled, disturbed>>
    BY DEF WritePayment
  <1>3. PICK h \in Handler : h = handlers[i] /\ Active(i)
    BY <1>1, <1>2 DEF Idle, Active
  <1>4. PICK p \in PaymentIds : p = h.payment
    BY DEF Handler
  <1>5. p \in Undisturbed =>
           /\ payments[p].refund # "processed" /\ h.memory.refund = payments[p].refund
    BY <1>2, <1>3, <1>4 DEF SerialInv, HandlersKnow, StillTrue
  <1>6. p \in Undisturbed => payments'[p].refund = h.status
    BY <1>1, <1>2, <1>3, <1>4, <1>5 DEF RefundedRow
  <1>7. \A q \in PaymentIds : q # p => payments'[q] = payments[q]
    BY <1>1, <1>2, <1>3, <1>4
  <1>8. /\ \A j \in Slots : j # i => handlers'[j] = handlers[j]
        /\ p \in Booked => handlers'[i] = [h EXCEPT !.at = "booking"]
        /\ p \notin Booked => handlers'[i] = Done(h)
    BY <1>1, <1>2, <1>3, <1>4
  <1>9. /\ p \in Booked => /\ handlers'[i].at = "booking" /\ handlers'[i] \in Handler
                           /\ handlers'[i].payment = p /\ handlers'[i].refund = h.refund
                           /\ handlers'[i].status = h.status
        /\ p \notin Booked => \/ handlers'[i] = Idle
                              \/ /\ handlers'[i].at = "acknowledge" /\ handlers'[i] \in Handler
                                 /\ handlers'[i].payment = p /\ handlers'[i].refund = h.refund
                                 /\ handlers'[i].status = h.status
    BY <1>4, <1>8, DoneGoes DEF Handler
  <1>10. Active(i)' =>
           /\ handlers'[i].payment = p /\ handlers'[i].refund = h.refund
           /\ handlers'[i].status = h.status
           /\ p \in Booked => handlers'[i].at = "booking"
           /\ p \notin Booked => handlers'[i].at = "acknowledge"
    BY <1>9 DEF Active
  <1>11. p \in Undisturbed /\ Active(i)' => StillTrue(i)'
    BY <1>6, <1>10 DEF StillTrue
  <1>12. p \in Booked => Active(i)'
    BY <1>9, IdleIsNoHandler DEF Active
  <1>13. OneEach' /\ BookedFirst' /\ OnlyBooked' /\ HandlersKnow' /\ QuietAgree'
    BY <1>1, <1>2, <1>3, <1>4, <1>7, <1>8, <1>10, <1>11, <1>12, SerialGoesOn
  <1>14. EventsTrue'
    BY <1>2, <1>3, <1>4, <1>8, <1>10 DEF SerialInv, EventsTrue, Active
  <1>15. ProcessedKept'
    BY <1>2, <1>5, <1>7, RefundingPayments DEF SerialInv, ProcessedKept, Undisturbed
  <1> QED BY <1>13, <1>14, <1>15 DEF SerialInv

LEMMA SerialWriteBooking ==
  ASSUME SerialInv, RefundInv', NEW i \in Slots, WriteBooking(i)
  PROVE  SerialInv'
  <1>1. /\ TypeOK /\ TypeOK' /\ bookings \in [PaymentIds -> BookingRow]
        /\ handlers \in [Slots -> Handler \cup {Idle}]
    BY DEF SerialInv, RefundInv, TypeOK
  <1>2. /\ handlers[i].at = "booking"
        /\ bookings' = [bookings EXCEPT ![handlers[i].payment].refund = handlers[i].status]
        /\ handlers' = [handlers EXCEPT ![i] = Done(handlers[i])]
        /\ UNCHANGED <<payments, remote, seen, handled, disturbed>>
    BY DEF WriteBooking
  <1>3. PICK h \in Handler : h = handlers[i] /\ Active(i)
    BY <1>1, <1>2 DEF Idle, Active
  <1>4. PICK p \in PaymentIds : p = h.payment
    BY DEF Handler
  <1>5. p \in Undisturbed => payments'[p].refund = h.status
    BY <1>2, <1>3, <1>4 DEF SerialInv, HandlersKnow, StillTrue
  <1>6. /\ \A q \in PaymentIds : q # p => bookings'[q] = bookings[q]
        /\ \A q \in PaymentIds : bookings'[q].status = bookings[q].status
        /\ bookings'[p].refund = h.status
    BY <1>1, <1>2, <1>3, <1>4 DEF BookingRow
  <1>7. /\ \A j \in Slots : j # i => handlers'[j] = handlers[j]
        /\ handlers'[i] = Done(h)
    BY <1>1, <1>2, <1>3
  <1>8. Active(i)' => /\ handlers'[i].payment = p /\ handlers'[i].refund = h.refund
                      /\ handlers'[i].status = h.status /\ handlers'[i].at = "acknowledge"
    BY <1>4, <1>7, DoneGoes DEF Active
  <1>9. p \in Undisturbed /\ Active(i)' => StillTrue(i)'
    BY <1>5, <1>6, <1>8 DEF StillTrue
  <1>10. p \in Booked \ disturbed => bookings'[p].refund = payments'[p].refund
    BY <1>5, <1>6, RefundingPayments
  <1>11. OneEach' /\ BookedFirst' /\ OnlyBooked' /\ HandlersKnow' /\ QuietAgree'
    BY <1>1, <1>2, <1>3, <1>4, <1>6, <1>7, <1>8, <1>9, <1>10, SerialGoesOn
  <1>12. EventsTrue'
    BY <1>2, <1>3, <1>4, <1>7, <1>8 DEF SerialInv, EventsTrue, Active
  <1>13. ProcessedKept'
    BY <1>2 DEF SerialInv, ProcessedKept, Undisturbed
  <1> QED BY <1>11, <1>12, <1>13 DEF SerialInv

LEMMA SerialAcknowledge ==
  ASSUME SerialInv, RefundInv', NEW i \in Slots, Acknowledge(i)
  PROVE  SerialInv'
  <1>1. TypeOK /\ TypeOK' /\ handlers \in [Slots -> Handler \cup {Idle}]
    BY DEF SerialInv, RefundInv, TypeOK
  <1>2. /\ handlers[i].at = "acknowledge"
        /\ handled' = handled \cup {<<handlers[i].refund, handlers[i].status>>}
        /\ handlers' = [handlers EXCEPT ![i] = Idle]
        /\ UNCHANGED <<payments, bookings, remote, seen, disturbed>>
    BY DEF Acknowledge
  <1>3. PICK h \in Handler : h = handlers[i] /\ Active(i)
    BY <1>1, <1>2 DEF Idle, Active
  <1>4. PICK p \in PaymentIds : p = h.payment
    BY DEF Handler
  <1>5. /\ h.refund # Null
        /\ remote[h.refund].status # "none" /\ remote[h.refund].payment = p
    BY <1>2, <1>3, <1>4 DEF SerialInv, RefundInv, Honest, EventsTrue
  <1>6. p \in Undisturbed => /\ p \in Booked => bookings[p].refund = payments[p].refund
                             /\ h.status = "processed" => payments[p].refund = "processed"
    BY <1>2, <1>3, <1>4 DEF SerialInv, HandlersKnow, StillTrue
  <1>7. /\ \A j \in Slots : j # i => handlers'[j] = handlers[j]
        /\ ~Active(i)'
    BY <1>1, <1>2 DEF Active
  <1>8. OneEach' /\ BookedFirst' /\ OnlyBooked' /\ HandlersKnow' /\ QuietAgree'
    BY <1>1, <1>2, <1>3, <1>4, <1>6, <1>7, RefundingPayments, SerialGoesOn
  <1>9. EventsTrue'
    BY <1>2, <1>3, <1>5, <1>7 DEF SerialInv, EventsTrue, Active
  <1>10. ProcessedKept'
    BY <1>2, <1>3, <1>5, <1>6 DEF SerialInv, ProcessedKept, Undisturbed
  <1> QED BY <1>8, <1>9, <1>10 DEF SerialInv

LEMMA SerialCall ==
  ASSUME SerialInv, RefundInv', NEW i \in Slots, Call(i)
  PROVE  SerialInv'
  <1>1. /\ TypeOK /\ TypeOK' /\ handlers \in [Slots -> Handler \cup {Idle}]
        /\ remote \in [RefundIds -> RemoteRefund] /\ seen \in [RefundIds -> SUBSET RazorpayRefundStatus]
    BY DEF SerialInv, RefundInv, TypeOK
  <1>2. PICK s \in RazorpayRefundStatus :
          /\ handlers[i].at = "call"
          /\ handlers' = [handlers EXCEPT ![i].at = "payment", ![i].status = s]
          /\ UNCHANGED <<payments, bookings, handled, disturbed>>
    BY DEF Call, RefundAccepted, RefundTimesOut, RefundRefused, Answered, RazorpayRefundStatus
  <1>3. PICK h \in Handler : h = handlers[i] /\ Active(i)
    BY <1>1, <1>2 DEF Idle, Active
  <1>4. PICK p \in PaymentIds : p = h.payment
    BY DEF Handler
  <1>5. \/ UNCHANGED <<remote, seen>>
        \/ \E r \in RefundIds, t \in {"pending", "processed"} : NewRefund(r, p, t)
    BY <1>3, <1>4 DEF Call, RefundAccepted, RefundTimesOut, RefundRefused
  <1>6. \A r \in RefundIds :
           /\ remote[r].status # "none" => remote'[r] = remote[r] /\ seen'[r] = seen[r]
           /\ remote'[r].status = "processed" => "processed" \in seen'[r]
    <2>1. CASE UNCHANGED <<remote, seen>>
      BY <2>1 DEF SerialInv, EventsTrue
    <2>2. ASSUME NEW q \in RefundIds, NEW t \in {"pending", "processed"}, NewRefund(q, p, t)
          PROVE  \A r \in RefundIds :
                   /\ remote[r].status # "none" => remote'[r] = remote[r] /\ seen'[r] = seen[r]
                   /\ remote'[r].status = "processed" => "processed" \in seen'[r]
      <3>1. /\ remote[q].status = "none"
            /\ remote'[q] = [payment |-> p, status |-> t] /\ seen'[q] = {t}
            /\ \A r \in RefundIds : r # q => remote'[r] = remote[r] /\ seen'[r] = seen[r]
        BY <1>1, <2>2 DEF NewRefund
      <3> QED BY <3>1 DEF SerialInv, EventsTrue
    <2> QED BY <1>5, <2>1, <2>2
  <1>7. /\ \A j \in Slots : j # i => handlers'[j] = handlers[j]
        /\ handlers'[i] = [h EXCEPT !.at = "payment", !.status = s]
    BY <1>1, <1>2, <1>3 DEF Handler
  <1>8. /\ handlers'[i].payment = p /\ handlers'[i].refund = h.refund /\ handlers'[i].memory = h.memory
        /\ handlers'[i].at = "payment"
    BY <1>4, <1>7 DEF Handler
  <1>9. p \in Undisturbed => StillTrue(i)'
    <2>1. p \in Undisturbed =>
             /\ h.memory.refund = payments[p].refund /\ payments[p].refund # "processed"
             /\ p \in Booked => bookings[p].refund = payments[p].refund
      BY <1>2, <1>3, <1>4 DEF SerialInv, HandlersKnow, StillTrue
    <2> QED BY <1>2, <1>8, <2>1 DEF StillTrue
  <1>10. Active(i)'
    BY <1>8 DEF Active, Idle
  <1>11. OneEach' /\ BookedFirst' /\ OnlyBooked' /\ HandlersKnow' /\ QuietAgree'
    BY <1>1, <1>2, <1>3, <1>4, <1>7, <1>8, <1>9, <1>10, SerialGoesOn
  <1>12. EventsTrue'
    <2>1. \A j \in Slots : Active(j)' =>
             Active(j) /\ handlers'[j].refund = handlers[j].refund
               /\ handlers'[j].payment = handlers[j].payment
               /\ handlers[j].refund \in RefundIds \cup {Null}
      BY <1>1, <1>3, <1>4, <1>7, <1>8, ActiveHandlers DEF Active
    <2>2. \A j \in Slots : Active(j)' /\ handlers'[j].refund # Null =>
             /\ remote'[handlers'[j].refund].status # "none"
             /\ remote'[handlers'[j].refund].payment = handlers'[j].payment
      BY <1>6, <2>1 DEF SerialInv, EventsTrue
    <2> QED BY <1>2, <1>6, <2>2 DEF SerialInv, EventsTrue
  <1>13. ProcessedKept'
    <2>1. "processed" \in RazorpayRefundStatus
      BY DEF RazorpayRefundStatus
    <2> QED BY <1>2, <1>6, <2>1 DEF SerialInv, EventsTrue, ProcessedKept, Undisturbed
  <1> QED BY <1>11, <1>12, <1>13 DEF SerialInv

\* Steps that leave the handlers and what the rows say of refunds alone.
LEMMA SerialElsewhere ==
  ASSUME SerialInv, UNCHANGED <<handlers, disturbed, bookings, handled>>,
         \A p \in PaymentIds : payments'[p].refund = payments[p].refund,
         \A r \in RefundIds : /\ remote'[r].payment = remote[r].payment
                              /\ remote[r].status # "none" => remote'[r].status # "none"
                              /\ remote'[r].status = "processed" => "processed" \in seen'[r]
  PROVE  OneEach' /\ EventsTrue' /\ BookedFirst' /\ OnlyBooked' /\ HandlersKnow'
           /\ QuietAgree' /\ ProcessedKept'
  <1>1. TypeOK /\ \A j \in Slots : Active(j)' = Active(j)
    BY DEF SerialInv, RefundInv, Active
  <1>2. OneEach' /\ BookedFirst' /\ OnlyBooked' /\ QuietAgree'
    BY <1>1, RefundingPayments DEF SerialInv, OneEach, BookedFirst, OnlyBooked, QuietAgree
  <1>3. EventsTrue' /\ ProcessedKept'
    BY <1>1, ActiveHandlers, RefundingPayments DEF SerialInv, EventsTrue, ProcessedKept, Undisturbed
  <1>4. HandlersKnow'
    BY <1>1, RefundingPayments DEF SerialInv, HandlersKnow, StillTrue, Undisturbed
  <1> QED BY <1>2, <1>3, <1>4

LEMMA InitSerialInv == Init => SerialInv
  <1> SUFFICES ASSUME Init PROVE SerialInv
    OBVIOUS
  <1>1. \A i \in Slots : ~Active(i)
    BY DEF Init, Active
  <1>2. OneEach /\ HandlersKnow
    BY <1>1 DEF OneEach, HandlersKnow
  <1>3. EventsTrue /\ BookedFirst /\ OnlyBooked /\ QuietAgree /\ ProcessedKept
    BY <1>1 DEF Init, EventsTrue, BookedFirst, OnlyBooked, QuietAgree, ProcessedKept, Undisturbed, PaymentIds
  <1> QED BY <1>2, <1>3, InitRefundInv DEF SerialInv

LEMMA NextSerialInv == SerialInv /\ [Next]_vars => SerialInv'
  <1> SUFFICES ASSUME SerialInv, [Next]_vars PROVE SerialInv'
    OBVIOUS
  <1>0. RefundInv /\ RefundInv'
    BY NextRefundInv DEF SerialInv
  <1>1. ASSUME NEW r \in RefundIds, NEW s \in RazorpayRefundStatus, RemoteStep(r, s)
        PROVE  SerialInv'
    <2>1. remote \in [RefundIds -> RemoteRefund] /\ seen \in [RefundIds -> SUBSET RazorpayRefundStatus]
      BY <1>0 DEF RefundInv, TypeOK
    <2>2. /\ remote' = [remote EXCEPT ![r].status = s]
          /\ seen' = [seen EXCEPT ![r] = @ \cup {s}]
          /\ UNCHANGED <<payments, bookings, handled, handlers, disturbed>>
      BY <1>1 DEF RemoteStep
    <2>3. /\ remote'[r].payment = remote[r].payment /\ remote'[r].status = s /\ s \in seen'[r]
          /\ \A q \in RefundIds : q # r => remote'[q] = remote[q] /\ seen'[q] = seen[q]
      BY <2>1, <2>2 DEF RemoteRefund
    <2>4. s # "none"
      BY DEF RazorpayRefundStatus
    <2>5. \A q \in RefundIds : remote[q].status = "processed" => "processed" \in seen[q]
      BY DEF SerialInv, EventsTrue
    <2>6. OneEach' /\ EventsTrue' /\ BookedFirst' /\ OnlyBooked' /\ HandlersKnow'
           /\ QuietAgree' /\ ProcessedKept'
      BY <2>2, <2>3, <2>4, <2>5, SerialElsewhere
    <2> QED BY <1>0, <2>6 DEF SerialInv
  <1>2. ASSUME NEW p \in PaymentIds, FinalizeRefunded(p)
        PROVE  SerialInv'
    <2>1. payments \in [PaymentIds -> PaymentRow]
      BY <1>0 DEF RefundInv, TypeOK
    <2>2. /\ payments' = [payments EXCEPT ![p].status = "refunded"]
          /\ UNCHANGED <<bookings, remote, seen, handled, handlers, disturbed>>
      BY <1>2 DEF FinalizeRefunded
    <2>3. \A q \in PaymentIds : payments'[q].refund = payments[q].refund
      BY <2>1, <2>2 DEF PaymentRow
    <2>4. OneEach' /\ EventsTrue' /\ BookedFirst' /\ OnlyBooked' /\ HandlersKnow'
           /\ QuietAgree' /\ ProcessedKept'
      BY <2>2, <2>3, SerialElsewhere DEF SerialInv, EventsTrue
    <2> QED BY <1>0, <2>4 DEF SerialInv
  <1>3. CASE Restart
    <2>1. /\ handlers' = [i \in Slots |-> Idle] /\ disturbed' = disturbed \cup HalfWritten
          /\ UNCHANGED <<payments, bookings, remote, seen, handled>>
      BY <1>3 DEF Restart
    <2>2. \A i \in Slots : ~Active(i)'
      BY <2>1 DEF Active
    <2>3. OneEach' /\ EventsTrue' /\ BookedFirst' /\ OnlyBooked' /\ HandlersKnow' /\ ProcessedKept'
      BY <2>1, <2>2
      DEF SerialInv, OneEach, EventsTrue, BookedFirst, OnlyBooked, HandlersKnow, ProcessedKept, Undisturbed
    <2>4. QuietAgree'
      <3> SUFFICES ASSUME NEW p \in Booked \ disturbed'
                   PROVE  bookings[p].refund = payments[p].refund
        BY <2>1 DEF QuietAgree
      <3>1. p \in Undisturbed /\ p \in PaymentIds /\ p \notin HalfWritten /\ p \notin disturbed
        BY <2>1, RefundingPayments
      <3>2. CASE \A i \in Slots : Active(i) => handlers[i].payment # p
        BY <3>1, <3>2 DEF SerialInv, QuietAgree
      <3>3. ASSUME NEW i \in Slots, Active(i), handlers[i].payment = p
            PROVE  bookings[p].refund = payments[p].refund
        <4>1. StillTrue(i)
          BY <3>1, <3>3 DEF SerialInv, HandlersKnow
        <4>2. handlers[i].at # "booking"
          BY <3>1, <3>3 DEF HalfWritten
        <4> QED BY <3>3, <4>1, <4>2 DEF StillTrue
      <3> QED BY <3>2, <3>3
    <2> QED BY <1>0, <2>3, <2>4 DEF SerialInv
  <1>4. CASE UNCHANGED vars
    <2>1. OneEach' /\ EventsTrue' /\ BookedFirst' /\ OnlyBooked' /\ HandlersKnow'
           /\ QuietAgree' /\ ProcessedKept'
      BY <1>4, SerialElsewhere DEF vars, SerialInv, EventsTrue
    <2> QED BY <1>0, <2>1 DEF SerialInv
  <1> QED
    BY <1>0, <1>1, <1>2, <1>3, <1>4, SerialFinalize, SerialRefundBooking, SerialRefundWebhook,
       SerialCall, SerialWritePayment, SerialWriteBooking, SerialAcknowledge
    DEF Next

\* A payment whose handlers never overlapped, and which no restart caught between
\* the two writes of applyRefund(), heals: when nobody works on it and its events
\* are acknowledged it says processed exactly when Razorpay does, and its booking
\* says the same, however many calls timed out, retries were refused, events came
\* late, handlers of other payments overlapped or restarts fell anywhere else.
THEOREM UndisturbedRefundsAgree == Spec => []RestAgrees
  <1>1. SerialInv => RestAgrees
    <2> SUFFICES ASSUME SerialInv, NEW p \in Undisturbed, AtRest(p)
                 PROVE  /\ payments[p].refund = "processed" <=> Processed(p)
                        /\ p \in Booked => bookings[p].refund = payments[p].refund
      BY DEF RestAgrees, Undisturbed, Refunding
    <2>1. TypeOK /\ ~Busy(p) /\ p \in PaymentIds
      BY RefundingPayments DEF AtRest, SerialInv, RefundInv
    <2>2. \A i \in Slots : Active(i) => handlers[i].payment # p
      BY <2>1, ActiveHandlers DEF Busy
    <2>3. payments[p].refund = "processed" => Processed(p)
      BY <2>1 DEF SerialInv, RefundInv, ProcessedIsReal
    <2>4. Processed(p) => payments[p].refund = "processed"
      BY DEF SerialInv, EventsTrue, ProcessedKept, Processed, AtRest, RazorpayRefundStatus
    <2> QED BY <2>2, <2>3, <2>4 DEF SerialInv, QuietAgree, Undisturbed
  <1>2. SerialInv /\ [Next]_vars => SerialInv'
    BY NextSerialInv
  <1> QED BY InitSerialInv, <1>1, <1>2, PTL DEF Spec
=============================================================================
