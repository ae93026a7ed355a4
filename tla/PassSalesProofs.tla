--------------------------- MODULE PassSalesProofs ---------------------------
(***************************************************************************)
(* Proofs about PassSales, for every set of members, keys and payments and *)
(* every value of the other constants.                                     *)
(***************************************************************************)
EXTENDS PassSales, FiniteSetTheorems, TLAPS

-----------------------------------------------------------------------------
(* Type correctness *)

\* What the handlers, the job and the webhooks hold refers to payments that
\* Razorpay has, so that their order is known.
PaymentsExist ==
    /\ \A p \in PaymentIds :
          /\ remote[p].status # "none" => remote[p].rzp \in RazorpayOrder
          /\ remote[p].status = "none" => remote[p].rzp = Null /\ seen[p] = {}
    /\ \A h \in handlers : remote[h.payment].status # "none"
    /\ \A x \in job.todo : remote[x[1]].status # "none"

\* Nobody waits for the Razorpay order of an order that does not exist.
NoneWaits == \A o \in Orders : orders[o].status = "none" => attaching[o] = 0

TypeInv == TypeOK /\ PaymentsExist /\ NoneWaits

LEMMA InitTypeInv == Init => TypeInv
  BY SalesAssumption
  DEF Init, TypeInv, TypeOK, PaymentsExist, NoneWaits, NoOrder, NoPayment, NoBooking, Idle,
      OrderStatus, PaymentStatus, BookingStatus, CancelReasons, EventRow, OrderRow,
      PaymentRow, BookingRow, RemotePayment, JobState


LEMMA FaultType ==
  ASSUME TypeOK, Fault
  PROVE  faults' \in 0 .. MaxFaults
  BY SalesAssumption DEF TypeOK, Fault

\* A transaction of finalize() writes well-typed rows.
LEMMA RecordType ==
  ASSUME TypeInv, NEW p \in PaymentIds, NEW s \in PaymentStatus,
         remote[p].status # "none", Record(p, s)
  PROVE  /\ OrderOf(p) \in Orders
         /\ orders' \in [Orders -> OrderRow]
         /\ payments' \in [PaymentIds -> PaymentRow]
         /\ bookings' \in [Orders -> BookingRow]
         /\ \A o \in Orders : orders'[o].status = "none" => orders[o].status = "none"
  <1>1. OrderOf(p) \in Orders
    BY DEF TypeInv, PaymentsExist, OrderOf, RazorpayOrder
  <1>2. RowStatus(p, s) \in PaymentStatus
    BY DEF RowStatus, PaymentStatus
  <1>3. RowRefund(p, s) \in {"none", "pending"}
    BY DEF RowRefund, TypeInv, TypeOK, PaymentRow
  <1>4. BookingFor(p) \in BookingRow
    <2>1. CancelReason(OrderOf(p)) \in CancelReasons \cup {"none"}
      BY DEF CancelReason, CancelReasons
    <2> QED BY <2>1 DEF BookingFor, BookingStatus, BookingRow
  <1>5. payments' \in [PaymentIds -> PaymentRow]
    BY <1>2, <1>3 DEF Record, TypeInv, TypeOK, PaymentRow
  <1>6. bookings' \in [Orders -> BookingRow]
    BY <1>1, <1>4 DEF Record, TypeInv, TypeOK
  <1>7. orders' \in [Orders -> OrderRow]
    <2>1. orders \in [Orders -> OrderRow]
      BY DEF TypeInv, TypeOK
    <2> QED BY <1>1, <2>1 DEF Record, OrderRow, OrderStatus
  <1>8. \A o \in Orders : orders'[o].status = "none" => orders[o].status = "none"
    <2>1. orders \in [Orders -> OrderRow]
      BY DEF TypeInv, TypeOK
    <2> QED BY <1>1, <2>1 DEF Record, OrderRow
  <1> QED
    BY <1>1, <1>5, <1>6, <1>7, <1>8

\* The part of finalize() before its transaction keeps the types.
LEMMA StartFinalizeType ==
  ASSUME TypeInv, NEW p \in PaymentIds, NEW s \in PaymentStatus,
         NEW source \in PaymentStatus \cup {"verify", "job"},
         remote[p].status # "none", StartFinalize(p, s, source),
         job' = job \/ (job' \in JobState /\ job'.todo \subseteq job.todo)
  PROVE  /\ remote' \in [PaymentIds -> RemotePayment]
         /\ seen' \in [PaymentIds -> SUBSET PaymentStatus]
         /\ handlers' \subseteq Handler
         /\ PaymentsExist'
  <1>1. /\ remote \in [PaymentIds -> RemotePayment]
        /\ seen \in [PaymentIds -> SUBSET PaymentStatus]
        /\ handlers \subseteq Handler
        /\ job \in JobState
        /\ PaymentsExist
    BY DEF TypeInv, TypeOK
  <1>2. remote[p].status \in PaymentStatus /\ remote[p].rzp \in RazorpayOrder
    BY <1>1 DEF RemotePayment, PaymentsExist
  <1>3. /\ remote' = remote \/ remote' = [remote EXCEPT ![p].status = "captured"]
        /\ seen' = seen \/ seen' = [seen EXCEPT ![p] = @ \cup {"captured"}]
        /\ \E t \in PaymentStatus :
              handlers' = handlers \cup {[payment |-> p, status |-> t, source |-> source]}
    BY <1>2 DEF StartFinalize, PaymentStatus
  <1>4. remote' \in [PaymentIds -> RemotePayment]
    BY <1>1, <1>3 DEF RemotePayment, PaymentStatus
  <1>5. seen' \in [PaymentIds -> SUBSET PaymentStatus]
    BY <1>1, <1>3 DEF PaymentStatus
  <1>6. handlers' \subseteq Handler
    BY <1>1, <1>3 DEF Handler
  <1>7. PaymentsExist'
    <2>1. \A q \in PaymentIds :
             /\ remote'[q].rzp = remote[q].rzp
             /\ remote'[q].status = "none" => remote[q].status = "none" /\ q # p
             /\ remote'[q].status # "none" => remote[q].status # "none"
      BY <1>1, <1>2, <1>3 DEF RemotePayment
    <2>2. \A q \in PaymentIds : q # p => seen'[q] = seen[q]
      BY <1>1, <1>3
    <2>3. \A h \in handlers' : remote'[h.payment].status # "none"
      BY <1>1, <1>3, <2>1 DEF Handler, PaymentsExist
    <2>4. \A x \in job'.todo : remote'[x[1]].status # "none"
      BY <1>1, <2>1 DEF JobState, PaymentsExist
    <2> QED BY <1>1, <2>1, <2>2, <2>3, <2>4 DEF PaymentsExist
  <1> QED BY <1>4, <1>5, <1>6, <1>7

LEMMA NextTypeInv == TypeInv /\ [Next]_vars => TypeInv'
  <1> SUFFICES ASSUME TypeInv, [Next]_vars PROVE TypeInv'
    OBVIOUS
  <1>1. ASSUME NEW o \in Orders, NEW quantity \in 1 .. MaxQuantity, CreateOrder(o, quantity)
        PROVE  TypeInv'
    <2>1. orders' \in [Orders -> OrderRow]
      BY <1>1, SalesAssumption DEF TypeInv, TypeOK, CreateOrder, ReplaceOrders, OrderRow, OrderStatus
    <2>2. attaching' \in [Orders -> 0 .. MaxRequests]
      BY <1>1, SalesAssumption DEF TypeInv, TypeOK, CreateOrder, NoneWaits
    <2>3. NoneWaits'
      BY <1>1 DEF TypeInv, TypeOK, CreateOrder, ReplaceOrders, NoneWaits
    <2> QED
      BY <1>1, <2>1, <2>2, <2>3
      DEF TypeInv, TypeOK, PaymentsExist, NoneWaits, tables, razorpay, CreateOrder
  <1>2. ASSUME NEW o \in Orders, JoinOrder(o)
        PROVE  TypeInv'
    <2>1. attaching' \in [Orders -> 0 .. MaxRequests]
      BY <1>2, SalesAssumption DEF TypeInv, TypeOK, JoinOrder
    <2>2. NoneWaits'
      BY <1>2 DEF TypeInv, TypeOK, JoinOrder, NoneWaits, tables
    <2> QED
      BY <1>2, <2>1, <2>2
      DEF TypeInv, TypeOK, PaymentsExist, NoneWaits, tables, razorpay, JoinOrder
  <1>3. ASSUME NEW o \in Orders, Attach(o)
        PROVE  TypeInv'
    <2>1. orders' \in [Orders -> OrderRow]
      BY <1>3, SalesAssumption DEF TypeInv, TypeOK, Attach, OrderRow
    <2>2. attaching' \in [Orders -> 0 .. MaxRequests] /\ issued' \in [Orders -> 0 .. MaxRequests]
      BY <1>3, SalesAssumption DEF TypeInv, TypeOK, Attach
    <2>3. NoneWaits'
      BY <1>3 DEF TypeInv, TypeOK, Attach, NoneWaits, OrderRow
    <2> QED
      BY <1>3, <2>1, <2>2, <2>3
      DEF TypeInv, TypeOK, PaymentsExist, NoneWaits, tables, razorpay, Attach
  <1>4. ASSUME NEW o \in Orders, AttachFails(o)
        PROVE  TypeInv'
    <2>1. orders' \in [Orders -> OrderRow]
      BY <1>4 DEF TypeInv, TypeOK, AttachFails, FailedStatus, OrderRow, OrderStatus
    <2>2. attaching' \in [Orders -> 0 .. MaxRequests]
      BY <1>4, SalesAssumption DEF TypeInv, TypeOK, AttachFails
    <2>3. NoneWaits'
      BY <1>4 DEF TypeInv, TypeOK, AttachFails, NoneWaits, OrderRow, FailedStatus
    <2>4. faults' \in 0 .. MaxFaults
      BY <1>4, FaultType DEF TypeInv, AttachFails
    <2> QED
      BY <1>4, <2>1, <2>2, <2>3, <2>4
      DEF TypeInv, TypeOK, PaymentsExist, NoneWaits, tables, razorpay, AttachFails
  <1>5. ASSUME NEW o \in Orders, RefundBooking(o)
        PROVE  TypeInv'
    <2>1. bookings' \in [Orders -> BookingRow]
      BY <1>5 DEF TypeInv, TypeOK, RefundBooking, BookingRow, BookingStatus, CancelReasons
    <2>2. payments' \in [PaymentIds -> PaymentRow]
      BY <1>5 DEF TypeInv, TypeOK, RefundBooking, BookingRow, PaymentRow
    <2> QED
      BY <1>5, <2>1, <2>2
      DEF TypeInv, TypeOK, PaymentsExist, NoneWaits, tables, razorpay, RefundBooking
  <1>6. ASSUME NEW p \in PaymentIds, NEW r \in RazorpayOrder, NEW exact \in Amounts, Pay(p, r, exact)
        PROVE  TypeInv'
    <2>1. remote' \in [PaymentIds -> RemotePayment] /\ seen' \in [PaymentIds -> SUBSET PaymentStatus]
      BY <1>6, SalesAssumption DEF TypeInv, TypeOK, Pay, RemotePayment, PaymentStatus
    <2>2. PaymentsExist'
      BY <1>6 DEF TypeInv, TypeOK, Pay, PaymentsExist, RemotePayment, Handler, JobState
    <2> QED
      BY <1>6, <2>1, <2>2
      DEF TypeInv, TypeOK, PaymentsExist, NoneWaits, tables, razorpay, Pay
  <1>7. ASSUME NEW p \in PaymentIds, NEW s \in PaymentStatus, RemoteStep(p, s)
        PROVE  TypeInv'
    <2>1. remote' \in [PaymentIds -> RemotePayment] /\ seen' \in [PaymentIds -> SUBSET PaymentStatus]
      BY <1>7 DEF TypeInv, TypeOK, RemoteStep, RemotePayment, PaymentStatus
    <2>2. remote[p].status # "none" /\ s # "none"
      BY <1>7 DEF TypeInv, TypeOK, RemoteStep, RemoteNext, PaymentStatus
    <2>3. PaymentsExist'
      BY <1>7, <2>2 DEF TypeInv, TypeOK, RemoteStep, PaymentsExist, RemotePayment, Handler, JobState
    <2> QED
      BY <1>7, <2>1, <2>2, <2>3
      DEF TypeInv, TypeOK, PaymentsExist, NoneWaits, tables, razorpay, RemoteStep
  <1>8. ASSUME NEW p \in PaymentIds, NEW s \in PaymentStatus, Webhook(p, s)
        PROVE  TypeInv'
    <2>1. remote[p].status # "none"
      BY <1>8 DEF TypeInv, TypeOK, Webhook, PaymentsExist
    <2>2. /\ remote' \in [PaymentIds -> RemotePayment]
          /\ seen' \in [PaymentIds -> SUBSET PaymentStatus]
          /\ handlers' \subseteq Handler
          /\ PaymentsExist'
      BY <1>8, <2>1, StartFinalizeType DEF TypeInv, TypeOK, Webhook
    <2> QED
      BY <1>8, <2>1, <2>2
      DEF TypeInv, TypeOK, PaymentsExist, NoneWaits, tables, razorpay, Webhook
  <1>9. ASSUME NEW p \in PaymentIds, NEW s \in PaymentStatus, WebhookIgnored(p, s)
        PROVE  TypeInv'
    BY <1>9 DEF TypeInv, TypeOK, PaymentsExist, NoneWaits, tables, razorpay, WebhookIgnored
  <1>10. ASSUME NEW p \in PaymentIds, Verify(p)
        PROVE  TypeInv'
    <2>1. remote[p].status \in PaymentStatus
      BY <1>10 DEF TypeInv, TypeOK, Verify, RemotePayment
    <2>2. remote[p].status # "none"
      BY <1>10 DEF TypeInv, TypeOK, Verify
    <2>3. /\ remote' \in [PaymentIds -> RemotePayment]
          /\ seen' \in [PaymentIds -> SUBSET PaymentStatus]
          /\ handlers' \subseteq Handler
          /\ PaymentsExist'
      BY <1>10, <2>1, <2>2, StartFinalizeType DEF TypeInv, TypeOK, Verify
    <2> QED
      BY <1>10, <2>1, <2>2, <2>3
      DEF TypeInv, TypeOK, PaymentsExist, NoneWaits, tables, razorpay, Verify
  <1>11. ASSUME NEW h \in handlers, Finalize(h)
        PROVE  TypeInv'
    <2>1. /\ h \in Handler /\ h.payment \in PaymentIds /\ h.status \in PaymentStatus
          /\ remote[h.payment].status # "none"
      BY <1>11 DEF TypeInv, TypeOK, PaymentsExist, Handler
    <2>2. Record(h.payment, h.status)
      BY <1>11 DEF TypeInv, TypeOK, Finalize
    <2> QED
      BY <1>11, <2>1, <2>2, RecordType
      DEF TypeInv, TypeOK, PaymentsExist, NoneWaits, tables, razorpay, Finalize
  <1>12. ASSUME NEW h \in handlers, FinalizeThenStop(h)
        PROVE  TypeInv'
    <2>1. /\ h.payment \in PaymentIds /\ h.status \in PaymentStatus
          /\ remote[h.payment].status # "none"
      BY <1>12 DEF TypeInv, TypeOK, PaymentsExist, Handler
    <2>2. Record(h.payment, h.status)
      BY <1>12 DEF TypeInv, TypeOK, FinalizeThenStop
    <2>3. Idle \in JobState
      BY <1>12 DEF TypeInv, TypeOK, Idle, JobState
    <2>4. attaching' \in [Orders -> 0 .. MaxRequests] /\ NoneWaits'
      BY <1>12, SalesAssumption DEF TypeInv, TypeOK, FinalizeThenStop, Forget, NoneWaits
    <2>5. faults' \in 0 .. MaxFaults
      BY <1>12, FaultType DEF TypeInv, FinalizeThenStop
    <2> QED
      BY <1>12, <2>1, <2>2, <2>3, <2>4, <2>5, RecordType
      DEF TypeInv, TypeOK, PaymentsExist, NoneWaits, tables, razorpay, FinalizeThenStop, Forget, Idle
  <1>13. ASSUME NEW h \in handlers, FinalizeFails(h)
        PROVE  TypeInv'
    <2>1. job' \in JobState /\ job'.todo \subseteq job.todo
      BY <1>13 DEF TypeInv, TypeOK, FinalizeFails, JobState
    <2>2. faults' \in 0 .. MaxFaults
      BY <1>13, FaultType DEF TypeInv, FinalizeFails
    <2> QED
      BY <1>13, <2>1, <2>2
      DEF TypeInv, TypeOK, PaymentsExist, NoneWaits, tables, razorpay, FinalizeFails
  <1>14. ASSUME NEW S \in SUBSET Orders, JobStart(S)
        PROVE  TypeInv'
    <2>1. \A o \in Orders : orders[o].rzp \in 0 .. MaxRequests
      BY <1>14 DEF TypeInv, TypeOK, OrderRow
    <2>2. job' = [due |-> {<<o, orders[o].rzp>> : o \in S}, order |-> Null, todo |-> {}]
      BY <1>14 DEF TypeInv, TypeOK, JobStart, Idle
    <2>3. job' \in JobState /\ job'.todo = {}
      BY <1>14, <2>1, <2>2 DEF TypeInv, TypeOK, JobState
    <2> QED
      BY <1>14, <2>1, <2>2, <2>3
      DEF TypeInv, TypeOK, PaymentsExist, NoneWaits, tables, razorpay, JobStart
  <1>15. ASSUME NEW d \in job.due, JobAsk(d)
        PROVE  TypeInv'
    <2>1. d \in Orders \X (0 .. MaxRequests)
      BY <1>15 DEF TypeInv, TypeOK, JobState
    <2>2. d # Null
      BY <1>15, <2>1, SalesAssumption DEF TypeInv, TypeOK, Orders
    <2>3. \A q \in PaymentIds : remote[q].rzp = d => remote[q].status \in PaymentStatus /\ remote[q].status # "none"
      BY <1>15, <2>2 DEF TypeInv, TypeOK, PaymentsExist, RemotePayment
    <2>4. job' \in JobState
      BY <1>15, <2>1, <2>3 DEF TypeInv, TypeOK, JobAsk, JobState
    <2>5. \A x \in job'.todo : remote[x[1]].status # "none"
      BY <1>15, <2>3 DEF TypeInv, TypeOK, JobAsk
    <2> QED
      BY <1>15, <2>1, <2>2, <2>3, <2>4, <2>5
      DEF TypeInv, TypeOK, PaymentsExist, NoneWaits, tables, razorpay, JobAsk
  <1>16. ASSUME NEW d \in job.due, JobAskFails(d)
        PROVE  TypeInv'
    <2>1. job' \in JobState /\ job'.todo = job.todo
      BY <1>16 DEF TypeInv, TypeOK, JobAskFails, JobState
    <2>2. faults' \in 0 .. MaxFaults
      BY <1>16, FaultType DEF TypeInv, JobAskFails
    <2> QED
      BY <1>16, <2>1, <2>2
      DEF TypeInv, TypeOK, PaymentsExist, NoneWaits, tables, razorpay, JobAskFails
  <1>17. ASSUME NEW x \in job.todo, JobFinalize(x)
        PROVE  TypeInv'
    <2>1. x[1] \in PaymentIds /\ x[2] \in PaymentStatus /\ remote[x[1]].status # "none"
      BY <1>17 DEF TypeInv, TypeOK, JobState, PaymentsExist
    <2>2. job' \in JobState /\ job'.todo \subseteq job.todo
      BY <1>17 DEF TypeInv, TypeOK, JobFinalize, JobState
    <2>3. /\ remote' \in [PaymentIds -> RemotePayment]
          /\ seen' \in [PaymentIds -> SUBSET PaymentStatus]
          /\ handlers' \subseteq Handler
          /\ PaymentsExist'
      BY <1>17, <2>1, <2>2, StartFinalizeType DEF TypeInv, TypeOK, JobFinalize
    <2> QED
      BY <1>17, <2>1, <2>2, <2>3
      DEF TypeInv, TypeOK, PaymentsExist, NoneWaits, tables, razorpay, JobFinalize
  <1>18. ASSUME NEW x \in job.todo, JobIgnores(x)
        PROVE  TypeInv'
    <2>1. job' \in JobState /\ job'.todo \subseteq job.todo
      BY <1>18 DEF TypeInv, TypeOK, JobIgnores, JobState
    <2> QED
      BY <1>18, <2>1
      DEF TypeInv, TypeOK, PaymentsExist, NoneWaits, tables, razorpay, JobIgnores
  <1>19. CASE JobExpire
    <2>1. job.order \in Orders
      BY <1>19 DEF TypeInv, TypeOK, JobExpire, JobState
    <2>2. orders' \in [Orders -> OrderRow]
      BY <1>19, <2>1 DEF TypeInv, TypeOK, JobExpire, ExpiredStatus, OrderRow, OrderStatus
    <2>3. \A o \in Orders : orders'[o].status = "none" => orders[o].status = "none"
      BY <1>19, <2>1 DEF TypeInv, TypeOK, JobExpire, ExpiredStatus, OrderRow
    <2>4. job' \in JobState /\ job'.todo = job.todo
      BY <1>19 DEF TypeInv, TypeOK, JobExpire, JobState
    <2> QED
      BY <1>19, <2>1, <2>2, <2>3, <2>4
      DEF TypeInv, TypeOK, PaymentsExist, NoneWaits, tables, razorpay, JobExpire
  <1>20. CASE Publish \/ Unpublish \/ Archive \/ Restore
    <2>1. event' \in EventRow /\ edits' \in 0 .. MaxEdits
      BY <1>20, SalesAssumption DEF TypeInv, TypeOK, Publish, Unpublish, Archive, Restore, EventTransition, Edit, EventRow
    <2> QED
      BY <1>20, <2>1
      DEF TypeInv, TypeOK, PaymentsExist, NoneWaits, tables, razorpay, Publish, Unpublish, Archive, Restore, EventTransition
  <1>21. ASSUME NEW schedule \in Schedules, Reschedule(schedule)
        PROVE  TypeInv'
    <2>1. schedule[1] \in Nat /\ schedule[2] \in Nat
      BY <1>21, SalesAssumption DEF TypeInv, TypeOK
    <2>2. event' \in EventRow
      BY <1>21, <2>1 DEF TypeInv, TypeOK, Reschedule, EventRow
    <2>3. edits' \in 0 .. MaxEdits
      BY <1>21, SalesAssumption DEF TypeInv, TypeOK, Reschedule, Edit
    <2> QED
      BY <1>21, <2>1, <2>2, <2>3
      DEF TypeInv, TypeOK, PaymentsExist, NoneWaits, tables, razorpay, Reschedule
  <1>22. ASSUME NEW priced \in BOOLEAN, NEW capacity \in Capacities \cup {Null},
               UpdatePass(priced, capacity)
        PROVE  TypeInv'
    <2>1. event' \in EventRow
      BY <1>22 DEF TypeInv, TypeOK, UpdatePass, EventRow
    <2>2. edits' \in 0 .. MaxEdits
      BY <1>22, SalesAssumption DEF TypeInv, TypeOK, UpdatePass, Edit
    <2> QED
      BY <1>22, <2>1, <2>2
      DEF TypeInv, TypeOK, PaymentsExist, NoneWaits, tables, razorpay, UpdatePass
  <1>23. CASE Tick
    <2>1. now' \in 0 .. MaxTime
      BY <1>23, SalesAssumption DEF TypeInv, TypeOK, Tick
    <2> QED
      BY <1>23, <2>1
      DEF TypeInv, TypeOK, PaymentsExist, NoneWaits, tables, razorpay, Tick
  <1>24. CASE Restart
    <2>1. Idle \in JobState
      BY <1>24 DEF TypeInv, TypeOK, Idle, JobState
    <2>2. attaching' \in [Orders -> 0 .. MaxRequests] /\ NoneWaits'
      BY <1>24, SalesAssumption DEF TypeInv, TypeOK, Restart, Forget, NoneWaits
    <2>3. faults' \in 0 .. MaxFaults
      BY <1>24, FaultType DEF TypeInv, Restart
    <2> QED
      BY <1>24, <2>1, <2>2, <2>3
      DEF TypeInv, TypeOK, PaymentsExist, NoneWaits, tables, razorpay, Restart, Forget, Idle
  <1>25. CASE UNCHANGED vars
    BY <1>25 DEF TypeInv, TypeOK, PaymentsExist, NoneWaits, tables, razorpay, vars
  <1> QED
    BY <1>1, <1>2, <1>3, <1>4, <1>5, <1>6, <1>7, <1>8, <1>9, <1>10, <1>11, <1>12, <1>13, <1>14, <1>15, <1>16, <1>17, <1>18, <1>19, <1>20, <1>21, <1>22, <1>23, <1>24, <1>25 DEF Next

\* Every variable keeps its type: TypeOK, for every value of the constants.
THEOREM TypeCorrect == Spec => []TypeOK
  <1>1. TypeInv => TypeOK
    BY DEF TypeInv
  <1> QED
    BY InitTypeInv, NextTypeInv, <1>1, PTL DEF Spec

-----------------------------------------------------------------------------
(* Counting passes *)

\* The passes of the orders in S when order o is for q[o] passes.
PassesOf(S, q) == {pass \in S \X (1 .. MaxQuantity) : pass[2] <= q[pass[1]]}

LEMMA OrdersFinite == IsFiniteSet(Orders)
  BY SalesAssumption, FS_Product DEF Orders

LEMMA PassesFinite ==
  ASSUME NEW S \in SUBSET Orders, NEW q
  PROVE  IsFiniteSet(PassesOf(S, q)) /\ Cardinality(PassesOf(S, q)) \in Nat
  <1>1. IsFiniteSet(1 .. MaxQuantity)
    BY FS_Interval, SalesAssumption
  <1>2. IsFiniteSet(S)
    BY OrdersFinite, FS_Subset
  <1>3. IsFiniteSet(S \X (1 .. MaxQuantity))
    BY <1>1, <1>2, FS_Product
  <1>4. PassesOf(S, q) \in SUBSET (S \X (1 .. MaxQuantity))
    BY DEF PassesOf
  <1>5. IsFiniteSet(PassesOf(S, q))
    BY <1>3, <1>4, FS_Subset
  <1> QED BY <1>5, FS_CardinalityType

\* Fewer orders of the same size have no more passes.
LEMMA PassesMonotone ==
  ASSUME NEW T \in SUBSET Orders, NEW S \in SUBSET T, NEW q, NEW r,
         \A o \in S : q[o] = r[o]
  PROVE  Cardinality(PassesOf(S, q)) <= Cardinality(PassesOf(T, r))
  <1>1. PassesOf(S, q) \in SUBSET PassesOf(T, r)
    BY DEF PassesOf
  <1> QED BY <1>1, PassesFinite, FS_Subset

\* One more order adds its quantity.
LEMMA PassesAdd ==
  ASSUME NEW S \in SUBSET Orders, NEW o \in Orders, o \notin S, NEW q,
         q[o] \in 0 .. MaxQuantity
  PROVE  Cardinality(PassesOf(S \cup {o}, q)) = Cardinality(PassesOf(S, q)) + q[o]
  <1> DEFINE own == {o} \X (1 .. q[o])
  <1>1. IsFiniteSet(1 .. q[o]) /\ Cardinality(1 .. q[o]) = q[o]
    <2>1. q[o] \in Int /\ 1 \in Int /\ q[o] >= 0
      BY SalesAssumption
    <2>2. /\ IsFiniteSet(1 .. q[o])
          /\ Cardinality(1 .. q[o]) = IF 1 > q[o] THEN 0 ELSE q[o] - 1 + 1
      BY <2>1, FS_Interval
    <2> QED BY <2>1, <2>2
  <1>2. IsFiniteSet({o}) /\ Cardinality({o}) = 1
    BY FS_Singleton
  <1>3. IsFiniteSet(own) /\ Cardinality(own) = q[o]
    <2>1. IsFiniteSet(own) /\ Cardinality(own) = 1 * q[o]
      BY <1>1, <1>2, FS_Product
    <2> QED BY <2>1, SalesAssumption
  <1>4. PassesOf(S \cup {o}, q) = PassesOf(S, q) \cup own
    BY SalesAssumption DEF PassesOf
  <1>5. PassesOf(S, q) \cap own = {}
    BY DEF PassesOf
  <1>6. Cardinality(PassesOf(S, q) \cap own) = 0
    BY <1>5, FS_EmptySet
  <1> HIDE DEF own
  <1>7. Cardinality(PassesOf(S, q) \cup own) =
          Cardinality(PassesOf(S, q)) + Cardinality(own) - Cardinality(PassesOf(S, q) \cap own)
    BY <1>3, PassesFinite, FS_Union
  <1>8. Cardinality(PassesOf(S, q)) \in Nat /\ q[o] \in Nat
    BY PassesFinite, SalesAssumption
  <1>9. Cardinality(PassesOf(S \cup {o}, q)) = Cardinality(PassesOf(S, q) \cup own)
    BY <1>4
  <1> QED BY <1>3, <1>6, <1>7, <1>8, <1>9

-----------------------------------------------------------------------------
(* No overselling *)

Quantities == [o \in Orders |-> orders[o].quantity]

LEMMA SeatCountsAsPasses ==
  ASSUME NEW X
  PROVE  SeatCounts(X) = Cardinality(PassesOf(Confirmed, Quantities))
                         + Cardinality(PassesOf(Holding \ X, Quantities))
  <1>1. \A S \in SUBSET Orders : Passes(S) = PassesOf(S, Quantities)
    BY DEF Passes, PassesOf, Quantities
  <1>2. Confirmed \in SUBSET Orders /\ Holding \ X \in SUBSET Orders
    BY DEF Confirmed, Holding
  <1>3. Passes(Confirmed) = PassesOf(Confirmed, Quantities)
    BY <1>1, <1>2
  <1>4. Passes(Holding \ X) = PassesOf(Holding \ X, Quantities)
    BY <1>1, <1>2
  <1> QED BY <1>3, <1>4 DEF SeatCounts

LEMMA SeatSets ==
  /\ Confirmed \in SUBSET Orders
  /\ Holding \in SUBSET Orders
  BY DEF Confirmed, Holding

LEMMA SeatCountsNext ==
  /\ Confirmed' \in SUBSET Orders
  /\ Holding' \in SUBSET Orders
  /\ SeatCounts({})' = Cardinality(PassesOf(Confirmed', Quantities'))
                       + Cardinality(PassesOf(Holding', Quantities'))
  <1>1. Confirmed' \in SUBSET Orders /\ Holding' \in SUBSET Orders
    BY DEF Confirmed, Holding
  <1>2. Holding' \ {} = Holding'
    OBVIOUS
  <1> QED BY <1>1, <1>2 DEF SeatCounts, Passes, PassesOf, Quantities

\* A step that confirms no booking, makes no hold and changes no quantity or
\* capacity cannot oversell.
LEMMA NothingTaken ==
  ASSUME TypeInv, NoOversell, event'.capacity = event.capacity,
         \A o \in Orders :
            /\ orders'[o].quantity = orders[o].quantity
            /\ bookings'[o].status = "confirmed" => bookings[o].status = "confirmed"
            /\ Live(o)' => Live(o)
  PROVE  NoOversell'
  <1>1. Confirmed' \in SUBSET Confirmed /\ Holding' \in SUBSET Holding
    BY DEF Confirmed, Holding
  <1>2. \A o \in Orders : Quantities'[o] = Quantities[o]
    BY DEF Quantities
  <1> DEFINE c == Cardinality(PassesOf(Confirmed, Quantities))
             h == Cardinality(PassesOf(Holding, Quantities))
             c1 == Cardinality(PassesOf(Confirmed', Quantities'))
             h1 == Cardinality(PassesOf(Holding', Quantities'))
  <1>3. c1 <= c
    BY <1>1, <1>2, SeatSets, PassesMonotone
  <1>4. h1 <= h
    BY <1>1, <1>2, SeatSets, PassesMonotone
  <1>5. c \in Nat /\ h \in Nat
    BY SeatSets, PassesFinite
  <1>6. c1 \in Nat /\ h1 \in Nat
    BY SeatCountsNext, PassesFinite
  <1>7. SeatCounts({}) = c + h
    <2>1. Holding \ {} = Holding
      OBVIOUS
    <2> QED BY <2>1, SeatCountsAsPasses
  <1>8. SeatCounts({})' = c1 + h1
    BY SeatCountsNext
  <1> HIDE DEF c, h, c1, h1
  <1>9. event.capacity # Null => event.capacity \in Nat
    BY SalesAssumption DEF TypeInv, TypeOK, EventRow
  <1> QED BY <1>3, <1>4, <1>5, <1>6, <1>7, <1>8, <1>9 DEF NoOversell

\* A new order takes no more than createOrder found free.
LEMMA CreateOrderFits ==
  ASSUME TypeInv, PaidIffBooked, NEW o \in Orders, NEW quantity \in 1 .. MaxQuantity,
         CreateOrder(o, quantity)
  PROVE  NoOversell'
  <1> DEFINE H == Holding \ SupersededBy(o)
             c == Cardinality(PassesOf(Confirmed, Quantities))
             h == Cardinality(PassesOf(H, Quantities))
             c1 == Cardinality(PassesOf(Confirmed', Quantities'))
             h1 == Cardinality(PassesOf(Holding', Quantities'))
  <1>1. orders \in [Orders -> OrderRow] /\ event \in EventRow
    BY DEF TypeInv, TypeOK
  <1>2. /\ orders[o].status = "none" /\ event' = event /\ bookings' = bookings
        /\ event.capacity # Null => SeatCounts(SupersededBy(o)) + quantity <= event.capacity
    <2>1. SeatCounts(SupersededBy(o)) \in Nat
      <3>1. Confirmed \in SUBSET Orders /\ Holding \ SupersededBy(o) \in SUBSET Orders
        BY SeatSets
      <3>2. c \in Nat /\ h \in Nat
        BY <3>1, PassesFinite
      <3>3. SeatCounts(SupersededBy(o)) = c + h
        BY SeatCountsAsPasses
      <3> HIDE DEF c, h
      <3> QED BY <3>2, <3>3
    <2>2. event.capacity # Null => event.capacity \in Nat
      BY <1>1, SalesAssumption DEF EventRow
    <2> QED BY <2>1, <2>2, SalesAssumption DEF CreateOrder, NoSeatFor, SoldOut
  <1>3. o \notin Confirmed
    BY <1>2 DEF Confirmed, PaidIffBooked
  <1>4. o \notin Holding
    BY <1>2 DEF Holding, Live
  <1>5. /\ Quantities'[o] = quantity
        /\ \A x \in Orders \ {o} : Quantities'[x] = Quantities[x]
    BY <1>1 DEF Quantities, CreateOrder, ReplaceOrders, OrderRow
  <1>6. Confirmed' = Confirmed
    BY <1>2 DEF Confirmed
  <1>7. Holding' \in SUBSET (H \cup {o})
    BY <1>1 DEF Holding, Live, CreateOrder, ReplaceOrders, OrderRow
  <1>8. c1 <= c
    BY <1>3, <1>5, <1>6, SeatSets, PassesMonotone
  <1>9. H \in SUBSET Orders /\ o \notin H
    BY <1>4, SeatSets
  <1>10. h1 <= Cardinality(PassesOf(H \cup {o}, Quantities'))
    BY <1>7, <1>9, PassesMonotone
  <1>11. Cardinality(PassesOf(H \cup {o}, Quantities')) =
           Cardinality(PassesOf(H, Quantities')) + quantity
    <2>1. Quantities'[o] \in 0 .. MaxQuantity
      BY <1>5
    <2> QED BY <1>5, <1>9, <2>1, PassesAdd
  <1>12. Cardinality(PassesOf(H, Quantities')) <= h
    BY <1>5, <1>9, PassesMonotone
  <1>13. SeatCounts(SupersededBy(o)) = c + h
    BY SeatCountsAsPasses
  <1>14. SeatCounts({})' = c1 + h1
    BY SeatCountsNext
  <1>15. /\ c \in Nat /\ h \in Nat /\ c1 \in Nat /\ h1 \in Nat
         /\ Cardinality(PassesOf(H, Quantities')) \in Nat
    BY <1>9, SeatSets, SeatCountsNext, PassesFinite
  <1>16. event.capacity # Null => event.capacity \in Nat
    BY <1>1, SalesAssumption DEF EventRow
  <1> HIDE DEF c, h, c1, h1, H
  <1> QED
    BY <1>2, <1>8, <1>10, <1>11, <1>12, <1>13, <1>14, <1>15, <1>16 DEF NoOversell

\* A booking takes the seats its order held, or seats finalize() found free.
LEMMA BookingFits ==
  ASSUME TypeInv, NoOversell, PaidIffBooked, NEW p \in PaymentIds, NEW s \in PaymentStatus,
         remote[p].status # "none", Record(p, s), Books(p, s),
         CancelReason(OrderOf(p)) = "none", event' = event, now' = now
  PROVE  NoOversell'
  <1> DEFINE o == OrderOf(p)
             H == Holding \ {o}
             c == Cardinality(PassesOf(Confirmed, Quantities))
             h == Cardinality(PassesOf(H, Quantities))
             c1 == Cardinality(PassesOf(Confirmed', Quantities'))
             h1 == Cardinality(PassesOf(Holding', Quantities'))
  <1>1. orders \in [Orders -> OrderRow] /\ bookings \in [Orders -> BookingRow] /\ event \in EventRow
    BY DEF TypeInv, TypeOK
  <1>2. o \in Orders
    BY RecordType
  <1>3. /\ orders' = [orders EXCEPT ![o].status = "paid"]
        /\ bookings' = [bookings EXCEPT ![o] = BookingFor(p)]
        /\ bookings[o].status = "none"
    BY DEF Record, Books
  <1> HIDE DEF o
  <1>4. \A x \in Orders : Quantities'[x] = Quantities[x]
    BY <1>1, <1>2, <1>3 DEF Quantities, OrderRow
  <1>5. o \notin Confirmed /\ Confirmed' \in SUBSET (Confirmed \cup {o})
    BY <1>1, <1>2, <1>3 DEF Confirmed
  <1>6. Holding' \in SUBSET H
    BY <1>1, <1>2, <1>3 DEF Holding, Live, OrderRow
  <1>7. H \in SUBSET Orders /\ o \notin H
    BY SeatSets
  <1>8. h1 <= h
    BY <1>4, <1>6, <1>7, PassesMonotone
  <1>9. Quantities[o] \in 0 .. MaxQuantity
    BY <1>1, <1>2 DEF Quantities, OrderRow
  <1>10. c1 <= c + Quantities[o]
    <2>1. Cardinality(PassesOf(Confirmed \cup {o}, Quantities)) = c + Quantities[o]
      BY <1>2, <1>5, <1>9, SeatSets, PassesAdd
    <2>2. Confirmed \cup {o} \in SUBSET Orders
      BY <1>2, SeatSets
    <2>3. c1 <= Cardinality(PassesOf(Confirmed \cup {o}, Quantities))
      BY <1>4, <1>5, <2>2, PassesMonotone
    <2> QED BY <2>1, <2>3
  <1>11. SeatCounts({})' = c1 + h1
    BY SeatCountsNext
  <1>12. /\ c \in Nat /\ h \in Nat /\ c1 \in Nat /\ h1 \in Nat
         /\ Quantities[o] \in Nat
    BY <1>7, <1>9, SeatSets, SeatCountsNext, PassesFinite, SalesAssumption
  <1>13. event.capacity # Null => event.capacity \in Nat
    BY <1>1, SalesAssumption DEF EventRow
  <1>14. event.capacity # Null => c + h + Quantities[o] <= event.capacity
    <2>1. CASE o \in Holding
      <3>1. Cardinality(PassesOf(H \cup {o}, Quantities)) = h + Quantities[o]
        BY <1>2, <1>7, <1>9, PassesAdd
      <3>2. H \cup {o} = Holding \ {}
        BY <2>1
      <3>3. SeatCounts({}) = c + Cardinality(PassesOf(Holding \ {}, Quantities))
        BY SeatCountsAsPasses
      <3>4. SeatCounts({}) = c + (h + Quantities[o])
        BY <3>1, <3>2, <3>3
      <3> HIDE DEF c, h
      <3> QED BY <3>4, <1>12, <1>13 DEF NoOversell
    <2>2. CASE o \notin Holding
      <3>1. ~Live(o)
        BY <1>2, <2>2 DEF Holding
      <3>2. ~SoldOut(orders[o].quantity, {o})
        BY <3>1 DEF CancelReason, o
      <3>3. SeatCounts({o}) = c + h
        BY SeatCountsAsPasses
      <3>4. orders[o].quantity = Quantities[o]
        BY <1>2 DEF Quantities
      <3> HIDE DEF c, h
      <3> QED BY <3>2, <3>3, <3>4, <1>12, <1>13 DEF SoldOut
    <2> QED BY <2>1, <2>2
  <1> HIDE DEF c, h, c1, h1, H
  <1> QED
    BY <1>8, <1>10, <1>11, <1>12, <1>13, <1>14 DEF NoOversell

\* The inductive invariant: NoOversell needs the types, and that an order with
\* a booking is paid, so that no pass is counted as sold and as held.
SeatInv == TypeInv /\ NoOversell /\ PaidIffBooked

LEMMA InitSeatInv == Init => SeatInv
  <1> SUFFICES ASSUME Init PROVE SeatInv
    OBVIOUS
  <1>1. TypeInv
    BY InitTypeInv
  <1>2. PaidIffBooked
    BY DEF Init, PaidIffBooked, NoOrder, NoBooking
  <1>3. Confirmed = {} /\ Holding = {}
    BY DEF Init, Confirmed, Holding, Live, NoOrder, NoBooking
  <1>4. Passes(Confirmed) = {} /\ Passes(Holding \ {}) = {}
    BY <1>3 DEF Passes
  <1>5. SeatCounts({}) = 0
    BY <1>4, FS_EmptySet DEF SeatCounts
  <1>6. event.capacity # Null => event.capacity \in Nat
    BY <1>1, SalesAssumption DEF TypeInv, TypeOK, EventRow
  <1> QED BY <1>1, <1>2, <1>5, <1>6 DEF SeatInv, NoOversell

\* finalize()'s transaction keeps both.
LEMMA RecordKeepsSeats ==
  ASSUME SeatInv, NEW h \in handlers, Record(h.payment, h.status), event' = event, now' = now
  PROVE  NoOversell' /\ PaidIffBooked'
  <1> DEFINE p == h.payment
             s == h.status
             o == OrderOf(p)
  <1>1. /\ p \in PaymentIds /\ s \in PaymentStatus /\ remote[p].status # "none"
        /\ TypeInv /\ NoOversell /\ PaidIffBooked
    BY DEF SeatInv, TypeInv, TypeOK, PaymentsExist, Handler
  <1>2. o \in Orders
    BY <1>1, RecordType
  <1>3. orders \in [Orders -> OrderRow] /\ bookings \in [Orders -> BookingRow]
    BY <1>1 DEF TypeInv, TypeOK
  <1>4. CASE ~Books(p, s)
    <2>1. orders' = orders /\ bookings' = bookings
      BY <1>4 DEF Record
    <2>2. NoOversell'
      BY <1>1, <2>1, NothingTaken DEF Live
    <2> QED BY <1>1, <2>1, <2>2 DEF PaidIffBooked
  <1>5. CASE Books(p, s)
    <2>1. /\ orders' = [orders EXCEPT ![o].status = "paid"]
          /\ bookings' = [bookings EXCEPT ![o] = BookingFor(p)]
      BY <1>5 DEF Record
    <2>2. BookingFor(p).status = IF CancelReason(o) = "none" THEN "confirmed" ELSE "cancelled"
      BY DEF BookingFor
    <2> HIDE DEF o
    <2>3. PaidIffBooked'
      BY <1>1, <1>2, <1>3, <2>1, <2>2 DEF PaidIffBooked, OrderRow
    <2>4. CASE CancelReason(o) = "none"
      BY <1>1, <1>5, <2>3, <2>4, BookingFits DEF o
    <2>5. CASE CancelReason(o) # "none"
      <3>1. \A x \in Orders :
               /\ orders'[x].quantity = orders[x].quantity
               /\ bookings'[x].status = "confirmed" => bookings[x].status = "confirmed"
               /\ Live(x)' => Live(x)
        BY <1>2, <1>3, <2>1, <2>2, <2>5 DEF Live, OrderRow
      <3> QED BY <1>1, <2>3, <3>1, NothingTaken
    <2> QED BY <2>4, <2>5
  <1> QED BY <1>4, <1>5

LEMMA NextSeatInv == SeatInv /\ [Next]_vars => SeatInv'
  <1> SUFFICES ASSUME SeatInv, [Next]_vars PROVE SeatInv'
    OBVIOUS
  <1>1. TypeInv'
    BY NextTypeInv DEF SeatInv
  <1>2. /\ TypeInv /\ NoOversell /\ PaidIffBooked
        /\ orders \in [Orders -> OrderRow] /\ bookings \in [Orders -> BookingRow]
        /\ now \in Nat /\ event \in EventRow /\ job \in JobState
    BY DEF SeatInv, TypeInv, TypeOK
  <1> SUFFICES NoOversell' /\ PaidIffBooked'
    BY <1>1 DEF SeatInv
  <1>3. CASE UNCHANGED <<now, event, orders, bookings>>
    <2>1. NoOversell'
      BY <1>2, <1>3, NothingTaken DEF Live
    <2> QED BY <1>2, <1>3, <2>1 DEF PaidIffBooked
  <1>4. ASSUME NEW o \in Orders, NEW quantity \in 1 .. MaxQuantity, CreateOrder(o, quantity)
        PROVE  NoOversell' /\ PaidIffBooked'
    <2>1. PaidIffBooked'
      BY <1>2, <1>4 DEF PaidIffBooked, CreateOrder, ReplaceOrders, SupersededBy, OrderRow
    <2> QED BY <1>2, <1>4, <2>1, CreateOrderFits
  <1>5. ASSUME NEW o \in Orders, Attach(o) \/ AttachFails(o) \/ RefundBooking(o)
        PROVE  NoOversell' /\ PaidIffBooked'
    <2>1. PaidIffBooked'
      BY <1>2, <1>5 DEF PaidIffBooked, Attach, AttachFails, RefundBooking, FailedStatus,
                        OrderRow, BookingRow
    <2>2. /\ event' = event
          /\ \A x \in Orders :
               /\ orders'[x].quantity = orders[x].quantity
               /\ bookings'[x].status = "confirmed" => bookings[x].status = "confirmed"
               /\ Live(x)' => Live(x)
      <3>1. CASE Attach(o)
        BY <1>2, <3>1 DEF Live, Attach, OrderRow
      <3>2. CASE AttachFails(o)
        BY <1>2, <3>2 DEF Live, AttachFails, FailedStatus, OrderRow
      <3>3. CASE RefundBooking(o)
        BY <1>2, <3>3 DEF Live, RefundBooking, BookingRow
      <3> QED BY <1>5, <3>1, <3>2, <3>3
    <2> QED BY <1>2, <2>1, <2>2, NothingTaken
  <1>6. ASSUME NEW h \in handlers, Finalize(h) \/ FinalizeThenStop(h)
        PROVE  NoOversell' /\ PaidIffBooked'
    BY <1>6, RecordKeepsSeats DEF Finalize, FinalizeThenStop
  <1>7. CASE JobExpire
    <2>1. job.order \in Orders
      BY <1>2, <1>7 DEF JobExpire, JobState
    <2>2. PaidIffBooked'
      BY <1>2, <1>7, <2>1 DEF PaidIffBooked, JobExpire, ExpiredStatus, OrderRow
    <2>3. /\ event' = event
          /\ \A x \in Orders :
               /\ orders'[x].quantity = orders[x].quantity
               /\ bookings'[x].status = "confirmed" => bookings[x].status = "confirmed"
               /\ Live(x)' => Live(x)
      BY <1>2, <1>7, <2>1 DEF Live, JobExpire, ExpiredStatus, OrderRow
    <2> QED BY <1>2, <2>2, <2>3, NothingTaken
  <1>8. ASSUME \/ Publish \/ Unpublish \/ Archive \/ Restore
               \/ \E schedule \in Schedules : Reschedule(schedule)
        PROVE  NoOversell' /\ PaidIffBooked'
    <2>1. event'.capacity = event.capacity /\ UNCHANGED <<now, orders, bookings>>
      BY <1>2, <1>8 DEF Publish, Unpublish, Archive, Restore, EventTransition, Reschedule,
                        tables, EventRow
    <2>2. NoOversell'
      BY <1>2, <2>1, NothingTaken DEF Live
    <2> QED BY <1>2, <2>1, <2>2 DEF PaidIffBooked
  <1>9. ASSUME NEW priced \in BOOLEAN, NEW capacity \in Capacities \cup {Null},
               UpdatePass(priced, capacity)
        PROVE  NoOversell' /\ PaidIffBooked'
    <2>1. event'.capacity = capacity /\ UNCHANGED <<now, orders, bookings>>
      BY <1>2, <1>9 DEF UpdatePass, tables, EventRow
    <2>2. SeatCounts({})' = SeatCounts({})
      BY <2>1 DEF SeatCounts, Passes, Confirmed, Holding, Live
    <2>3. SeatCounts({}) \in Nat
      <3> DEFINE c == Cardinality(PassesOf(Confirmed, Quantities))
                 h == Cardinality(PassesOf(Holding \ {}, Quantities))
      <3>1. Confirmed \in SUBSET Orders /\ Holding \ {} \in SUBSET Orders
        BY SeatSets
      <3>2. c \in Nat /\ h \in Nat
        BY <3>1, PassesFinite
      <3>3. SeatCounts({}) = c + h
        BY SeatCountsAsPasses
      <3> HIDE DEF c, h
      <3> QED BY <3>2, <3>3
    <2>4. capacity # Null => capacity \in Nat /\ capacity >= SeatCounts({})
      BY <1>9, SalesAssumption DEF UpdatePass, CapacityAllowed
    <2>5. NoOversell'
      BY <2>1, <2>2, <2>3, <2>4 DEF NoOversell
    <2> QED BY <1>2, <2>1, <2>5 DEF PaidIffBooked
  <1>10. CASE Tick
    <2>1. /\ event' = event /\ UNCHANGED <<orders, bookings>>
          /\ \A x \in Orders : Live(x)' => Live(x)
      BY <1>2, <1>10 DEF Tick, tables, Live, OrderRow
    <2>2. NoOversell'
      BY <1>2, <2>1, NothingTaken
    <2> QED BY <1>2, <2>1, <2>2 DEF PaidIffBooked
  <1> QED
    BY <1>3, <1>4, <1>5, <1>6, <1>7, <1>8, <1>9, <1>10
    DEF Next, vars, tables, JoinOrder, Pay, RemoteStep, Webhook, WebhookIgnored, Verify, FinalizeFails, JobStart, JobAsk, JobAskFails, JobFinalize, JobIgnores, Restart

\* The capacity is never exceeded: whatever the number of members, orders and
\* payments, and however the handlers, the job and the admins interleave.
THEOREM SeatsNeverOversold == Spec => []NoOversell
  <1>1. SeatInv => NoOversell
    BY DEF SeatInv
  <1> QED BY InitSeatInv, NextSeatInv, <1>1, PTL DEF Spec

\* An order is paid exactly when it has a booking.
THEOREM OrdersPaidIffBooked == Spec => []PaidIffBooked
  <1>1. SeatInv => PaidIffBooked
    BY DEF SeatInv
  <1> QED BY InitSeatInv, NextSeatInv, <1>1, PTL DEF Spec
=============================================================================
