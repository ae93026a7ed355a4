----------------------------- MODULE SalesLedger -----------------------------
(***************************************************************************)
(* PassSales implements SeatLedger: what an order's row, its booking and   *)
(* the clock say together is the state of one claim on seats.              *)
(***************************************************************************)
EXTENDS PassSales

ClaimState(o) ==
  CASE bookings[o].status = "confirmed" -> "sold"
    [] bookings[o].status = "cancelled" -> "returned"
    [] bookings[o].status = "none" /\ orders[o].status = "none" -> "free"
    [] bookings[o].status = "none" /\ Live(o) -> "held"
    [] OTHER -> "lapsed"

OrderClaims ==
  [o \in Orders |-> [state |-> ClaimState(o), passes |-> orders[o].quantity]]

Ledger ==
  INSTANCE SeatLedger
    WITH Owners <- Users, Slots <- Keys, MaxPasses <- MaxQuantity, Limits <- Capacities,
         Unlimited <- Null, capacity <- event.capacity, claims <- OrderClaims

\* Checkout, webhooks, verification, the expiry job, admin edits, refunds, restarts and
\* the clock together do nothing to the seats that the seat ledger does not allow: no
\* step sells a lapsed claim whose seats are gone, revives a returned one, or ends
\* another member's hold to make room (payments.service.ts and pass-availability.ts).
ImplementsSeatLedger == Ledger!LedgerSpec
=============================================================================
