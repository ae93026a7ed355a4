------------------------------ MODULE MCRefunds ------------------------------
(* Instance of Refunds for TLC: a booked payment beside one that has no       *)
(* booking, a second payment of the order or one of another amount.           *)
EXTENDS Refunds, TLC

\* The bound on behaviours: those kinds do not both occur in one.
OneBeside ==
    \E S \in {Extra, Mismatched} : \A p \in S : payments[p].status = "authorized"

\* Slots are interchangeable, and so are Razorpay's refunds.
Interchangeable == Permutations(Slots) \cup Permutations(RefundIds)
=============================================================================
