----------------------------- MODULE MCPassSales -----------------------------
(* Instances of PassSales for TLC. *)
EXTENDS SalesLedger, TLC

OneSchedule == {<<2, 3>>}

\* Members, and payments, are interchangeable.
Interchangeable == Permutations(Users) \cup Permutations(PaymentIds)
=============================================================================
