---------------------------- MODULE MCCheckouts ----------------------------
(* Instance of PassSales for TLC: the checkouts of one member.                *)
EXTENDS PassSales, TLC

OneSchedule == {<<2, 3>>}
Interchangeable == Permutations(PaymentIds)

FirstKey == CHOOSE k \in Keys : TRUE
Paid == {p \in PaymentIds : remote[p].status # "none"}

\* Two payments of one order, right or wrong and settled by overlapping calls.
OneOrder ==
    /\ event.capacity = Null
    /\ \A o \in Orders : attaching[o] + issued[o] <= 1
    /\ \A o \in Orders : orders[o].status # "none" => o[2] = FirstKey

\* Several keys with repeated, failing requests for the last seat.
OnePayment ==
    /\ event.capacity # Null
    /\ Cardinality(handlers) <= 1 /\ Cardinality(Paid) <= 1
    /\ \A p \in Paid : remote[p].exact /\ remote[p].status \in {"created", "captured"}

\* The bound on behaviours: they are about the one or the other.
OneMatter == OneOrder \/ OnePayment
=============================================================================
