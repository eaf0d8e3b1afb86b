-------------------------- MODULE MCPaymentMatching --------------------------
(* Small instances of PaymentMatching for TLC. *)
EXTENDS PaymentMatching, TLC

CONSTANTS w1, w2, i1, i2, p1, p2, p3

MCWorkers == {w1, w2}
WorkerSymmetry == Permutations(MCWorkers)

(* Two invoices and a payment of the same amount, from an account that is  *)
(* known; two payments of half of it in the next month.  The first invoice *)
(* is far from the first payment.                                          *)
TwoInvoices == {i1, i2}
ThreePayments == {p1, p2, p3}
Worth == i1 :> 2 @@ i2 :> 2 @@ p1 :> 2 @@ p2 :> 1 @@ p3 :> 1
InTurn == p1 :> 1 @@ p2 :> 2 @@ p3 :> 3
TwoMonths == {1, 2}
MonthOf == p1 :> 1 @@ p2 :> 2 @@ p3 :> 2
BothMonths == [m \in 1..2 |-> TwoInvoices]
OneName == [n \in TwoInvoices \cup ThreePayments |-> "a"]
NoPairs == {}
AccountOfFirst == {p1} \X TwoInvoices
Distance == [n \in ThreePayments \X TwoInvoices |-> IF n = <<p1, i1>> THEN 40 ELSE 5]
Ask(i, p, a) == [of |-> i, to |-> p, amount |-> a]
SomeRequests == {Ask(i2, p1, 1), Ask(i2, p2, Rest), Ask(i2, p3, Rest), Ask(i1, p3, Rest)}
SomeSchedules == {<<1>>, <<1, 2>>}

=============================================================================
