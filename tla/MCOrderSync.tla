----------------------------- MODULE MCOrderSync -----------------------------
(* A small instance of OrderSync for TLC. *)
EXTENDS OrderSync, TLC

CONSTANTS w1, w2, o1, o2

TwoWorkers == {w1, w2}
TwoOrders == {o1, o2}
Stamps == o1 :> 0 @@ o2 :> 1

=============================================================================
