----------------------- MODULE MCConsumablePurchases -----------------------
(* Small instances of ConsumablePurchases for TLC. *)
EXTENDS ConsumablePurchases, TLC

CONSTANTS w1, w2, pa, pb, l1, l2

MCWorkers == {w1, w2}
WorkerSymmetry == Permutations(MCWorkers)

Delivery(s, rows, qty) == [of |-> s, rows |-> rows, qty |-> qty]
Edit(s, qty) == [of |-> s, qty |-> qty]
Use(l, qty) == [link |-> l, qty |-> qty]

TwoMaterials == {1, 2}
TwoOpening == 1 :> 1 @@ 2 :> 1
BothPlaces == {"own", "factory"}

(* Two purchases that compete for one 1688 order.  The first is delivered  *)
(* with its lines against their ids.                                       *)
TwoPurchases == {pa, pb}
TwoKeys == pa :> "ka" @@ pb :> "kb"
OneSource == pa :> "s" @@ pb :> "s"
TwoOrders == pa :> (1 :> 2 @@ 2 :> 1) @@ pb :> (1 :> 1)
PartDelivery == {Delivery(pa, <<2, 1>>, 1 :> 1 @@ 2 :> 1)}
Shrink == {Edit(pa, 1 :> 1 @@ 2 :> 1)}

(* An inbound document with two links that use the same consumable.        *)
TwoLinks == {l1, l2}
OneInbound == {<<l1, l2>>}
EachUsesOne == {Use(l1, 1 :> 1), Use(l2, 1 :> 1)}
SharedUsages == {Use(l1, 1 :> 1 @@ 2 :> 1), Use(l2, 1 :> 1)}

=============================================================================
