-------------------------- MODULE MCProductionFlow --------------------------
(* Small instances of ProductionFlow for TLC. *)
EXTENDS ProductionFlowRefinement, TLC

CONSTANTS w1, w2

MCWorkers == {w1, w2}
WorkerSymmetry == Permutations(MCWorkers)

(* One consumable, two orders that compete for it. *)
Flow(kind, o, key, items) == [kind |-> kind, order |-> o, key |-> key, items |-> items]
Tx(type, m, loc, qty, key) ==
    [kind |-> "transaction", type |-> type, mat |-> m, loc |-> loc, qty |-> qty, key |-> key]

OneMaterial == {1}
OneOpening == 1 :> 3
TwoOrders == {"o1", "o2"}
TwoRequired == [o \in TwoOrders |-> 1 :> 2]
CompeteRequests ==
    {Flow("dispatch", "o1", "k1", 1 :> 1), Flow("dispatch", "o1", "k2", 1 :> 1),
     Flow("dispatch", "o2", "k1", 1 :> 2),
     Flow("factory_receive", "o1", "k1", 1 :> 1), Flow("factory_receive", "o2", "k1", 1 :> 2),
     Flow("consume", "o1", "k1", 1 :> 1)}
CompeteTransactions == {Tx("loss", 1, "own", 1, "t1")}

TwoMaterials == {1, 2}
TwoOpening == 1 :> 2 @@ 2 :> 2
SmallAmounts == 1..2

(* Two orders that both need two consumables, each row by row under locks. *)
BothRequired == [o \in TwoOrders |-> 1 :> 1 @@ 2 :> 1]
BothItems == 1 :> 1 @@ 2 :> 1
BasketRequests ==
    {Flow("dispatch", "o1", "k1", BothItems), Flow("dispatch", "o2", "k1", 2 :> 1),
     Flow("factory_receive", "o1", "k1", BothItems), Flow("consume", "o1", "k1", 2 :> 1)}

=============================================================================
