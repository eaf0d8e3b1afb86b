---------------------------- MODULE MCStocktake ----------------------------
(* Small instances of Stocktake for TLC. *)
EXTENDS Stocktake, TLC

CONSTANTS w1, w2, t1, t2, g1

MCWorkers == {w1, w2}
WorkerSymmetry == Permutations(MCWorkers)

Row(actual, reason) == [actual |-> actual, reason |-> reason]
Count(t, rs) == [task |-> t, rows |-> rs]
Movement(type, m, qty, key) == [type |-> type, mat |-> m, loc |-> "own", qty |-> qty, key |-> key]

OneGood == {g1}
OneGoodOpening == g1 :> 2
OneMovement == {Movement("purchase", 1, 1, "m1")}
OneDocument == {[id |-> 1, sku |-> g1, qty |-> 1]}

(* Two tasks that share a consumable; the codes of the second task's       *)
(* consumables sort against their ids.                                     *)
TwoMaterials == {1, 2}
TwoOpening == 1 :> 2 @@ 2 :> 1
TwoTasks == {t1, t2}
SharedScope == t1 :> {1, g1} @@ t2 :> {1, 2}
AgainstIds == 1 :> 2 @@ 2 :> 1
SharedCounts ==
    {Count(t1, 1 :> Row(1, "loss") @@ g1 :> Row(1, "loss")),
     Count(t1, 1 :> Row(3, "found")),
     Count(t2, 1 :> Row(1, "loss") @@ 2 :> Row(0, "loss"))}

=============================================================================
