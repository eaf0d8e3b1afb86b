---------------------- MODULE ProductionFlowRefinement ----------------------
(***************************************************************************)
(* ProductionFlow implements MaterialPipeline: forgetting sessions, locks, *)
(* reservations and the shared stock, every step of the code is one atomic *)
(* stage move of a key not used before, the closing of an order that sent  *)
(* nothing, or no step at all.                                             *)
(***************************************************************************)
EXTENDS ProductionFlow

CONSTANT Amounts      \* quantities the flow requests use

ASSUME AmountsAssumption ==
    /\ Amounts \subseteq Quantity
    /\ \A r \in FlowRequests : \A m \in DOMAIN r.items : r.items[m] \in Amounts

KeysUsed == {r.key : r \in FlowRequests}

AppliedKeys == {<<v.order, v.kind, v.key>> : v \in moves}

OnRoad(o, m) == IF m \in DOMAIN rows[o] THEN rows[o][m].dispatched - rows[o][m].received ELSE 0
AtPlant(o, m) == IF m \in DOMAIN rows[o] THEN rows[o][m].received - rows[o][m].consumed ELSE 0
UsedUp(o, m) == IF m \in DOMAIN rows[o] THEN rows[o][m].consumed ELSE 0

LimitOf(o, m) == IF m \in MaterialsOf(o) THEN Required[o][m] ELSE 0

Pipeline == INSTANCE MaterialPipeline WITH
    Keys <- KeysUsed,
    Limit <- [o \in Orders |-> [m \in Materials |-> LimitOf(o, m)]],
    applied <- AppliedKeys,
    road <- [o \in Orders |-> [m \in Materials |-> OnRoad(o, m)]],
    plant <- [o \in Orders |-> [m \in Materials |-> AtPlant(o, m)]],
    used <- [o \in Orders |-> [m \in Materials |-> UsedUp(o, m)]],
    closed <- {o \in Orders : status[o] = "cancelled"}

(* Each request moves its items once and whole, stage by stage.            *)
MovesOnce == Pipeline!Spec

=============================================================================
