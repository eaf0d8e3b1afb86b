-------------------------- MODULE MaterialPipeline --------------------------
(***************************************************************************)
(* What the material flow promises (ARCHITECTURE.md section 7 and the      *)
(* rule that key writes are idempotent): a production order's consumables  *)
(* travel warehouse -> road -> factory -> used, a request moves all its    *)
(* items by one stage in one step, a request key moves something at most   *)
(* once, and an order that has sent something can no longer be closed.     *)
(*                                                                         *)
(* No sessions, locks, reservations or retries: ProductionFlow is shown to *)
(* implement this in ProductionFlowRefinement.                             *)
(***************************************************************************)
EXTENDS Integers

CONSTANTS Orders, Materials, Keys,
          Amounts,     \* quantities a request may move
          Limit        \* most of each consumable an order may ever send

VARIABLES
    applied,           \* <<order, stage, key>> of the requests carried out
    road, plant, used, \* per order and consumable, what is at each stage
    closed             \* cancelled orders

vars == <<applied, road, plant, used, closed>>

Init ==
    /\ applied = {}
    /\ road = [o \in Orders |-> [m \in Materials |-> 0]]
    /\ plant = road
    /\ used = road
    /\ closed = {}

Baskets == UNION {[S -> Amounts] : S \in (SUBSET Materials) \ {{}}}

In(items, m) == IF m \in DOMAIN items THEN items[m] ELSE 0
Plus(stage, o, items) == [stage EXCEPT ![o] = [m \in Materials |-> stage[o][m] + In(items, m)]]
Minus(stage, o, items) == [stage EXCEPT ![o] = [m \in Materials |-> stage[o][m] - In(items, m)]]

Once(o, kind, key) ==
    /\ <<o, kind, key>> \notin applied
    /\ applied' = applied \cup {<<o, kind, key>>}

Send(o, key, items) ==
    /\ Once(o, "dispatch", key)
    /\ o \notin closed
    /\ \A m \in DOMAIN items :
          road[o][m] + plant[o][m] + used[o][m] + items[m] <= Limit[o][m]
    /\ road' = Plus(road, o, items)
    /\ UNCHANGED <<plant, used, closed>>

Receive(o, key, items) ==
    /\ Once(o, "factory_receive", key)
    /\ \A m \in DOMAIN items : items[m] <= road[o][m]
    /\ road' = Minus(road, o, items)
    /\ plant' = Plus(plant, o, items)
    /\ UNCHANGED <<used, closed>>

Use(o, key, items) ==
    /\ Once(o, "consume", key)
    /\ \A m \in DOMAIN items : items[m] <= plant[o][m]
    /\ plant' = Minus(plant, o, items)
    /\ used' = Plus(used, o, items)
    /\ UNCHANGED <<road, closed>>

Close(o) ==
    /\ \A m \in Materials : road[o][m] + plant[o][m] + used[o][m] = 0
    /\ closed' = closed \cup {o}
    /\ UNCHANGED <<applied, road, plant, used>>

Next ==
    \E o \in Orders :
        \/ Close(o)
        \/ \E key \in Keys, items \in Baskets :
              Send(o, key, items) \/ Receive(o, key, items) \/ Use(o, key, items)

Spec == Init /\ [][Next]_vars

=============================================================================
