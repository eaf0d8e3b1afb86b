------------------------ MODULE ProductionFlowProofs ------------------------
(***************************************************************************)
(* Theorems about ProductionFlow, for every set of sessions, orders,       *)
(* consumables, requests and transactions.                                 *)
(*                                                                         *)
(* The argument has three layers, each an inductive invariant that uses    *)
(* the ones before it: the row locks keep every session's copy of the      *)
(* counters fresh (LocksInv); the order locks keep every session's copy of *)
(* the reservation rows fresh (OrdersInv); so the checks a session makes   *)
(* on its copies hold of the rows it writes (FlowInv).                     *)
(* What relates several orders and sessions rests on them: the goods the   *)
(* orders have on the road are covered by the shared transit counter, a    *)
(* cancelled order has sent nothing, the ledger explains the counters and  *)
(* the movements explain the rows (BooksInv, MovesInv), nothing is booked  *)
(* beyond the stock (OthersCover), and a request moves its goods once      *)
(* (RequestsInv and the refinement).                                       *)
(***************************************************************************)
EXTENDS ProductionFlowRefinement, SharedLemmas

-----------------------------------------------------------------------------
(* Layer 1: row locks *)

(* No consumable is locked by two sessions.                                *)
ExclusiveRows ==
    \A v, w \in Workers : \A m \in Materials :
        m \in DOMAIN view[v] /\ m \in DOMAIN view[w] => v = w

LocksInv ==
    /\ view = [w \in Workers |-> view[w]]
    /\ bal = [m \in Materials |-> bal[m]]
    /\ \A w \in Workers : DOMAIN view[w] \subseteq Materials
    /\ ExclusiveRows
    /\ NoStaleView

LEMMA LockRowKeeps ==
    ASSUME LocksInv, NEW w \in Workers, NEW m \in Materials,
           LockRow(w, m), bal' = bal
    PROVE  LocksInv'
<1>1. FreshCopies(Workers, Materials, bal, view)
  BY DEF LocksInv, ExclusiveRows, NoStaleView, FreshCopies
<1>2. FreshCopies(Workers, Materials, bal, view')
  BY <1>1, TakingKeepsFresh DEF LockRow, Unlocked
<1> QED
  BY <1>2 DEF LocksInv, ExclusiveRows, NoStaleView, FreshCopies

LEMMA ReleaseKeeps ==
    ASSUME LocksInv, NEW w \in Workers, ReleaseRows(w),
           bal' = [m \in Materials |-> bal'[m]],
           \A m \in Materials : m \notin DOMAIN view[w] => bal'[m] = bal[m]
    PROVE  LocksInv'
<1>1. FreshCopies(Workers, Materials, bal, view)
  BY DEF LocksInv, ExclusiveRows, NoStaleView, FreshCopies
<1>2. DOMAIN NothingHeld = {}
  BY DEF NothingHeld
<1>3. /\ view' = [x \in Workers |-> view'[x]]
      /\ DOMAIN view'[w] = {}
      /\ \A x \in Workers \ {w} : view'[x] = view[x]
  BY <1>2 DEF ReleaseRows, LocksInv
<1>4. FreshCopies(Workers, Materials, bal', view')
  BY <1>1, <1>3, LeavingKeepsFresh
<1> QED
  BY <1>4 DEF LocksInv, ExclusiveRows, NoStaleView, FreshCopies

LEMMA FlowWanted ==
    ASSUME NEW c, IsFlow(c)
    PROVE  Wanted(c) = DOMAIN c.items
  BY DEF IsFlow, IsReserve, FlowTypes, Wanted

LEMMA LocksStep == LocksInv /\ [Next]_vars => LocksInv'
<1> SUFFICES ASSUME LocksInv, [Next]_vars PROVE LocksInv'
  OBVIOUS
<1>1. CASE UNCHANGED <<bal, view>>
  BY <1>1 DEF LocksInv, ExclusiveRows, NoStaleView
<1>2. ASSUME NEW w \in Workers, Start(w) PROVE LocksInv'
  <2>1. UNCHANGED <<bal, view>>
    BY <1>2 DEF Start, StartFlow, StartCreate, StartOrderCall, StartTransaction, ledgerVars
  <2> QED
    BY <1>1, <2>1
<1>3. ASSUME NEW w \in Workers, Crash(w) PROVE LocksInv'
  BY <1>3, ReleaseKeeps DEF Crash, Finish, LocksInv
<1>4. ASSUME NEW w \in Workers, Step(w) PROVE LocksInv'
  <2>1. CASE LockOrder(w) \/ ReadOthers(w)
    <3>1. UNCHANGED <<bal, view>>
      BY <2>1 DEF LockOrder, ReadOthers, ledgerVars
    <3> QED
      BY <1>1, <3>1
  <2>2. CASE \E m \in Materials : LockMaterial(w, m)
    BY <2>2, LockRowKeeps DEF LockMaterial
  <2>3. CASE RefuseOrder(w) \/ RefuseFlow(w) \/ CommitReserve(w) \/ CommitCancel(w)
             \/ AnswerTransaction(w)
    <3>1. ReleaseRows(w) /\ bal' = bal
      BY <2>3 DEF RefuseOrder, RefuseFlow, CommitReserve, CommitCancel, AnswerTransaction, Finish
    <3> QED
      BY <3>1, ReleaseKeeps DEF LocksInv
  <2>4. CASE CommitFlow(w)
    <3>1. ReleaseRows(w)
      BY <2>4 DEF CommitFlow, Finish
    <3>2. DOMAIN call[w].items \subseteq DOMAIN view[w]
      <4>1. IsFlow(call[w]) /\ ToLock(w) = {}
        BY <2>4 DEF CommitFlow
      <4>2. Wanted(call[w]) = DOMAIN call[w].items
        BY <4>1, FlowWanted
      <4> QED
        BY <4>1, <4>2 DEF ToLock
    <3>3. bal' = [m \in Materials |->
            IF m \in DOMAIN call[w].items
            THEN Posted(bal[m], view[w][m], TxType(call[w].kind), "factory", call[w].items[m])
            ELSE bal[m]]
      BY <2>4 DEF CommitFlow
    <3>4. \A m \in Materials : m \notin DOMAIN view[w] => bal'[m] = bal[m]
      BY <3>2, <3>3
    <3>5. bal' = [m \in Materials |-> bal'[m]]
      BY <3>3
    <3> QED
      BY <3>1, <3>4, <3>5, ReleaseKeeps
  <2>5. CASE CommitTransaction(w)
    <3>1. ReleaseRows(w)
      BY <2>5 DEF CommitTransaction, Finish
    <3>2. call[w].mat \in DOMAIN view[w]
      BY <2>5 DEF CommitTransaction, ToLock, Wanted, IsFlow, IsReserve, FlowTypes
    <3>3. \A m \in Materials : m # call[w].mat => bal'[m] = bal[m]
      BY <2>5 DEF CommitTransaction, LocksInv
    <3>4. bal' = [m \in Materials |-> bal'[m]]
      BY <2>5 DEF CommitTransaction, LocksInv
    <3> QED
      BY <3>1, <3>2, <3>3, <3>4, ReleaseKeeps
  <2> QED
    BY <1>4, <2>1, <2>2, <2>3, <2>4, <2>5 DEF Step
<1> QED
  BY <1>1, <1>2, <1>3, <1>4 DEF Next, vars

LEMMA LocksInit == Init => LocksInv
  BY DEF Init, LedgerInit, LocksInv, ExclusiveRows, NoStaleView, NothingHeld

(* No session ever works from counters somebody changed since it read      *)
(* them: FOR UPDATE plus populate_existing in record_transaction and the   *)
(* material flow rules out lost updates of the stock.                      *)
THEOREM NoLostUpdate == Spec => []NoStaleView
<1>1. LocksInv => NoStaleView
  BY DEF LocksInv
<1> QED
  BY LocksInit, LocksStep, <1>1, PTL DEF Spec

-----------------------------------------------------------------------------
(* Layer 2: order locks *)

OrderKinds == FlowTypes \cup {"recalculate", "cancel"}
Labels == {"idle", "order", "materials", "commit"}

(* What a session serves fits the step it is at.                           *)
CallOK(w) ==
    LET c == call[w] IN
    /\ pc[w] \in Labels
    /\ pc[w] = "idle" <=> c = NoCall
    /\ c.kind \in OrderKinds \cup {"create", "transaction", "none"}
    /\ c.kind = "none" => c = NoCall
    /\ c.kind = "transaction" => c \in Transactions
    /\ c.kind \in OrderKinds \cup {"create"} => c.order \in Orders
    /\ IsFlow(c) => /\ DOMAIN c.items \subseteq MaterialsOf(c.order)
                    /\ \A m \in DOMAIN c.items : c.items[m] \in Quantity
    /\ c.kind \in OrderKinds => status[c.order] # "absent"
    /\ c.kind = "create" => status[c.order] = "absent"
    /\ pc[w] = "order" => c.kind \in OrderKinds
    /\ pc[w] = "commit" => IsReserve(c)

(* One session holds an order, and one session at most creates it.         *)
ExclusiveOrders ==
    \A v, w \in Workers : \A o \in Orders :
        /\ HoldsOrder(v, o) /\ HoldsOrder(w, o) => v = w
        /\ call[v].kind = "create" /\ call[v].order = o
           /\ call[w].kind = "create" /\ call[w].order = o => v = w

(* The session that holds an order works from the order as it is.          *)
SnapFresh ==
    \A w \in Workers : \A o \in Orders :
        HoldsOrder(w, o) => snap[w] = OrderRow(o) /\ Permitted(call[w], snap[w])

OrdersInv ==
    /\ call = [w \in Workers |-> call[w]]
    /\ pc = [w \in Workers |-> pc[w]]
    /\ snap = [w \in Workers |-> snap[w]]
    /\ status \in [Orders -> Statuses]
    /\ gen \in [Orders -> Nat]
    /\ rows = [o \in Orders |-> rows[o]]
    /\ \A w \in Workers : CallOK(w)
    /\ ExclusiveOrders
    /\ SnapFresh

(* A session that ends may have written one order it alone was concerned   *)
(* with; everybody else's copy stays fresh.                                *)
LEMMA FinishKeepsOrders ==
    ASSUME OrdersInv, NEW w \in Workers, Finish(w), NEW o \in Orders,
           status' \in [Orders -> Statuses], gen' \in [Orders -> Nat],
           rows' = [x \in Orders |-> rows'[x]],
           \A x \in Orders \ {o} :
               status'[x] = status[x] /\ gen'[x] = gen[x] /\ rows'[x] = rows[x],
           \/ status'[o] = status[o] /\ gen'[o] = gen[o] /\ rows'[o] = rows[o]
           \/ status[o] # "absent" /\ status'[o] # "absent" /\ HoldsOrder(w, o)
           \/ /\ status[o] = "absent" /\ status'[o] # "absent"
              /\ call[w].kind = "create" /\ call[w].order = o
    PROVE  OrdersInv'
<1>1. /\ call' = [x \in Workers |-> IF x = w THEN NoCall ELSE call[x]]
      /\ pc' = [x \in Workers |-> IF x = w THEN "idle" ELSE pc[x]]
      /\ snap' = [x \in Workers |-> IF x = w THEN NoSnap ELSE snap[x]]
  BY DEF Finish, OrdersInv
<1>2. \A x \in Workers : \A p \in Orders :
        HoldsOrder(x, p)' <=> x # w /\ HoldsOrder(x, p)
  BY <1>1 DEF HoldsOrder
<1>3. \A x \in Workers \ {w} : HoldsOrder(x, o) => OrderRow(o)' = OrderRow(o)
  <2> SUFFICES ASSUME NEW x \in Workers \ {w}, HoldsOrder(x, o)
               PROVE  OrderRow(o)' = OrderRow(o)
    OBVIOUS
  <2>1. ~HoldsOrder(w, o)
    BY DEF OrdersInv, ExclusiveOrders
  <2>2. status[o] # "absent"
    BY DEF OrdersInv, CallOK, HoldsOrder, OrderKinds
  <2> QED
    BY <2>1, <2>2 DEF OrderRow
<1>4. ASSUME NEW x \in Workers PROVE CallOK(x)'
  <2>1. CASE x = w
    BY <2>1, <1>1 DEF CallOK, NoCall, IsFlow, FlowTypes, IsReserve, OrderKinds, Labels
  <2>2. CASE x # w
    <3>1. call'[x] = call[x] /\ pc'[x] = pc[x] /\ CallOK(x)
      BY <2>2, <1>1 DEF OrdersInv
    <3>2. call[x].kind \in OrderKinds => status'[call[x].order] # "absent"
      BY <3>1 DEF CallOK
    <3>3. call[x].kind = "create" => status'[call[x].order] = "absent"
      <4> SUFFICES ASSUME call[x].kind = "create" PROVE status'[call[x].order] = "absent"
        OBVIOUS
      <4>1. call[x].order \in Orders /\ status[call[x].order] = "absent"
        BY <3>1 DEF CallOK
      <4>2. CASE call[x].order = o
        BY <4>1, <4>2, <2>2 DEF OrdersInv, ExclusiveOrders
      <4>3. CASE call[x].order # o
        BY <4>1, <4>3
      <4> QED
        BY <4>2, <4>3
    <3> QED
      BY <3>1, <3>2, <3>3 DEF CallOK
  <2> QED
    BY <2>1, <2>2
<1>5. ExclusiveOrders'
  <2>1. \A x \in Workers : call'[x].kind = "create" => x # w /\ call'[x] = call[x]
    BY <1>1 DEF NoCall
  <2> QED
    BY <1>2, <2>1 DEF OrdersInv, ExclusiveOrders
<1>6. SnapFresh'
  <2> SUFFICES ASSUME NEW x \in Workers, NEW p \in Orders, HoldsOrder(x, p)'
               PROVE  snap'[x] = OrderRow(p)' /\ Permitted(call'[x], snap'[x])
    BY DEF SnapFresh
  <2>1. x # w /\ HoldsOrder(x, p)
    BY <1>2
  <2>2. call'[x] = call[x] /\ snap'[x] = snap[x]
    BY <2>1, <1>1
  <2>3. snap[x] = OrderRow(p) /\ Permitted(call[x], snap[x])
    BY <2>1 DEF OrdersInv, SnapFresh
  <2>4. OrderRow(p)' = OrderRow(p)
    <3>1. CASE p = o
      BY <3>1, <2>1, <1>3
    <3>2. CASE p # o
      BY <3>2 DEF OrderRow
    <3> QED
      BY <3>1, <3>2
  <2> QED
    BY <2>2, <2>3, <2>4
<1> QED
  BY <1>1, <1>4, <1>5, <1>6 DEF OrdersInv

(* A session that only moves on, without a lock gained on an order, keeps  *)
(* the invariant as long as what it serves fits its step.                  *)
LEMMA StartKeepsOrders ==
    ASSUME OrdersInv, NEW w \in Workers, pc[w] = "idle", NEW c, NEW l,
           call' = [call EXCEPT ![w] = c], pc' = [pc EXCEPT ![w] = l],
           UNCHANGED <<status, rows, gen, snap>>,
           CallOK(w)',
           c.kind \in OrderKinds => l = "order",
           c.kind = "create" =>
               \A x \in Workers : call[x].kind = "create" => call[x].order # c.order
    PROVE  OrdersInv'
<1>1. \A x \in Workers :
        call'[x] = (IF x = w THEN c ELSE call[x]) /\ pc'[x] = (IF x = w THEN l ELSE pc[x])
  BY DEF OrdersInv
<1>2. call' = [x \in Workers |-> call'[x]] /\ pc' = [x \in Workers |-> pc'[x]]
  BY DEF OrdersInv
<1>3. \A x \in Workers : \A p \in Orders : HoldsOrder(x, p)' => x # w /\ HoldsOrder(x, p)
  BY <1>1 DEF HoldsOrder, OrderKinds
<1>4. \A x \in Workers : CallOK(x)'
  BY ZenonT(30), <1>1 DEF OrdersInv, CallOK
<1>5. ExclusiveOrders'
  BY <1>1, <1>3 DEF OrdersInv, ExclusiveOrders
<1>6. SnapFresh'
  BY <1>1, <1>3 DEF OrdersInv, SnapFresh, OrderRow
<1> QED
  BY <1>2, <1>4, <1>5, <1>6 DEF OrdersInv

LEMMA StartsKeepOrders ==
    ASSUME OrdersInv, NEW w \in Workers, Start(w)
    PROVE  OrdersInv'
<1> USE FlowAssumption
<1> USE DEF IsFlow, IsReserve, FlowTypes, OrderKinds, Labels, NoCall
<1>0. w \in DOMAIN call /\ w \in DOMAIN pc
  BY DEF OrdersInv
<1>1. ASSUME NEW r \in FlowRequests, NEW g \in 1..gen[r.order], StartFlow(w, r, g)
      PROVE  OrdersInv'
  <2> DEFINE c == [kind |-> r.kind, order |-> r.order, key |-> r.key,
                   items |-> r.items, gen |-> g]
  <2>1. /\ pc[w] = "idle" /\ status[r.order] # "absent"
        /\ call' = [call EXCEPT ![w] = c] /\ pc' = [pc EXCEPT ![w] = "order"]
        /\ UNCHANGED <<status, rows, gen, snap>>
    BY <1>1 DEF StartFlow, Goto
  <2>2. call'[w] = c /\ pc'[w] = "order" /\ status' = status
    BY <2>1, <1>0
  <2>3. /\ c.kind \in FlowTypes /\ c.order \in Orders
        /\ DOMAIN c.items \subseteq MaterialsOf(c.order)
        /\ \A m \in DOMAIN c.items : c.items[m] \in Quantity
        /\ c.order = r.order
    OBVIOUS
  <2> HIDE DEF c
  <2>4. CallOK(w)'
    BY <2>1, <2>2, <2>3 DEF CallOK
  <2> QED
    BY <2>1, <2>3, <2>4, StartKeepsOrders
<1>2. ASSUME NEW o \in Orders, StartCreate(w, o) PROVE OrdersInv'
  <2> DEFINE c == [kind |-> "create", order |-> o]
  <2>1. /\ pc[w] = "idle" /\ status[o] = "absent"
        /\ call' = [call EXCEPT ![w] = c] /\ pc' = [pc EXCEPT ![w] = "materials"]
        /\ UNCHANGED <<status, rows, gen, snap>>
        /\ \A x \in Workers : call[x].kind = "create" => call[x].order # o
    BY <1>2 DEF StartCreate, Goto
  <2>2. call'[w] = c /\ pc'[w] = "materials" /\ status' = status
    BY <2>1, <1>0
  <2>3. c.kind = "create" /\ c.order = o
    OBVIOUS
  <2> HIDE DEF c
  <2>4. CallOK(w)'
    BY <2>1, <2>2, <2>3 DEF CallOK
  <2> QED
    BY <2>1, <2>3, <2>4, StartKeepsOrders
<1>3. ASSUME NEW o \in Orders, NEW k \in {"recalculate", "cancel"}, StartOrderCall(w, k, o)
      PROVE  OrdersInv'
  <2> DEFINE c == [kind |-> k, order |-> o]
  <2>1. /\ pc[w] = "idle" /\ status[o] # "absent"
        /\ call' = [call EXCEPT ![w] = c] /\ pc' = [pc EXCEPT ![w] = "order"]
        /\ UNCHANGED <<status, rows, gen, snap>>
    BY <1>3 DEF StartOrderCall, Goto
  <2>2. call'[w] = c /\ pc'[w] = "order" /\ status' = status
    BY <2>1, <1>0
  <2>3. c.kind = k /\ c.order = o
    OBVIOUS
  <2> HIDE DEF c
  <2>4. CallOK(w)'
    BY <2>1, <2>2, <2>3 DEF CallOK
  <2> QED
    BY <2>1, <2>3, <2>4, StartKeepsOrders
<1>4. ASSUME NEW t \in Transactions, StartTransaction(w, t) PROVE OrdersInv'
  <2>1. /\ pc[w] = "idle"
        /\ call' = [call EXCEPT ![w] = t] /\ pc' = [pc EXCEPT ![w] = "materials"]
        /\ UNCHANGED <<status, rows, gen, snap>>
    BY <1>4 DEF StartTransaction, Goto
  <2>2. call'[w] = t /\ pc'[w] = "materials" /\ status' = status /\ t.kind = "transaction"
    BY <2>1, <1>0
  <2>3. CallOK(w)'
    BY <2>1, <2>2 DEF CallOK
  <2> QED
    BY <2>1, <2>2, <2>3, StartKeepsOrders
<1> QED
  BY <1>1, <1>2, <1>3, <1>4 DEF Start

LEMMA LockOrderKeepsOrders ==
    ASSUME OrdersInv, NEW w \in Workers, LockOrder(w)
    PROVE  OrdersInv'
<1> DEFINE o == call[w].order
<1>1. /\ pc[w] = "order" /\ OrderUnlocked(o) /\ Permitted(call[w], OrderRow(o))
      /\ snap' = [snap EXCEPT ![w] = OrderRow(o)]
      /\ pc' = [pc EXCEPT ![w] = "materials"]
      /\ UNCHANGED <<status, rows, gen, call>>
  BY DEF LockOrder, Goto
<1>2. \A x \in Workers :
        /\ pc'[x] = (IF x = w THEN "materials" ELSE pc[x])
        /\ snap'[x] = (IF x = w THEN OrderRow(o) ELSE snap[x])
  BY <1>1 DEF OrdersInv
<1>3. call[w].kind \in OrderKinds /\ o \in Orders
  BY <1>1 DEF OrdersInv, CallOK
<1>4. \A x \in Workers : \A p \in Orders :
        HoldsOrder(x, p)' <=> (x = w /\ p = o) \/ (x # w /\ HoldsOrder(x, p))
  BY <1>1, <1>2, <1>3 DEF HoldsOrder, OrderKinds
<1>5. \A x \in Workers : ~HoldsOrder(x, o)
  BY <1>1 DEF OrderUnlocked
<1>6. pc' = [x \in Workers |-> pc'[x]] /\ snap' = [x \in Workers |-> snap'[x]]
  BY <1>1 DEF OrdersInv
<1>7. \A x \in Workers : CallOK(x)'
  <2> SUFFICES ASSUME NEW x \in Workers PROVE CallOK(x)'
    OBVIOUS
  <2>1. CallOK(x) /\ call' = call /\ status' = status
    BY <1>1 DEF OrdersInv
  <2>2. CASE x = w
    BY <2>1, <2>2, <1>1, <1>2, <1>3 DEF CallOK, Labels, OrderKinds, IsFlow, FlowTypes, NoCall
  <2>3. CASE x # w
    BY <2>1, <2>3, <1>2 DEF CallOK
  <2> QED
    BY <2>2, <2>3
<1>8. ExclusiveOrders'
  BY <1>1, <1>4, <1>5 DEF OrdersInv, ExclusiveOrders
<1>9. SnapFresh'
  <2> SUFFICES ASSUME NEW x \in Workers, NEW p \in Orders, HoldsOrder(x, p)'
               PROVE  snap'[x] = OrderRow(p)' /\ Permitted(call'[x], snap'[x])
    BY DEF SnapFresh
  <2>1. OrderRow(p)' = OrderRow(p) /\ call' = call
    BY <1>1 DEF OrderRow
  <2>2. CASE x = w /\ p = o
    BY <2>1, <2>2, <1>1, <1>2
  <2>3. CASE x # w /\ HoldsOrder(x, p)
    BY <2>1, <2>3, <1>2 DEF OrdersInv, SnapFresh
  <2> QED
    BY <1>4, <2>2, <2>3
<1> QED
  BY <1>1, <1>6, <1>7, <1>8, <1>9 DEF OrdersInv

LEMMA ReadOthersKeepsOrders ==
    ASSUME OrdersInv, NEW w \in Workers, ReadOthers(w)
    PROVE  OrdersInv'
<1>1. /\ pc[w] = "materials" /\ IsReserve(call[w])
      /\ pc' = [pc EXCEPT ![w] = "commit"]
      /\ UNCHANGED <<status, rows, gen, call, snap>>
  BY DEF ReadOthers, Goto
<1>2. \A x \in Workers : pc'[x] = (IF x = w THEN "commit" ELSE pc[x])
  BY <1>1 DEF OrdersInv
<1>3. \A x \in Workers : \A p \in Orders : HoldsOrder(x, p)' <=> HoldsOrder(x, p)
  BY <1>1, <1>2 DEF HoldsOrder
<1>4. \A x \in Workers : CallOK(x)'
  BY <1>1, <1>2 DEF OrdersInv, CallOK, Labels, IsReserve, NoCall
<1>5. ExclusiveOrders' /\ SnapFresh'
  BY <1>1, <1>3 DEF OrdersInv, ExclusiveOrders, SnapFresh, OrderRow
<1> QED
  BY <1>1, <1>4, <1>5 DEF OrdersInv

LEMMA CommitsKeepOrders ==
    ASSUME OrdersInv, NEW w \in Workers,
           CommitFlow(w) \/ CommitReserve(w) \/ CommitCancel(w)
    PROVE  OrdersInv'
<1> DEFINE o == call[w].order
<1>0. CallOK(w) /\ Finish(w)
  BY DEF OrdersInv, CommitFlow, CommitReserve, CommitCancel
<1>1. CASE CommitFlow(w)
  <2>1. /\ IsFlow(call[w]) /\ pc[w] = "materials" /\ gen' = gen
        /\ status' = IF snap[w].status = "planned" /\ call[w].kind # "consume"
                     THEN [status EXCEPT ![o] = "confirmed"] ELSE status
    BY <1>1 DEF CommitFlow
  <2>2. rows' = [x \in Orders |-> rows'[x]] /\ \A x \in Orders \ {o} : rows'[x] = rows[x]
    BY <1>1 DEF CommitFlow, OrdersInv
  <2>3. o \in Orders /\ HoldsOrder(w, o) /\ status[o] # "absent"
    BY <1>0, <2>1 DEF CallOK, IsFlow, OrderKinds, HoldsOrder
  <2>4. /\ status' \in [Orders -> Statuses] /\ status'[o] # "absent"
        /\ \A x \in Orders \ {o} : status'[x] = status[x]
    BY <2>1, <2>3 DEF OrdersInv, Statuses
  <2> QED
    BY <1>0, <2>1, <2>2, <2>3, <2>4, FinishKeepsOrders DEF OrdersInv
<1>2. CASE CommitReserve(w)
  <2>1. /\ pc[w] = "commit"
        /\ gen' = [gen EXCEPT ![o] = @ + 1]
        /\ status' = IF call[w].kind = "create" THEN [status EXCEPT ![o] = "planned"] ELSE status
    BY <1>2 DEF CommitReserve
  <2>2. rows' = [x \in Orders |-> rows'[x]] /\ \A x \in Orders \ {o} : rows'[x] = rows[x]
    BY <1>2 DEF CommitReserve, OrdersInv
  <2>3. o \in Orders /\ IsReserve(call[w])
    BY <1>0, <2>1 DEF CallOK, IsReserve, OrderKinds
  <2>4. gen' \in [Orders -> Nat] /\ \A x \in Orders \ {o} : gen'[x] = gen[x]
    BY <2>1, <2>3 DEF OrdersInv
  <2>5. status' \in [Orders -> Statuses] /\ \A x \in Orders \ {o} : status'[x] = status[x]
    BY <2>1 DEF OrdersInv, Statuses
  <2>6. CASE call[w].kind = "create"
    <3>1. status[o] = "absent" /\ status'[o] # "absent"
      BY <1>0, <2>1, <2>3, <2>6 DEF CallOK, OrdersInv
    <3> QED
      BY <1>0, <2>2, <2>3, <2>4, <2>5, <2>6, <3>1, FinishKeepsOrders
  <2>7. CASE call[w].kind = "recalculate"
    <3>1. HoldsOrder(w, o) /\ status[o] # "absent" /\ status'[o] # "absent"
      BY <1>0, <2>1, <2>3, <2>7 DEF CallOK, HoldsOrder, OrderKinds
    <3> QED
      BY <1>0, <2>2, <2>3, <2>4, <2>5, <3>1, FinishKeepsOrders
  <2> QED
    BY <2>3, <2>6, <2>7 DEF IsReserve
<1>3. CASE CommitCancel(w)
  <2>1. /\ pc[w] = "materials" /\ call[w].kind = "cancel"
        /\ status' = [status EXCEPT ![o] = "cancelled"]
        /\ UNCHANGED <<rows, gen>>
    BY <1>3 DEF CommitCancel
  <2>2. o \in Orders /\ HoldsOrder(w, o) /\ status[o] # "absent"
    BY <1>0, <2>1 DEF CallOK, OrderKinds, HoldsOrder
  <2>3. /\ status' \in [Orders -> Statuses] /\ status'[o] # "absent"
        /\ \A x \in Orders \ {o} : status'[x] = status[x]
    BY <2>1, <2>2 DEF OrdersInv, Statuses
  <2> QED
    BY <1>0, <2>1, <2>2, <2>3, FinishKeepsOrders DEF OrdersInv
<1> QED
  BY <1>1, <1>2, <1>3

LEMMA QuietFinishKeepsOrders ==
    ASSUME OrdersInv, NEW w \in Workers, Finish(w), UNCHANGED <<status, rows, gen>>
    PROVE  OrdersInv'
<1>1. CASE Orders = {}
  <2>1. /\ call' = [x \in Workers |-> IF x = w THEN NoCall ELSE call[x]]
        /\ pc' = [x \in Workers |-> IF x = w THEN "idle" ELSE pc[x]]
        /\ snap' = [x \in Workers |-> IF x = w THEN NoSnap ELSE snap[x]]
    BY DEF Finish, OrdersInv
  <2>2. \A x \in Workers : CallOK(x)'
    BY <2>1 DEF OrdersInv, CallOK, NoCall, IsFlow, FlowTypes, IsReserve, OrderKinds, Labels
  <2> QED
    BY <1>1, <2>1, <2>2 DEF OrdersInv, ExclusiveOrders, SnapFresh
<1>2. CASE Orders # {}
  BY <1>2, FinishKeepsOrders DEF OrdersInv
<1> QED
  BY <1>1, <1>2

LEMMA OrdersStep == OrdersInv /\ [Next]_vars => OrdersInv'
<1> SUFFICES ASSUME OrdersInv, [Next]_vars PROVE OrdersInv'
  OBVIOUS
<1>1. CASE UNCHANGED vars
  BY <1>1 DEF vars, OrdersInv, CallOK, ExclusiveOrders, SnapFresh, HoldsOrder, OrderRow
<1>2. ASSUME NEW w \in Workers, Start(w) PROVE OrdersInv'
  BY <1>2, StartsKeepOrders
<1>3. ASSUME NEW w \in Workers, Crash(w) PROVE OrdersInv'
  BY <1>3, QuietFinishKeepsOrders DEF Crash
<1>4. ASSUME NEW w \in Workers, Step(w) PROVE OrdersInv'
  <2>1. CASE LockOrder(w)
    BY <2>1, LockOrderKeepsOrders
  <2>2. CASE ReadOthers(w)
    BY <2>2, ReadOthersKeepsOrders
  <2>3. CASE \E m \in Materials : LockMaterial(w, m)
    BY <2>3 DEF LockMaterial, flowVars, OrdersInv, CallOK, ExclusiveOrders, SnapFresh,
                HoldsOrder, OrderRow
  <2>4. CASE CommitFlow(w) \/ CommitReserve(w) \/ CommitCancel(w)
    BY <2>4, CommitsKeepOrders
  <2>5. CASE RefuseOrder(w) \/ RefuseFlow(w) \/ CommitTransaction(w) \/ AnswerTransaction(w)
    <3>1. Finish(w) /\ UNCHANGED <<status, rows, gen>>
      BY <2>5 DEF RefuseOrder, RefuseFlow, CommitTransaction, AnswerTransaction
    <3> QED
      BY <3>1, QuietFinishKeepsOrders
  <2> QED
    BY <1>4, <2>1, <2>2, <2>3, <2>4, <2>5 DEF Step
<1> QED
  BY <1>1, <1>2, <1>3, <1>4 DEF Next

LEMMA OrdersInit == Init => OrdersInv
  BY DEF Init, OrdersInv, CallOK, ExclusiveOrders, SnapFresh, HoldsOrder, NoCall, Statuses,
         Labels, IsFlow, FlowTypes, IsReserve, OrderKinds

-----------------------------------------------------------------------------
(* Layer 3: quantities *)

(* A posting keeps a row of counters well formed ...                       *)
LEMMA PostedTyped ==
    ASSUME NEW cur \in Balance, NEW old \in Balance, NEW type \in TxTypes,
           NEW loc \in Locations, NEW qty \in Int
    PROVE  Posted(cur, old, type, loc, qty) \in Balance
<1>1. \A a \in DOMAIN Delta(type, loc, qty) : Delta(type, loc, qty)[a] \in Int
  BY DEF Delta, TxTypes, Locations
<1>2. \A a \in Accounts : cur[a] \in Int /\ old[a] \in Int
  BY DEF Balance
<1>3. \A a \in Accounts :
        (IF a \in DOMAIN Delta(type, loc, qty) THEN old[a] + Delta(type, loc, qty)[a]
         ELSE cur[a]) \in Int
  BY <1>1, <1>2
<1> QED
  BY <1>3 DEF Posted, Balance

RowsTyped ==
    \A o \in Orders : \A m \in DOMAIN rows[o] : m \in MaterialsOf(o) /\ rows[o][m] \in Row

(* What a session added up before it rebuilds the rows of an order.        *)
OthersOK ==
    \A w \in Workers : pc[w] = "commit" =>
        \A m \in MaterialsOf(call[w].order) :
            m \in DOMAIN view[w] /\ others[w][m] \in Nat

FlowInv ==
    /\ bal \in [Materials -> Balance]
    /\ others = [w \in Workers |-> others[w]]
    /\ RowsTyped
    /\ OthersOK
    /\ FlowOrdered

LEMMA ReservedByNat ==
    ASSUME RowsTyped, FlowOrdered, NEW o \in Orders, NEW m
    PROVE  ReservedBy(o, m) \in Nat
  BY DEF RowsTyped, FlowOrdered, ReservedBy, Row

LEMMA OtherReservedNat ==
    ASSUME RowsTyped, FlowOrdered, NEW o \in Orders, NEW m
    PROVE  OtherReserved(o, m) \in Nat
<1> DEFINE D == {y \in Orders \ {o} : status[y] \in Open}
<1> DEFINE f == [x \in D |-> ReservedBy(x, m)]
<1>1. IsFiniteSet(D)
  BY FlowAssumption, FS_Subset
<1>2. f \in [D -> Nat]
  BY ReservedByNat
<1>3. OtherReserved(o, m) = Total(f)
  BY DEF OtherReserved
<1> HIDE DEF D, f
<1> QED
  BY <1>1, <1>2, <1>3, TotalNat

(* A session that ends without writing keeps the quantities.               *)
LEMMA FinishKeepsFlow ==
    ASSUME LocksInv, OrdersInv, FlowInv, NEW w \in Workers, Finish(w),
           bal' \in [Materials -> Balance], RowsTyped', FlowOrdered'
    PROVE  FlowInv'
<1>1. /\ call' = [x \in Workers |-> IF x = w THEN NoCall ELSE call[x]]
      /\ pc' = [x \in Workers |-> IF x = w THEN "idle" ELSE pc[x]]
      /\ others' = [x \in Workers |-> IF x = w THEN NoOthers ELSE others[x]]
      /\ view' = [x \in Workers |-> IF x = w THEN NothingHeld ELSE view[x]]
  BY DEF Finish, ReleaseRows, OrdersInv, LocksInv, FlowInv
<1>2. OthersOK'
  BY <1>1 DEF OthersOK, FlowInv
<1> QED
  BY <1>1, <1>2 DEF FlowInv

(* The checks of a material flow request, made on the rows as they are,    *)
(* bound what the commit writes.                                           *)
LEMMA AdvanceOrdered ==
    ASSUME NEW row \in Row, NEW kind \in FlowTypes, NEW qty \in Quantity,
           Within(kind, row, qty),
           0 <= row.consumed, row.consumed <= row.received, row.received <= row.dispatched,
           0 <= row.reserved, row.reserved + row.dispatched <= row.required,
           NEW new, new = Advance(kind, row, row, qty)
    PROVE  /\ new \in Row
           /\ 0 <= new.consumed /\ new.consumed <= new.received
           /\ new.received <= new.dispatched
           /\ 0 <= new.reserved /\ new.reserved + new.dispatched <= new.required
<1>1. CASE kind = "dispatch"
  <2>1. new = [row EXCEPT !.reserved = row.reserved - qty, !.dispatched = row.dispatched + qty]
    BY <1>1 DEF Advance
  <2>2. qty <= row.reserved /\ qty \in Nat
    BY <1>1 DEF Within, Quantity
  <2>3. row.reserved - qty \in Int /\ row.dispatched + qty \in Int
    BY <2>2 DEF Row
  <2>4. /\ new.required = row.required /\ new.received = row.received
        /\ new.consumed = row.consumed /\ new.reserved = row.reserved - qty
        /\ new.dispatched = row.dispatched + qty
    BY <2>1 DEF Row
  <2>5. new \in Row
    BY <2>1, <2>3 DEF Row
  <2> QED
    BY <2>2, <2>4, <2>5 DEF Row, Quantity
<1>2. CASE kind = "factory_receive"
  BY <1>2 DEF Row, Quantity, Within, Advance
<1>3. CASE kind = "consume"
  BY <1>3 DEF Row, Quantity, Within, Advance
<1> QED
  BY <1>1, <1>2, <1>3 DEF FlowTypes

(* What a committing flow request does to the rows of its order.           *)
LEMMA CommitFlowRows ==
    ASSUME OrdersInv, NEW w \in Workers, CommitFlow(w)
    PROVE  LET c == call[w] IN
           /\ c.kind \in FlowTypes /\ c.order \in Orders
           /\ DOMAIN c.items \subseteq DOMAIN rows[c.order]
           /\ \A x \in Orders : DOMAIN rows'[x] = DOMAIN rows[x]
           /\ \A x \in Orders \ {c.order} : rows'[x] = rows[x]
           /\ \A m \in DOMAIN rows[c.order] :
                 rows'[c.order][m] =
                   IF m \in DOMAIN c.items
                   THEN Advance(c.kind, rows[c.order][m], rows[c.order][m], c.items[m])
                   ELSE rows[c.order][m]
           /\ \A m \in DOMAIN c.items :
                 /\ c.items[m] \in Quantity
                 /\ Within(c.kind, rows[c.order][m], c.items[m])
<1> DEFINE c == call[w]
<1>1. pc[w] = "materials" /\ IsFlow(c) /\ FlowAllowed(w)
  BY DEF CommitFlow
<1>2. /\ c.kind \in FlowTypes /\ c.order \in Orders
      /\ \A m \in DOMAIN c.items : c.items[m] \in Quantity
  BY <1>1 DEF OrdersInv, CallOK, IsFlow, OrderKinds
<1>3. HoldsOrder(w, c.order)
  BY <1>1, <1>2 DEF HoldsOrder
<1>4. snap[w] = OrderRow(c.order) /\ Permitted(c, snap[w])
  BY <1>2, <1>3 DEF OrdersInv, SnapFresh
<1>5. snap[w].rows = rows[c.order]
  BY <1>4 DEF OrderRow
<1>6. DOMAIN c.items \subseteq DOMAIN rows[c.order]
  BY <1>1, <1>4, <1>5 DEF Permitted, IsFlow, FlowTypes
<1>7. rows' = [rows EXCEPT ![c.order] = [m \in DOMAIN rows[c.order] |->
          IF m \in DOMAIN c.items
          THEN Advance(c.kind, rows[c.order][m], snap[w].rows[m], c.items[m])
          ELSE rows[c.order][m]]]
  BY DEF CommitFlow
<1>8. \A m \in DOMAIN c.items : Within(c.kind, rows[c.order][m], c.items[m])
  BY <1>1, <1>5 DEF FlowAllowed
<1>9. \A x \in Orders : rows'[x] =
        IF x = c.order
        THEN [m \in DOMAIN rows[c.order] |->
                IF m \in DOMAIN c.items
                THEN Advance(c.kind, rows[c.order][m], rows[c.order][m], c.items[m])
                ELSE rows[c.order][m]]
        ELSE rows[x]
  BY <1>2, <1>5, <1>7 DEF OrdersInv
<1> QED
  BY <1>2, <1>6, <1>8, <1>9

(* The counters after a material flow commit are those before it plus the  *)
(* posting: the session's copies were fresh.                               *)
LEMMA CommitFlowCounters ==
    ASSUME LocksInv, OrdersInv, FlowInv, NEW w \in Workers, CommitFlow(w)
    PROVE  LET c == call[w] IN
           /\ DOMAIN c.items \subseteq Materials
           /\ \A m \in DOMAIN c.items : c.items[m] \in Quantity /\ bal[m] \in Balance
           /\ bal' = [m \in Materials |->
                 IF m \in DOMAIN c.items
                 THEN Posted(bal[m], bal[m], TxType(c.kind), "factory", c.items[m])
                 ELSE bal[m]]
           /\ \A m \in DOMAIN c.items :
                 Affordable(bal[m], TxType(c.kind), "factory", c.items[m])
<1> DEFINE c == call[w]
<1>1. IsFlow(c) /\ ToLock(w) = {} /\ FlowAllowed(w)
  BY DEF CommitFlow
<1>2. Wanted(c) = DOMAIN c.items
  BY <1>1, FlowWanted
<1>3. DOMAIN c.items \subseteq DOMAIN view[w]
  BY <1>1, <1>2 DEF ToLock
<1>4. \A m \in DOMAIN c.items : m \in Materials /\ view[w][m] = bal[m]
  BY <1>3 DEF LocksInv, NoStaleView
<1>5. \A m \in DOMAIN c.items : c.items[m] \in Quantity /\ bal[m] \in Balance
  BY <1>1, <1>4 DEF OrdersInv, CallOK, FlowInv
<1>6. bal' = [m \in Materials |->
        IF m \in DOMAIN c.items
        THEN Posted(bal[m], view[w][m], TxType(c.kind), "factory", c.items[m])
        ELSE bal[m]]
  BY DEF CommitFlow
<1>7. \A m \in DOMAIN c.items : Affordable(bal[m], TxType(c.kind), "factory", c.items[m])
  BY <1>1, <1>4 DEF FlowAllowed
<1> QED
  BY <1>4, <1>5, <1>6, <1>7

LEMMA CommitFlowKeepsFlow ==
    ASSUME LocksInv, OrdersInv, FlowInv, NEW w \in Workers, CommitFlow(w)
    PROVE  FlowInv'
<1> DEFINE c == call[w]
<1>1. c.kind \in FlowTypes /\ TxType(c.kind) \in TxTypes
  BY CommitFlowRows DEF TxType, TxTypes, FlowTypes
<1>2. bal' \in [Materials -> Balance]
  <2>1. \A m \in DOMAIN c.items :
          Posted(bal[m], bal[m], TxType(c.kind), "factory", c.items[m]) \in Balance
    BY <1>1, CommitFlowCounters, PostedTyped DEF Quantity, Locations
  <2>2. \A m \in Materials : bal[m] \in Balance
    BY DEF FlowInv
  <2> QED
    BY <2>1, <2>2, CommitFlowCounters
<1>3. ASSUME NEW o \in Orders, NEW m \in DOMAIN rows'[o]
      PROVE  /\ m \in MaterialsOf(o)' /\ rows'[o][m] \in Row
             /\ LET r == rows'[o][m] IN
                /\ 0 <= r.consumed /\ r.consumed <= r.received /\ r.received <= r.dispatched
                /\ 0 <= r.reserved /\ r.reserved + r.dispatched <= r.required
  <2>1. m \in DOMAIN rows[o]
    BY <1>3, CommitFlowRows
  <2>2. /\ m \in MaterialsOf(o) /\ rows[o][m] \in Row
        /\ LET r == rows[o][m] IN
           /\ 0 <= r.consumed /\ r.consumed <= r.received /\ r.received <= r.dispatched
           /\ 0 <= r.reserved /\ r.reserved + r.dispatched <= r.required
    BY <2>1 DEF FlowInv, RowsTyped, FlowOrdered
  <2>3. CASE o = c.order /\ m \in DOMAIN c.items
    <3>1. /\ rows'[o][m] = Advance(c.kind, rows[o][m], rows[o][m], c.items[m])
          /\ c.items[m] \in Quantity /\ Within(c.kind, rows[o][m], c.items[m])
      BY <2>1, <2>3, CommitFlowRows
    <3> QED
      BY <3>1, <2>2, <1>1, AdvanceOrdered DEF MaterialsOf
  <2>4. CASE ~(o = c.order /\ m \in DOMAIN c.items)
    <3>1. rows'[o][m] = rows[o][m]
      BY <2>1, <2>4, CommitFlowRows
    <3> QED
      BY <3>1, <2>2 DEF MaterialsOf
  <2> QED
    BY <2>3, <2>4
<1>4. RowsTyped' /\ FlowOrdered'
  BY <1>3 DEF RowsTyped, FlowOrdered, MaterialsOf
<1> QED
  BY <1>2, <1>4, FinishKeepsFlow DEF CommitFlow

LEMMA CommitReserveKeepsFlow ==
    ASSUME LocksInv, OrdersInv, FlowInv, NEW w \in Workers, CommitReserve(w)
    PROVE  FlowInv'
<1> DEFINE o == call[w].order
<1>1. /\ pc[w] = "commit" /\ bal' = bal /\ Finish(w)
      /\ rows' = [rows EXCEPT ![o] = [m \in MaterialsOf(o) |-> FreshRow(w, o, m)]]
  BY DEF CommitReserve
<1>2. o \in Orders
  BY <1>1 DEF OrdersInv, CallOK, IsReserve, OrderKinds
<1>3. \A x \in Orders : rows'[x] =
        IF x = o THEN [m \in MaterialsOf(o) |-> FreshRow(w, o, m)] ELSE rows[x]
  BY <1>1, <1>2 DEF OrdersInv
<1>4. ASSUME NEW m \in MaterialsOf(o)
      PROVE  LET r == FreshRow(w, o, m) IN
             /\ r \in Row
             /\ r.dispatched = 0 /\ r.received = 0 /\ r.consumed = 0
             /\ 0 <= r.reserved /\ r.reserved <= r.required
  <2>1. m \in DOMAIN view[w] /\ others[w][m] \in Nat
    BY <1>1, <1>4 DEF FlowInv, OthersOK
  <2>2. view[w][m] \in Balance
    BY <2>1 DEF LocksInv, NoStaleView, FlowInv
  <2>3. view[w][m].own \in Int
    BY <2>2 DEF Balance, Accounts, Locations
  <2>4. Required[o][m] \in Quantity
    BY <1>2, <1>4, FlowAssumption
  <2>5. Available(view[w][m].own, others[w][m]) \in Nat
    BY <2>1, <2>3 DEF Available
  <2>6. /\ Smaller(Required[o][m], Available(view[w][m].own, others[w][m])) \in Nat
        /\ Smaller(Required[o][m], Available(view[w][m].own, others[w][m])) <= Required[o][m]
    BY <2>4, <2>5 DEF Smaller, Quantity
  <2> QED
    BY <2>4, <2>6 DEF FreshRow, Row, Quantity
<1>5. RowsTyped' /\ FlowOrdered'
  <2> SUFFICES ASSUME NEW x \in Orders, NEW m \in DOMAIN rows'[x]
               PROVE  /\ m \in MaterialsOf(x)' /\ rows'[x][m] \in Row
                      /\ LET r == rows'[x][m] IN
                         /\ 0 <= r.consumed /\ r.consumed <= r.received
                         /\ r.received <= r.dispatched
                         /\ 0 <= r.reserved /\ r.reserved + r.dispatched <= r.required
    BY DEF RowsTyped, FlowOrdered, MaterialsOf
  <2>1. CASE x = o
    <3>1. m \in MaterialsOf(o) /\ rows'[x][m] = FreshRow(w, o, m)
      BY <2>1, <1>3
    <3> QED
      BY <3>1, <2>1, <1>4 DEF Row, MaterialsOf, Quantity
  <2>2. CASE x # o
    BY <2>2, <1>3 DEF FlowInv, RowsTyped, FlowOrdered, MaterialsOf
  <2> QED
    BY <2>1, <2>2
<1> QED
  BY <1>1, <1>5, FinishKeepsFlow DEF FlowInv

LEMMA CommitTransactionKeepsFlow ==
    ASSUME LocksInv, OrdersInv, FlowInv, NEW w \in Workers, CommitTransaction(w)
    PROVE  FlowInv'
<1> DEFINE t == call[w]
<1>1. /\ t.kind = "transaction" /\ ToLock(w) = {} /\ rows' = rows /\ Finish(w)
      /\ bal' = [bal EXCEPT ![t.mat] = Posted(bal[t.mat], view[w][t.mat], t.type, t.loc, t.qty)]
  BY DEF CommitTransaction
<1>2. t \in Transactions
  BY <1>1 DEF OrdersInv, CallOK
<1>3. t.mat \in DOMAIN view[w]
  BY <1>1 DEF ToLock, Wanted, IsFlow, IsReserve, FlowTypes
<1>4. /\ t.mat \in Materials /\ t.type \in TxTypes /\ t.loc \in Locations /\ t.qty \in Int
  BY <1>2, FlowAssumption
<1>5. bal[t.mat] \in Balance /\ view[w][t.mat] = bal[t.mat]
  BY <1>3, <1>4 DEF LocksInv, NoStaleView, FlowInv
<1>6. Posted(bal[t.mat], view[w][t.mat], t.type, t.loc, t.qty) \in Balance
  BY <1>4, <1>5, PostedTyped
<1>7. bal' \in [Materials -> Balance]
  BY <1>1, <1>6 DEF FlowInv
<1>8. RowsTyped' /\ FlowOrdered'
  BY <1>1 DEF FlowInv, RowsTyped, FlowOrdered, MaterialsOf
<1> QED
  BY <1>1, <1>7, <1>8, FinishKeepsFlow

LEMMA FlowStep == LocksInv /\ OrdersInv /\ FlowInv /\ [Next]_vars => FlowInv'
<1> SUFFICES ASSUME LocksInv, OrdersInv, FlowInv, [Next]_vars PROVE FlowInv'
  OBVIOUS
<1> USE DEF MaterialsOf
<1>1. CASE UNCHANGED vars
  BY <1>1 DEF vars, FlowInv, RowsTyped, OthersOK, FlowOrdered
<1>2. ASSUME NEW w \in Workers, Start(w) PROVE FlowInv'
  <2>1. /\ UNCHANGED <<bal, rows, view, others>> /\ pc[w] = "idle"
        /\ \E l \in {"order", "materials"} : pc' = [pc EXCEPT ![w] = l]
        /\ \E c : call' = [call EXCEPT ![w] = c]
    BY <1>2 DEF Start, StartFlow, StartCreate, StartOrderCall, StartTransaction, Goto, ledgerVars
  <2>2. \A x \in Workers : pc'[x] = "commit" => pc[x] = "commit" /\ call'[x] = call[x]
    BY <2>1 DEF OrdersInv
  <2> QED
    BY <2>1, <2>2 DEF FlowInv, RowsTyped, OthersOK, FlowOrdered
<1>3. ASSUME NEW w \in Workers, Finish(w), UNCHANGED <<bal, rows>> PROVE FlowInv'
  <2>1. bal' \in [Materials -> Balance] /\ RowsTyped' /\ FlowOrdered'
    BY <1>3 DEF FlowInv, RowsTyped, FlowOrdered
  <2> QED
    BY <1>3, <2>1, FinishKeepsFlow
<1>4. ASSUME NEW w \in Workers, Step(w) PROVE FlowInv'
  <2>1. CASE LockOrder(w)
    <3>1. /\ UNCHANGED <<bal, rows, view, others, call>>
          /\ pc' = [pc EXCEPT ![w] = "materials"]
      BY <2>1 DEF LockOrder, Goto, ledgerVars
    <3>2. \A x \in Workers : pc'[x] = "commit" => pc[x] = "commit"
      BY <3>1 DEF OrdersInv
    <3> QED
      BY <3>1, <3>2 DEF FlowInv, RowsTyped, OthersOK, FlowOrdered
  <2>2. CASE \E m \in Materials : LockMaterial(w, m)
    <3>1. PICK m \in Materials : LockMaterial(w, m)
      BY <2>2
    <3>2. UNCHANGED <<bal, rows, others, call, pc>>
      BY <3>1 DEF LockMaterial, flowVars
    <3>3. \A x \in Workers : DOMAIN view[x] \subseteq DOMAIN view'[x]
      BY <3>1 DEF LockMaterial, LockRow, LocksInv
    <3> QED
      BY <3>2, <3>3 DEF FlowInv, RowsTyped, OthersOK, FlowOrdered
  <2>3. CASE ReadOthers(w)
    <3>1. /\ IsReserve(call[w]) /\ ToLock(w) = {} /\ UNCHANGED <<bal, rows, view, call>>
          /\ others' = [others EXCEPT ![w] =
                [m \in MaterialsOf(call[w].order) |-> OtherReserved(call[w].order, m)]]
          /\ pc' = [pc EXCEPT ![w] = "commit"]
      BY <2>3 DEF ReadOthers, Goto, ledgerVars
    <3>2. call[w].order \in Orders
      BY <3>1 DEF OrdersInv, CallOK, IsReserve, OrderKinds
    <3>3. MaterialsOf(call[w].order) \subseteq DOMAIN view[w]
      BY <3>1 DEF ToLock, Wanted, IsReserve, IsFlow, FlowTypes
    <3>4. \A m \in MaterialsOf(call[w].order) : OtherReserved(call[w].order, m) \in Nat
      BY <3>2, OtherReservedNat DEF FlowInv
    <3>5. others' = [x \in Workers |-> others'[x]]
      BY <3>1 DEF FlowInv
    <3>6. OthersOK'
      <4> SUFFICES ASSUME NEW x \in Workers, pc'[x] = "commit",
                          NEW m \in MaterialsOf(call'[x].order)
                   PROVE  m \in DOMAIN view'[x] /\ others'[x][m] \in Nat
        BY DEF OthersOK
      <4>1. CASE x = w
        BY <4>1, <3>1, <3>3, <3>4 DEF FlowInv
      <4>2. CASE x # w
        <5>1. pc[x] = "commit" /\ others'[x] = others[x]
          BY <4>2, <3>1 DEF OrdersInv, FlowInv
        <5> QED
          BY <5>1, <3>1 DEF FlowInv, OthersOK
      <4> QED
        BY <4>1, <4>2
    <3> QED
      BY <3>1, <3>5, <3>6 DEF FlowInv, RowsTyped, FlowOrdered
  <2>4. CASE CommitFlow(w)
    BY <2>4, CommitFlowKeepsFlow
  <2>5. CASE CommitReserve(w)
    BY <2>5, CommitReserveKeepsFlow
  <2>6. CASE CommitTransaction(w)
    BY <2>6, CommitTransactionKeepsFlow
  <2>7. CASE RefuseOrder(w) \/ RefuseFlow(w) \/ CommitCancel(w) \/ AnswerTransaction(w)
    BY <2>7, <1>3 DEF RefuseOrder, RefuseFlow, CommitCancel, AnswerTransaction
  <2> QED
    BY <1>4, <2>1, <2>2, <2>3, <2>4, <2>5, <2>6, <2>7 DEF Step
<1> QED
  BY <1>1, <1>2, <1>3, <1>4 DEF Next, Crash

LEMMA FlowInit == Init => FlowInv
<1> SUFFICES ASSUME Init PROVE FlowInv
  OBVIOUS
<1>1. \A m \in Materials : OpeningBalance(m) \in Balance
  BY LedgerAssumption DEF OpeningBalance, Balance
<1> QED
  BY <1>1 DEF Init, LedgerInit, FlowInv, RowsTyped, OthersOK, FlowOrdered

FullInv == LocksInv /\ OrdersInv /\ FlowInv

LEMMA FullInvariant == Spec => []FullInv
<1>1. Init => FullInv
  BY LocksInit, OrdersInit, FlowInit DEF FullInv
<1>2. FullInv /\ [Next]_vars => FullInv'
  BY LocksStep, OrdersStep, FlowStep DEF FullInv
<1> QED
  BY <1>1, <1>2, PTL DEF Spec

(* Every variable has its type, whatever the sessions do.                  *)
THEOREM TypeCorrect == Spec => []TypeOK
<1>1. FullInv => TypeOK
  BY DEF FullInv, LocksInv, OrdersInv, FlowInv, RowsTyped, CallOK, Labels, TypeOK
<1> QED
  BY <1>1, FullInvariant, PTL

(* Consumed was received, received was dispatched, and no more is reserved *)
(* and dispatched than the order requires: the database constraint on the  *)
(* reservation rows never fires, in any interleaving of the sessions.      *)
THEOREM QuantitiesOrdered == Spec => []FlowOrdered
<1>1. FullInv => FlowOrdered
  BY DEF FullInv, FlowInv
<1> QED
  BY <1>1, FullInvariant, PTL

-----------------------------------------------------------------------------
(* Goods in transit *)

(* The shared transit counter after a posting.                             *)
LEMMA PostedTransit ==
    ASSUME NEW cur \in Balance, NEW type \in TxTypes, NEW loc \in Locations, NEW qty \in Int
    PROVE  Posted(cur, cur, type, loc, qty)["transit"] =
             IF type = "send_factory" THEN cur["transit"] + qty
             ELSE IF type = "factory_receive" THEN cur["transit"] - qty
             ELSE cur["transit"]
<1> DEFINE d == Delta(type, loc, qty)
<1>0. "transit" \in Accounts /\ cur["transit"] \in Int
  BY DEF Accounts, Balance
<1>1. Posted(cur, cur, type, loc, qty)["transit"] =
        IF "transit" \in DOMAIN d THEN cur["transit"] + d["transit"] ELSE cur["transit"]
  BY <1>0 DEF Posted
<1>2. CASE type = "send_factory"
  <2>1. d = [own |-> -qty, transit |-> qty]
    BY <1>2 DEF Delta
  <2>2. "transit" \in DOMAIN d /\ d["transit"] = qty
    BY <2>1
  <2> QED
    BY <1>0, <1>1, <1>2, <2>2
<1>3. CASE type = "factory_receive"
  <2>1. d = [transit |-> -qty, factory |-> qty]
    BY <1>3 DEF Delta
  <2>2. "transit" \in DOMAIN d /\ d["transit"] = -qty
    BY <2>1
  <2> QED
    BY <1>0, <1>1, <1>3, <2>2
<1>4. CASE type \notin {"send_factory", "factory_receive"}
  <2>1. "transit" \notin DOMAIN d
    BY <1>4 DEF Delta, TxTypes, Locations
  <2> QED
    BY <1>1, <1>4, <2>1
<1> QED
  BY <1>2, <1>3, <1>4

OnTheRoad(m) == [o \in Orders |-> Outstanding(o, m)]

LEMMA OutstandingNat ==
    ASSUME FlowInv, NEW m
    PROVE  OnTheRoad(m) \in [Orders -> Nat]
  BY DEF FlowInv, RowsTyped, FlowOrdered, OnTheRoad, Outstanding, Row

(* No client books goods into the factory past the production orders.      *)
NoManualReceipt == \A t \in Transactions : t.type # "factory_receive"

LEMMA TransitFlow ==
    ASSUME FullInv, FullInv', OutstandingInTransit, NEW w \in Workers, CommitFlow(w)
    PROVE  OutstandingInTransit'
<1> DEFINE c == call[w]
<1> SUFFICES ASSUME NEW m \in Materials
             PROVE  Total(OnTheRoad(m)') <= bal'[m].transit
  BY DEF OutstandingInTransit, OnTheRoad
<1>0. LocksInv /\ OrdersInv /\ FlowInv /\ FlowInv'
  BY DEF FullInv
<1>1. /\ OnTheRoad(m) \in [Orders -> Nat] /\ OnTheRoad(m)' \in [Orders -> Nat]
      /\ IsFiniteSet(Orders)
  BY <1>0, OutstandingNat, FlowAssumption DEF FlowInv, RowsTyped, FlowOrdered, OnTheRoad, Outstanding, Row
<1>2. Total(OnTheRoad(m)) <= bal[m].transit
  BY DEF OutstandingInTransit, OnTheRoad
<1>3. c.kind \in FlowTypes /\ c.order \in Orders
  BY <1>0, CommitFlowRows
<1>4. \A o \in Orders \ {c.order} : OnTheRoad(m)'[o] = OnTheRoad(m)[o]
  BY <1>0, CommitFlowRows DEF OnTheRoad, Outstanding
<1>5. Total(OnTheRoad(m)') =
        Total(OnTheRoad(m)) + (OnTheRoad(m)'[c.order] - OnTheRoad(m)[c.order])
  BY <1>1, <1>3, <1>4, TotalChange
<1>6. Total(OnTheRoad(m)) \in Nat /\ bal[m] \in Balance /\ bal[m].transit \in Int
  BY <1>0, <1>1, TotalNat DEF FlowInv, Balance, Accounts
<1>7. CASE m \notin DOMAIN c.items
  <2>1. bal'[m] = bal[m]
    BY <1>0, <1>7, CommitFlowCounters
  <2>2. OnTheRoad(m)'[c.order] = OnTheRoad(m)[c.order]
    BY <1>0, <1>3, <1>7, CommitFlowRows DEF OnTheRoad, Outstanding
  <2> QED
    BY <1>1, <1>2, <1>3, <1>5, <1>6, <2>1, <2>2
<1>8. CASE m \in DOMAIN c.items
  <2> DEFINE q == c.items[m]
  <2> DEFINE old == rows[c.order][m]
  <2> DEFINE new == rows'[c.order][m]
  <2>1. /\ q \in Quantity /\ m \in DOMAIN rows[c.order] /\ m \in DOMAIN rows'[c.order]
        /\ new = Advance(c.kind, old, old, q)
    BY <1>0, <1>3, <1>8, CommitFlowRows
  <2>2. old \in Row
    BY <1>0, <1>3, <2>1 DEF FlowInv, RowsTyped
  <2>3. /\ OnTheRoad(m)[c.order] = old.dispatched - old.received
        /\ OnTheRoad(m)'[c.order] = new.dispatched - new.received
    BY <1>3, <2>1 DEF OnTheRoad, Outstanding
  <2>4. bal'[m] = Posted(bal[m], bal[m], TxType(c.kind), "factory", q)
    BY <1>0, <1>8, CommitFlowCounters
  <2>5. q \in Int /\ "factory" \in Locations /\ TxType(c.kind) \in TxTypes
    BY <1>3, <2>1 DEF Quantity, Locations, TxType, TxTypes, FlowTypes
  <2>6. bal'[m].transit =
          CASE TxType(c.kind) = "send_factory" -> bal[m].transit + q
            [] TxType(c.kind) = "factory_receive" -> bal[m].transit - q
            [] OTHER -> bal[m].transit
    BY <1>6, <2>4, <2>5, PostedTransit
  <2>7. old.dispatched \in Int /\ old.received \in Int /\ old.reserved \in Int
    BY <2>2 DEF Row
  <2>8. CASE c.kind = "dispatch"
    <3>1. new = [old EXCEPT !.reserved = old.reserved - q, !.dispatched = old.dispatched + q]
      BY <2>1, <2>8 DEF Advance
    <3>2. new.dispatched = old.dispatched + q /\ new.received = old.received
      BY <3>1, <2>2 DEF Row
    <3>3. bal'[m].transit = bal[m].transit + q
      BY <2>6, <2>8 DEF TxType
    <3> QED
      BY SMTT(30), <1>2, <1>5, <1>6, <2>3, <2>5, <2>7, <3>2, <3>3
  <2>9. CASE c.kind = "factory_receive"
    <3>1. new = [old EXCEPT !.received = old.received + q]
      BY <2>1, <2>9 DEF Advance
    <3>2. new.dispatched = old.dispatched /\ new.received = old.received + q
      BY <3>1, <2>2 DEF Row
    <3>3. bal'[m].transit = bal[m].transit - q
      BY <2>6, <2>9 DEF TxType
    <3> QED
      BY SMTT(30), <1>2, <1>5, <1>6, <2>3, <2>5, <2>7, <3>2, <3>3
  <2>10. CASE c.kind = "consume"
    <3>1. new = [old EXCEPT !.consumed = old.consumed + q]
      BY <2>1, <2>10 DEF Advance
    <3>2. new.dispatched = old.dispatched /\ new.received = old.received
      BY <3>1, <2>2 DEF Row
    <3>3. bal'[m].transit = bal[m].transit
      BY <2>6, <2>10 DEF TxType
    <3> QED
      BY <1>2, <1>5, <1>6, <2>3, <2>7, <3>2, <3>3
  <2> QED
    BY <1>3, <2>8, <2>9, <2>10 DEF FlowTypes
<1> QED
  BY <1>7, <1>8

(* Rebuilding the rows of an order takes nothing off the road that was on  *)
(* it: the outstanding quantities can only shrink.                         *)
LEMMA TransitReserve ==
    ASSUME FullInv, FullInv', OutstandingInTransit, NEW w \in Workers, CommitReserve(w)
    PROVE  OutstandingInTransit'
<1> SUFFICES ASSUME NEW m \in Materials
             PROVE  Total(OnTheRoad(m)') <= bal'[m].transit
  BY DEF OutstandingInTransit, OnTheRoad
<1> DEFINE o == call[w].order
<1>0. OrdersInv /\ FlowInv /\ FlowInv' /\ IsFiniteSet(Orders)
  BY FlowAssumption DEF FullInv
<1>1. OnTheRoad(m) \in [Orders -> Nat] /\ OnTheRoad(m)' \in [Orders -> Nat]
  BY <1>0, OutstandingNat DEF FlowInv, RowsTyped, FlowOrdered, OnTheRoad, Outstanding, Row
<1>2. Total(OnTheRoad(m)) <= bal[m].transit /\ bal' = bal
  BY DEF OutstandingInTransit, OnTheRoad, CommitReserve
<1>3. o \in Orders
  BY <1>0 DEF CommitReserve, OrdersInv, CallOK, IsReserve, OrderKinds
<1>4. \A x \in Orders : rows'[x] =
        IF x = o THEN [n \in MaterialsOf(o) |-> FreshRow(w, o, n)] ELSE rows[x]
  BY <1>0, <1>3 DEF OrdersInv, CommitReserve
<1>5. OnTheRoad(m)'[o] = 0
  <2>1. OnTheRoad(m)'[o] = IF m \in DOMAIN rows'[o]
                           THEN rows'[o][m].dispatched - rows'[o][m].received ELSE 0
    BY <1>3 DEF OnTheRoad, Outstanding
  <2>2. rows'[o] = [n \in MaterialsOf(o) |-> FreshRow(w, o, n)]
    BY <1>3, <1>4
  <2>3. CASE m \in MaterialsOf(o)
    <3>1. rows'[o][m].dispatched = 0 /\ rows'[o][m].received = 0
      BY <2>2, <2>3 DEF FreshRow
    <3> QED
      BY <2>1, <3>1
  <2>4. CASE m \notin MaterialsOf(o)
    BY <2>1, <2>2, <2>4
  <2> QED
    BY <2>3, <2>4
<1>6. \A x \in Orders \ {o} : OnTheRoad(m)'[x] = OnTheRoad(m)[x]
  BY <1>4 DEF OnTheRoad, Outstanding
<1>7. \A x \in Orders : OnTheRoad(m)'[x] <= OnTheRoad(m)[x]
  BY <1>1, <1>5, <1>6
<1>8. Total(OnTheRoad(m)') <= Total(OnTheRoad(m))
  BY <1>0, <1>1, <1>7, TotalMonotone
<1>9. Total(OnTheRoad(m)) \in Nat /\ Total(OnTheRoad(m)') \in Nat /\ bal[m].transit \in Int
  BY <1>0, <1>1, TotalNat DEF FlowInv, Balance, Accounts
<1> QED
  BY <1>2, <1>8, <1>9

LEMMA TransitTransaction ==
    ASSUME NoManualReceipt, FullInv, OutstandingInTransit, NEW w \in Workers, CommitTransaction(w)
    PROVE  OutstandingInTransit'
<1> DEFINE t == call[w]
<1>0. LocksInv /\ OrdersInv /\ FlowInv
  BY DEF FullInv
<1>1. /\ t.kind = "transaction" /\ ToLock(w) = {} /\ rows' = rows
      /\ bal' = [bal EXCEPT ![t.mat] = Posted(bal[t.mat], view[w][t.mat], t.type, t.loc, t.qty)]
  BY DEF CommitTransaction
<1>2. t \in Transactions
  BY <1>0, <1>1 DEF OrdersInv, CallOK
<1>3. t.mat \in DOMAIN view[w]
  BY <1>1 DEF ToLock, Wanted, IsFlow, IsReserve, FlowTypes
<1>4. /\ t.mat \in Materials /\ t.type \in TxTypes /\ t.loc \in Locations /\ t.qty \in Int
      /\ t.type # "factory_receive"
      /\ t.type = "send_factory" => t.qty \in Nat
  BY <1>2, FlowAssumption DEF NoManualReceipt, Quantity
<1>5. bal[t.mat] \in Balance /\ view[w][t.mat] = bal[t.mat]
  BY <1>0, <1>3, <1>4 DEF LocksInv, NoStaleView, FlowInv
<1>6. \A m \in Materials : bal[m].transit \in Int
  BY <1>0 DEF FlowInv, Balance, Accounts
<1>7. bal'[t.mat] = Posted(bal[t.mat], bal[t.mat], t.type, t.loc, t.qty)
  BY <1>0, <1>1, <1>4, <1>5 DEF FlowInv
<1>8. bal'[t.mat].transit = IF t.type = "send_factory" THEN bal[t.mat].transit + t.qty
                            ELSE IF t.type = "factory_receive" THEN bal[t.mat].transit - t.qty
                            ELSE bal[t.mat].transit
  BY <1>4, <1>5, <1>7, PostedTransit
<1>9. bal'[t.mat].transit >= bal[t.mat].transit
  <2>1. bal[t.mat].transit \in Int
    BY <1>4, <1>6
  <2>2. CASE t.type = "send_factory"
    <3>1. bal'[t.mat].transit = bal[t.mat].transit + t.qty
      BY <1>8, <2>2
    <3>2. t.qty \in Nat
      BY <1>4, <2>2
    <3> QED
      BY <2>1, <3>1, <3>2
  <2>3. CASE t.type # "send_factory"
    <3>1. bal'[t.mat].transit = bal[t.mat].transit
      BY <1>4, <1>8, <2>3
    <3> QED
      BY <2>1, <3>1
  <2> QED
    BY <2>2, <2>3
<1>10. \A m \in Materials \ {t.mat} : bal'[m] = bal[m]
  BY <1>0, <1>1 DEF FlowInv
<1> SUFFICES ASSUME NEW m \in Materials
             PROVE  Total(OnTheRoad(m)) <= bal'[m].transit
  BY <1>1 DEF OutstandingInTransit, OnTheRoad, Outstanding
<1>11. Total(OnTheRoad(m)) <= bal[m].transit
  BY DEF OutstandingInTransit, OnTheRoad
<1>12. Total(OnTheRoad(m)) \in Nat
  BY <1>0, OutstandingNat, TotalNat, FlowAssumption
<1>13. CASE m = t.mat
  <2>1. bal'[m].transit \in Int
    BY <1>13, <1>4, <1>6, <1>8
  <2> QED
    BY <1>6, <1>9, <1>11, <1>12, <1>13, <2>1
<1>14. CASE m # t.mat
  BY <1>10, <1>11, <1>14
<1> QED
  BY <1>13, <1>14

LEMMA TransitStep ==
    ASSUME NoManualReceipt, FullInv, FullInv', OutstandingInTransit, [Next]_vars
    PROVE  OutstandingInTransit'
<1>1. CASE UNCHANGED <<bal, rows>>
  BY <1>1 DEF OutstandingInTransit, Outstanding
<1>2. ASSUME NEW w \in Workers, Start(w) \/ Crash(w) PROVE OutstandingInTransit'
  <2>1. UNCHANGED <<bal, rows>>
    BY <1>2 DEF Start, StartFlow, StartCreate, StartOrderCall, StartTransaction, Crash, ledgerVars
  <2> QED
    BY <1>1, <2>1
<1>3. ASSUME NEW w \in Workers, Step(w) PROVE OutstandingInTransit'
  <2>1. CASE CommitFlow(w)
    BY <2>1, TransitFlow
  <2>2. CASE CommitReserve(w)
    BY <2>2, TransitReserve
  <2>3. CASE CommitTransaction(w)
    BY <2>3, TransitTransaction
  <2>4. CASE \/ LockOrder(w) \/ RefuseOrder(w) \/ \E m \in Materials : LockMaterial(w, m)
             \/ RefuseFlow(w) \/ ReadOthers(w) \/ CommitCancel(w) \/ AnswerTransaction(w)
    <3>1. UNCHANGED <<bal, rows>>
      BY <2>4 DEF LockOrder, RefuseOrder, LockMaterial, RefuseFlow, ReadOthers, CommitCancel,
                  AnswerTransaction, ledgerVars, flowVars
    <3> QED
      BY <1>1, <3>1
  <2> QED
    BY <1>3, <2>1, <2>2, <2>3, <2>4 DEF Step
<1> QED
  BY <1>1, <1>2, <1>3 DEF Next, vars

LEMMA TransitInit == Init => OutstandingInTransit
<1> SUFFICES ASSUME Init, NEW m \in Materials PROVE Total(OnTheRoad(m)) <= bal[m].transit
  BY DEF OutstandingInTransit, OnTheRoad
<1>1. \A o \in Orders : OnTheRoad(m)[o] = 0
  BY DEF Init, OnTheRoad, Outstanding
<1>2. Units(OnTheRoad(m)) = {}
  <2>1. 1..0 = {}
    OBVIOUS
  <2> QED
    BY <1>1, <2>1 DEF Units, OnTheRoad
<1>3. Total(OnTheRoad(m)) = 0
  BY <1>2, FS_EmptySet DEF Total
<1>4. bal[m].transit = 0
  BY DEF Init, LedgerInit, OpeningBalance, Accounts
<1> QED
  BY <1>3, <1>4

(* What the production orders have on the road is in the shared transit    *)
(* counter, so a receipt that an order allows is not refused by the ledger *)
(* - as long as nobody books a factory receipt by hand.                    *)
THEOREM TransitCoversOrders ==
    ASSUME NoManualReceipt
    PROVE  Spec => []OutstandingInTransit
<1>1. FullInv /\ FullInv' /\ OutstandingInTransit /\ [Next]_vars => OutstandingInTransit'
  BY TransitStep
<1> QED
  BY <1>1, TransitInit, FullInvariant, PTL DEF Spec

-----------------------------------------------------------------------------
(* Cancelled orders *)

(* Every movement is seen in the counters of its reservation row, and an   *)
(* order that does not exist yet or is cancelled shows none.               *)
SentInv ==
    /\ \A v \in moves : /\ v.order \in Orders /\ v.mat \in DOMAIN rows[v.order]
                        /\ rows[v.order][v.mat].dispatched > 0
    /\ \A o \in Orders : status[o] = "absent" => DOMAIN rows[o] = {}
    /\ \A o \in Orders : status[o] = "cancelled" =>
          \A m \in DOMAIN rows[o] : rows[o][m].dispatched = 0

LEMMA SentFlow ==
    ASSUME FullInv, FullInv', SentInv, NEW w \in Workers, CommitFlow(w)
    PROVE  SentInv'
<1> DEFINE c == call[w]
<1>0. OrdersInv /\ FlowInv /\ FlowInv'
  BY DEF FullInv
<1>1. /\ c.kind \in FlowTypes /\ c.order \in Orders
      /\ DOMAIN c.items \subseteq DOMAIN rows[c.order]
      /\ \A x \in Orders : DOMAIN rows'[x] = DOMAIN rows[x]
      /\ \A x \in Orders \ {c.order} : rows'[x] = rows[x]
      /\ \A m \in DOMAIN rows[c.order] :
            rows'[c.order][m] =
              IF m \in DOMAIN c.items
              THEN Advance(c.kind, rows[c.order][m], rows[c.order][m], c.items[m])
              ELSE rows[c.order][m]
      /\ \A m \in DOMAIN c.items :
            /\ c.items[m] \in Quantity
            /\ Within(c.kind, rows[c.order][m], c.items[m])
  BY <1>0, CommitFlowRows
<1>2. HoldsOrder(w, c.order)
  BY <1>1 DEF CommitFlow, HoldsOrder
<1>3. status[c.order] \in Open
  <2>1. Permitted(c, snap[w]) /\ snap[w].status = status[c.order]
    BY <1>0, <1>1, <1>2 DEF OrdersInv, SnapFresh, OrderRow
  <2> QED
    BY <1>1, <2>1 DEF Permitted, IsFlow, FlowTypes
<1>4. \A x \in Orders : status'[x] = status[x] \/ (x = c.order /\ status'[x] = "confirmed")
  <2>1. status' = status \/ status' = [status EXCEPT ![c.order] = "confirmed"]
    BY DEF CommitFlow
  <2> QED
    BY <1>0, <2>1 DEF OrdersInv
<1>5. \A m \in DOMAIN c.items : rows'[c.order][m].dispatched > 0
  <2> SUFFICES ASSUME NEW m \in DOMAIN c.items PROVE rows'[c.order][m].dispatched > 0
    OBVIOUS
  <2> DEFINE old == rows[c.order][m]  new == rows'[c.order][m]  q == c.items[m]
  <2>1. new = Advance(c.kind, old, old, q) /\ Within(c.kind, old, q) /\ q \in Nat /\ q > 0
    BY <1>1 DEF Quantity
  <2>2. /\ old \in Row /\ 0 <= old.consumed /\ old.consumed <= old.received
        /\ old.received <= old.dispatched
    BY <1>0, <1>1 DEF FlowInv, RowsTyped, FlowOrdered
  <2>3. CASE c.kind = "dispatch"
    <3>1. new.dispatched = old.dispatched + q
      BY <2>1, <2>2, <2>3 DEF Advance, Row
    <3> QED
      BY <2>1, <2>2, <3>1 DEF Row
  <2>4. CASE c.kind = "factory_receive"
    <3>1. new.dispatched = old.dispatched /\ q <= old.dispatched - old.received
      BY <2>1, <2>2, <2>4 DEF Advance, Row, Within
    <3> QED
      BY <2>1, <2>2, <3>1 DEF Row
  <2>5. CASE c.kind = "consume"
    <3>1. new.dispatched = old.dispatched /\ q <= old.received - old.consumed
      BY <2>1, <2>2, <2>5 DEF Advance, Row, Within
    <3> QED
      BY <2>1, <2>2, <3>1 DEF Row
  <2> QED
    BY <1>1, <2>3, <2>4, <2>5 DEF FlowTypes
<1>6. \A x \in Orders : \A m \in DOMAIN rows[x] :
        rows[x][m].dispatched > 0 => rows'[x][m].dispatched > 0
  BY <1>1, <1>5
<1>7. ASSUME NEW v \in moves'
      PROVE  /\ v.order \in Orders /\ v.mat \in DOMAIN rows'[v.order]
             /\ rows'[v.order][v.mat].dispatched > 0
  <2>1. CASE v \in moves
    BY <1>1, <1>6, <2>1 DEF SentInv
  <2>2. CASE \E m \in DOMAIN c.items : v = Movement(c, m)
    BY <1>1, <1>5, <2>2 DEF Movement
  <2> QED
    BY <2>1, <2>2 DEF CommitFlow
<1>8. \A x \in Orders : status'[x] = "absent" => DOMAIN rows'[x] = {}
  BY <1>1, <1>4 DEF SentInv
<1>9. \A x \in Orders : status'[x] = "cancelled" =>
        \A m \in DOMAIN rows'[x] : rows'[x][m].dispatched = 0
  BY <1>1, <1>3, <1>4 DEF SentInv, Open
<1> QED
  BY <1>7, <1>8, <1>9 DEF SentInv

(* Rows are rebuilt only for an order that has sent nothing and has no     *)
(* movement yet.                                                           *)
LEMMA ReserveUnmoved ==
    ASSUME FullInv, SentInv, NEW w \in Workers, CommitReserve(w)
    PROVE  /\ \A m \in DOMAIN rows[call[w].order] : rows[call[w].order][m].dispatched = 0
           /\ \A v \in moves : v.order # call[w].order
<1> DEFINE o == call[w].order
<1>0. OrdersInv
  BY DEF FullInv
<1>1. o \in Orders /\ call[w].kind \in {"create", "recalculate"} /\ pc[w] = "commit"
  BY <1>0 DEF CommitReserve, OrdersInv, CallOK, IsReserve, OrderKinds
<1>2. \A m \in DOMAIN rows[o] : rows[o][m].dispatched = 0
  <2>1. CASE call[w].kind = "create"
    BY <1>0, <1>1, <2>1 DEF OrdersInv, CallOK, SentInv
  <2>2. CASE call[w].kind = "recalculate"
    <3>1. HoldsOrder(w, o)
      BY <1>1, <2>2 DEF HoldsOrder
    <3>2. Permitted(call[w], snap[w]) /\ snap[w].rows = rows[o]
      BY <1>0, <1>1, <3>1 DEF OrdersInv, SnapFresh, OrderRow
    <3>3. NothingMoved(rows[o])
      BY <2>2, <3>2 DEF Permitted, IsFlow, FlowTypes
    <3> QED
      BY <3>3 DEF NothingMoved
  <2> QED
    BY <1>1, <2>1, <2>2
<1> QED
  BY <1>2 DEF SentInv

LEMMA SentReserve ==
    ASSUME FullInv, SentInv, NEW w \in Workers, CommitReserve(w)
    PROVE  SentInv'
<1> DEFINE o == call[w].order
<1>0. OrdersInv
  BY DEF FullInv
<1>1. /\ o \in Orders /\ call[w].kind \in {"create", "recalculate"} /\ moves' = moves
      /\ rows' = [rows EXCEPT ![o] = [m \in MaterialsOf(o) |-> FreshRow(w, o, m)]]
      /\ status' = IF call[w].kind = "create" THEN [status EXCEPT ![o] = "planned"] ELSE status
  BY <1>0 DEF CommitReserve, OrdersInv, CallOK, IsReserve, OrderKinds
<1>3. \A v \in moves : v.order # o
  BY ReserveUnmoved
<1>4. status'[o] \notin {"absent", "cancelled"}
  <2>1. CASE call[w].kind = "create"
    BY <1>0, <1>1, <2>1 DEF OrdersInv
  <2>2. CASE call[w].kind = "recalculate"
    <3>1. HoldsOrder(w, o)
      BY <2>2 DEF HoldsOrder, CommitReserve
    <3>2. Permitted(call[w], snap[w]) /\ snap[w].status = status[o]
      BY <1>0, <1>1, <3>1 DEF OrdersInv, SnapFresh, OrderRow
    <3>3. status[o] \in Open
      BY <2>2, <3>2 DEF Permitted, IsFlow, FlowTypes
    <3> QED
      BY <1>1, <2>2, <3>3 DEF Open
  <2> QED
    BY <1>1, <2>1, <2>2
<1>5. \A x \in Orders \ {o} : rows'[x] = rows[x] /\ status'[x] = status[x]
  BY <1>0, <1>1 DEF OrdersInv
<1> QED
  BY <1>1, <1>3, <1>4, <1>5 DEF SentInv

(* An order is cancelled only when it has sent nothing.                    *)
LEMMA CancelUnsent ==
    ASSUME OrdersInv, NEW w \in Workers, CommitCancel(w)
    PROVE  /\ call[w].order \in Orders
           /\ \A m \in DOMAIN rows[call[w].order] : rows[call[w].order][m].dispatched = 0
           /\ \A x \in Orders : status'[x] = IF x = call[w].order THEN "cancelled" ELSE status[x]
<1> DEFINE o == call[w].order
<1>1. /\ o \in Orders /\ call[w].kind = "cancel" /\ pc[w] = "materials"
      /\ status' = [status EXCEPT ![o] = "cancelled"]
  BY DEF CommitCancel, OrdersInv, CallOK, OrderKinds
<1>2. HoldsOrder(w, o)
  BY <1>1 DEF HoldsOrder
<1>3. Permitted(call[w], snap[w]) /\ snap[w].rows = rows[o]
  BY <1>1, <1>2 DEF OrdersInv, SnapFresh, OrderRow
<1>4. \A m \in DOMAIN rows[o] : rows[o][m].dispatched = 0
  BY <1>1, <1>3 DEF Permitted, IsFlow, FlowTypes
<1>5. \A x \in Orders : status'[x] = IF x = o THEN "cancelled" ELSE status[x]
  BY <1>1 DEF OrdersInv
<1> QED
  BY <1>1, <1>4, <1>5

LEMMA SentCancel ==
    ASSUME FullInv, SentInv, NEW w \in Workers, CommitCancel(w)
    PROVE  SentInv'
<1>1. UNCHANGED <<rows, moves>>
  BY DEF CommitCancel
<1> QED
  BY <1>1, CancelUnsent DEF FullInv, SentInv

LEMMA SentStep ==
    ASSUME FullInv, FullInv', SentInv, [Next]_vars
    PROVE  SentInv'
<1>1. CASE UNCHANGED <<moves, rows, status>>
  BY <1>1 DEF SentInv
<1>2. ASSUME NEW w \in Workers, Start(w) \/ Crash(w) PROVE SentInv'
  <2>1. UNCHANGED <<moves, rows, status>>
    BY <1>2 DEF Start, StartFlow, StartCreate, StartOrderCall, StartTransaction, Crash
  <2> QED
    BY <1>1, <2>1
<1>3. ASSUME NEW w \in Workers, Step(w) PROVE SentInv'
  <2>1. CASE \/ LockOrder(w) \/ RefuseOrder(w) \/ \E m \in Materials : LockMaterial(w, m)
             \/ RefuseFlow(w) \/ ReadOthers(w) \/ CommitTransaction(w) \/ AnswerTransaction(w)
    <3>1. UNCHANGED <<moves, rows, status>>
      BY <2>1 DEF LockOrder, RefuseOrder, LockMaterial, RefuseFlow, ReadOthers,
                  CommitTransaction, AnswerTransaction, flowVars
    <3> QED
      BY <1>1, <3>1
  <2> QED
    BY <1>3, <2>1, SentFlow, SentReserve, SentCancel DEF Step
<1> QED
  BY <1>1, <1>2, <1>3 DEF Next, vars

LEMMA SentInvariant == Spec => []SentInv
<1>1. Init => SentInv
  BY DEF Init, SentInv
<1>2. FullInv /\ FullInv' /\ SentInv /\ [Next]_vars => SentInv'
  BY SentStep
<1> QED
  BY <1>1, <1>2, FullInvariant, PTL DEF Spec

(* Dispatch and cancellation of one order exclude each other: whatever the *)
(* interleaving, no goods were ever sent for an order that is cancelled.   *)
THEOREM CancellationSafe == Spec => []CancelledSentNothing
<1>1. SentInv => CancelledSentNothing
  BY DEF SentInv, CancelledSentNothing
<1> QED
  BY <1>1, SentInvariant, PTL

-----------------------------------------------------------------------------
(* The ledger and the counters *)

EntryTyped(e) ==
    e.type \in TxTypes /\ e.loc \in Locations /\ e.qty \in Int

(* An entry of the material flow belongs to a movement on record.          *)
EntryMoved(e, all) ==
    \A o, kind, key, m : e.source = <<"movement", o, kind, key, m>> =>
        \E v \in all : v.order = o /\ v.kind = kind /\ v.key = key /\ v.mat = m

BooksInv ==
    /\ IsFiniteSet(ledger)
    /\ \A e \in ledger : EntryTyped(e) /\ EntryMoved(e, moves)
    /\ LedgerExplainsBalance

LEMMA PostingInt ==
    ASSUME NEW e, EntryTyped(e), NEW a \in Accounts
    PROVE  Posting(e, a) \in Int
<1>1. \A b \in DOMAIN Delta(e.type, e.loc, e.qty) : Delta(e.type, e.loc, e.qty)[b] \in Int
  BY DEF EntryTyped, Delta, TxTypes, Locations
<1> QED
  BY <1>1 DEF Posting

(* The session posts to the counters as they are: each one changes by what *)
(* the entry says.                                                         *)
LEMMA PostedByEntry ==
    ASSUME NEW cur \in Balance, NEW e, EntryTyped(e), NEW a \in Accounts
    PROVE  Posted(cur, cur, e.type, e.loc, e.qty)[a] = cur[a] + Posting(e, a)
  BY DEF Posted, Posting, Balance

(* One more entry, and what it does to a counter.                          *)
LEMMA OneMoreEntry ==
    ASSUME NEW m, IsFiniteSet(EntriesOf(m)), NEW e, e \notin EntriesOf(m),
           EntriesOf(m)' = EntriesOf(m) \cup {e},
           \A f \in EntriesOf(m)' : EntryTyped(f),
           NEW a \in Accounts,
           Explained(m, a), bal[m][a] \in Int, OpeningBalance(m)[a] \in Int,
           bal'[m][a] = bal[m][a] + Posting(e, a)
    PROVE  Explained(m, a)'
<1> DEFINE D == EntriesOf(m)
<1> DEFINE up == [x \in D \cup {e} |-> Added(x, a)]
<1> DEFINE down == [x \in D \cup {e} |-> Taken(x, a)]
<1>1. \A x \in D \cup {e} : Posting(x, a) \in Int
  BY PostingInt
<1>2. up \in [D \cup {e} -> Nat] /\ down \in [D \cup {e} -> Nat]
  BY <1>1 DEF Added, Taken
<1>3. Credits(m, a)' = Total(up) /\ Debits(m, a)' = Total(down)
  BY DEF Credits, Debits
<1>4. [y \in D |-> up[y]] = [y \in D |-> Added(y, a)] /\ [y \in D |-> down[y]] = [y \in D |-> Taken(y, a)]
  OBVIOUS
<1>5. up[e] = Added(e, a) /\ down[e] = Taken(e, a)
  OBVIOUS
<1>6. [y \in D |-> up[y]] \in [D -> Nat] /\ [y \in D |-> down[y]] \in [D -> Nat]
  BY <1>2
<1> HIDE DEF up, down
<1>7. Total(up) = Credits(m, a) + Added(e, a) /\ Total(down) = Debits(m, a) + Taken(e, a)
  BY <1>2, <1>4, <1>5, TotalAdded DEF Credits, Debits
<1>8. Credits(m, a) \in Nat /\ Debits(m, a) \in Nat
  BY <1>4, <1>6, TotalNat DEF Credits, Debits
<1>9. Added(e, a) - Taken(e, a) = Posting(e, a) /\ Added(e, a) \in Nat /\ Taken(e, a) \in Nat
  BY <1>1 DEF Added, Taken
<1>10. bal'[m][a] = OpeningBalance(m)[a] + Credits(m, a)' - Debits(m, a)'
  BY <1>1, <1>3, <1>7, <1>8, <1>9 DEF Explained
<1> QED
  BY <1>10 DEF Explained

LEMMA SameEntries ==
    ASSUME NEW m, NEW a, EntriesOf(m)' = EntriesOf(m), bal'[m] = bal[m], Explained(m, a)
    PROVE  Explained(m, a)'
  BY DEF Explained, Credits, Debits

LEMMA OpeningTyped ==
    ASSUME NEW m \in Materials, NEW a \in Accounts
    PROVE  OpeningBalance(m)[a] \in Int
  BY LedgerAssumption DEF OpeningBalance

LEMMA BooksFlow ==
    ASSUME FullInv, BooksInv, NEW w \in Workers, CommitFlow(w)
    PROVE  BooksInv'
<1> DEFINE c == call[w]
<1> DEFINE E(m) == MovementEntry(c, m)
<1>0. LocksInv /\ OrdersInv /\ FlowInv
  BY DEF FullInv
<1>1. /\ c.kind \in FlowTypes
      /\ \A m \in DOMAIN c.items : c.items[m] \in Quantity
  BY <1>0, CommitFlowRows
<1>2. /\ ledger' = ledger \cup {E(m) : m \in DOMAIN c.items}
      /\ moves' = moves \cup {Movement(c, m) : m \in DOMAIN c.items}
      /\ NoDuplicate(c)
  BY DEF CommitFlow, FlowAllowed
<1>3. /\ DOMAIN c.items \subseteq Materials
      /\ bal' = [m \in Materials |->
            IF m \in DOMAIN c.items
            THEN Posted(bal[m], bal[m], TxType(c.kind), "factory", c.items[m])
            ELSE bal[m]]
  BY <1>0, CommitFlowCounters
<1>4. \A m \in DOMAIN c.items :
        /\ E(m).source = <<"movement", c.order, c.kind, c.key, m>> /\ E(m).mat = m
        /\ E(m).type = TxType(c.kind) /\ E(m).loc = "factory" /\ E(m).qty = c.items[m]
  BY DEF MovementEntry
<1>5. \A m \in DOMAIN c.items : EntryTyped(E(m))
  BY <1>1, <1>4 DEF EntryTyped, TxType, TxTypes, FlowTypes, Locations, Quantity
<1>6. \A m \in DOMAIN c.items : E(m) \notin ledger
  <2> SUFFICES ASSUME NEW m \in DOMAIN c.items, E(m) \in ledger PROVE FALSE
    OBVIOUS
  <2>1. PICK v \in moves : v.order = c.order /\ v.kind = c.kind /\ v.key = c.key /\ v.mat = m
    BY <1>4 DEF BooksInv, EntryMoved
  <2> QED
    BY <1>2, <2>1 DEF NoDuplicate, SameKey
<1>7. \A m \in DOMAIN c.items : EntryMoved(E(m), moves')
  <2> SUFFICES ASSUME NEW m \in DOMAIN c.items, NEW o, NEW kind, NEW key, NEW n,
                      E(m).source = <<"movement", o, kind, key, n>>
               PROVE  \E v \in moves' : v.order = o /\ v.kind = kind /\ v.key = key /\ v.mat = n
    BY DEF EntryMoved
  <2>1. o = c.order /\ kind = c.kind /\ key = c.key /\ n = m
    BY <1>4
  <2>2. Movement(c, m) \in moves'
    BY <1>2
  <2> QED
    BY <2>1, <2>2 DEF Movement
<1>8. \A e \in ledger : EntryMoved(e, moves')
  BY <1>2 DEF BooksInv, EntryMoved
<1>9. \A e \in ledger' : EntryTyped(e) /\ EntryMoved(e, moves')
  BY <1>2, <1>5, <1>7, <1>8 DEF BooksInv
<1>10. IsFiniteSet(ledger')
  <2>1. IsFiniteSet(DOMAIN c.items)
    BY <1>3, LedgerAssumption, FS_Subset
  <2> DEFINE f == [m \in DOMAIN c.items |-> E(m)]
  <2>2. IsFiniteSet({f[m] : m \in DOMAIN c.items})
    BY <2>1, ImageFinite
  <2>3. {f[m] : m \in DOMAIN c.items} = {E(m) : m \in DOMAIN c.items}
    OBVIOUS
  <2> QED
    BY <1>2, <2>2, <2>3, FS_Union DEF BooksInv
<1> HIDE DEF E
<1>11. ASSUME NEW m \in Materials, NEW a \in Accounts PROVE Explained(m, a)'
  <2>1. Explained(m, a) /\ bal[m] \in Balance /\ bal[m][a] \in Int
    BY <1>0 DEF BooksInv, LedgerExplainsBalance, FlowInv, Balance
  <2>2. CASE m \in DOMAIN c.items
    <3>1. EntriesOf(m)' = EntriesOf(m) \cup {E(m)}
      BY <1>2, <1>4, <2>2 DEF EntriesOf
    <3>2. IsFiniteSet(EntriesOf(m)) /\ E(m) \notin EntriesOf(m)
      BY <1>6, <2>2, FS_Subset DEF BooksInv, EntriesOf
    <3>3. \A f \in EntriesOf(m)' : EntryTyped(f)
      BY <1>9 DEF EntriesOf
    <3>4. bal'[m] = Posted(bal[m], bal[m], E(m).type, E(m).loc, E(m).qty)
      BY <1>3, <1>4, <2>2
    <3>5. bal'[m][a] = bal[m][a] + Posting(E(m), a)
      BY <1>5, <2>1, <2>2, <3>4, PostedByEntry
    <3> QED
      BY <2>1, <3>1, <3>2, <3>3, <3>5, OpeningTyped, OneMoreEntry
  <2>3. CASE m \notin DOMAIN c.items
    <3>1. EntriesOf(m)' = EntriesOf(m)
      BY <1>2, <1>4, <2>3 DEF EntriesOf
    <3>2. bal'[m] = bal[m]
      BY <1>3, <2>3
    <3> QED
      BY <2>1, <3>1, <3>2, SameEntries
  <2> QED
    BY <2>2, <2>3
<1> QED
  BY <1>9, <1>10, <1>11 DEF BooksInv, LedgerExplainsBalance

LEMMA BooksTransaction ==
    ASSUME FullInv, BooksInv, NEW w \in Workers, CommitTransaction(w)
    PROVE  BooksInv'
<1> DEFINE t == call[w]
<1> DEFINE e == TxEntry(t)
<1>0. LocksInv /\ OrdersInv /\ FlowInv
  BY DEF FullInv
<1>1. /\ t.kind = "transaction" /\ ToLock(w) = {} /\ ~Registered(t)
      /\ ledger' = ledger \cup {e} /\ moves' = moves
      /\ bal' = [bal EXCEPT ![t.mat] = Posted(bal[t.mat], view[w][t.mat], t.type, t.loc, t.qty)]
  BY DEF CommitTransaction
<1>2. t \in Transactions
  BY <1>0, <1>1 DEF OrdersInv, CallOK
<1>3. t.mat \in DOMAIN view[w]
  BY <1>1 DEF ToLock, Wanted, IsFlow, IsReserve, FlowTypes
<1>4. t.mat \in Materials /\ t.type \in TxTypes /\ t.loc \in Locations /\ t.qty \in Int
  BY <1>2, FlowAssumption
<1>5. bal[t.mat] \in Balance /\ view[w][t.mat] = bal[t.mat]
  BY <1>0, <1>3, <1>4 DEF LocksInv, NoStaleView, FlowInv
<1>6. /\ e.source = <<"request", t.key>> /\ e.mat = t.mat /\ e.type = t.type
      /\ e.loc = t.loc /\ e.qty = t.qty
  BY DEF TxEntry
<1>7. e \notin ledger
  BY <1>1, <1>6 DEF Registered
<1>8. EntryTyped(e)
  BY <1>4, <1>6 DEF EntryTyped
<1> HIDE DEF e
<1>9. EntryMoved(e, moves')
  <2> SUFFICES ASSUME NEW o, NEW kind, NEW key, NEW n,
                      e.source = <<"movement", o, kind, key, n>>
               PROVE  FALSE
    BY DEF EntryMoved
  <2>1. e.source[1] = "movement" /\ e.source[1] = "request"
    BY <1>6
  <2> QED
    BY <2>1
<1>10. \A f \in ledger : EntryMoved(f, moves')
  BY <1>1 DEF BooksInv, EntryMoved
<1>11. \A f \in ledger' : EntryTyped(f) /\ EntryMoved(f, moves')
  BY <1>1, <1>8, <1>9, <1>10 DEF BooksInv
<1>12. IsFiniteSet(ledger')
  BY <1>1, FS_AddElement DEF BooksInv
<1>13. ASSUME NEW m \in Materials, NEW a \in Accounts PROVE Explained(m, a)'
  <2>1. Explained(m, a) /\ bal[m] \in Balance /\ bal[m][a] \in Int
    BY <1>0 DEF BooksInv, LedgerExplainsBalance, FlowInv, Balance
  <2>2. CASE m = t.mat
    <3>1. EntriesOf(m)' = EntriesOf(m) \cup {e}
      BY <1>1, <1>6, <2>2 DEF EntriesOf
    <3>2. IsFiniteSet(EntriesOf(m)) /\ e \notin EntriesOf(m)
      BY <1>7, FS_Subset DEF BooksInv, EntriesOf
    <3>3. \A f \in EntriesOf(m)' : EntryTyped(f)
      BY <1>11 DEF EntriesOf
    <3>4. bal'[m] = Posted(bal[m], bal[m], e.type, e.loc, e.qty)
      BY <1>0, <1>1, <1>4, <1>5, <1>6, <2>2 DEF FlowInv
    <3>5. bal'[m][a] = bal[m][a] + Posting(e, a)
      BY <1>8, <2>1, <3>4, PostedByEntry
    <3> QED
      BY <2>1, <3>1, <3>2, <3>3, <3>5, OpeningTyped, OneMoreEntry
  <2>3. CASE m # t.mat
    <3>1. EntriesOf(m)' = EntriesOf(m)
      BY <1>1, <1>6, <2>3 DEF EntriesOf
    <3>2. bal'[m] = bal[m]
      BY <1>0, <1>1, <2>3 DEF FlowInv
    <3> QED
      BY <2>1, <3>1, <3>2, SameEntries
  <2> QED
    BY <2>2, <2>3
<1> QED
  BY <1>11, <1>12, <1>13 DEF BooksInv, LedgerExplainsBalance

LEMMA BooksStep ==
    ASSUME FullInv, BooksInv, [Next]_vars
    PROVE  BooksInv'
<1>1. CASE UNCHANGED <<bal, ledger, moves>>
  <2>1. \A m, a : Explained(m, a)' <=> Explained(m, a)
    BY <1>1 DEF Explained, Credits, Debits, EntriesOf
  <2> QED
    BY <1>1, <2>1 DEF BooksInv, EntryMoved, LedgerExplainsBalance
<1>2. ASSUME NEW w \in Workers, Start(w) \/ Crash(w) PROVE BooksInv'
  <2>1. UNCHANGED <<bal, ledger, moves>>
    BY <1>2 DEF Start, StartFlow, StartCreate, StartOrderCall, StartTransaction, Crash, ledgerVars
  <2> QED
    BY <1>1, <2>1
<1>3. ASSUME NEW w \in Workers, Step(w) PROVE BooksInv'
  <2>1. CASE \/ LockOrder(w) \/ RefuseOrder(w) \/ \E m \in Materials : LockMaterial(w, m)
             \/ RefuseFlow(w) \/ ReadOthers(w) \/ CommitReserve(w) \/ CommitCancel(w)
             \/ AnswerTransaction(w)
    <3>1. UNCHANGED <<bal, ledger, moves>>
      BY <2>1 DEF LockOrder, RefuseOrder, LockMaterial, RefuseFlow, ReadOthers, CommitReserve,
                  CommitCancel, AnswerTransaction, flowVars, ledgerVars
    <3> QED
      BY <1>1, <3>1
  <2> QED
    BY <1>3, <2>1, BooksFlow, BooksTransaction DEF Step
<1> QED
  BY <1>1, <1>2, <1>3 DEF Next, vars

LEMMA NothingTotal ==
    ASSUME NEW f, DOMAIN f = {}
    PROVE  Total(f) = 0
<1>1. Units(f) = {}
  BY DEF Units
<1> QED
  BY <1>1, FS_EmptySet DEF Total

LEMMA BooksInit == Init => BooksInv
<1> SUFFICES ASSUME Init PROVE BooksInv
  OBVIOUS
<1>1. ledger = {} /\ IsFiniteSet(ledger)
  BY FS_EmptySet DEF Init, LedgerInit
<1>2. ASSUME NEW m \in Materials, NEW a \in Accounts PROVE Explained(m, a)
  <2>1. EntriesOf(m) = {}
    BY <1>1 DEF EntriesOf
  <2>2. Credits(m, a) = 0 /\ Debits(m, a) = 0
    BY <2>1, NothingTotal DEF Credits, Debits
  <2>3. bal[m][a] = OpeningBalance(m)[a] /\ OpeningBalance(m)[a] \in Int
    BY OpeningTyped DEF Init, LedgerInit
  <2> QED
    BY <2>2, <2>3 DEF Explained
<1> QED
  BY <1>1, <1>2 DEF BooksInv, LedgerExplainsBalance

(* Every change of a stock counter left its entry: the counters are the    *)
(* opening stock plus the ledger, whatever the sessions, retries and       *)
(* crashes.                                                                *)
THEOREM LedgerComplete == Spec => []LedgerExplainsBalance
<1>1. FullInv /\ BooksInv /\ [Next]_vars => BooksInv'
  BY BooksStep
<1>2. BooksInv => LedgerExplainsBalance
  BY DEF BooksInv
<1> QED
  BY <1>1, <1>2, BooksInit, FullInvariant, PTL DEF Spec

-----------------------------------------------------------------------------
(* Movements and the counters of the reservations *)

MovesOf(o, m, kind) == {u \in moves : u.order = o /\ u.mat = m /\ u.kind = kind}

MovesInv ==
    /\ IsFiniteSet(moves)
    /\ \A v \in moves : v.qty \in Nat
    /\ CountersMatchMovements

LEMMA MovedQtyNat ==
    ASSUME MovesInv, NEW o, NEW m, NEW kind
    PROVE  MovedQty(o, m, kind) \in Nat
<1> DEFINE f == [v \in MovesOf(o, m, kind) |-> v.qty]
<1>1. IsFiniteSet(MovesOf(o, m, kind))
  BY FS_Subset DEF MovesInv, MovesOf
<1>2. f \in [MovesOf(o, m, kind) -> Nat]
  BY DEF MovesInv, MovesOf
<1>3. MovedQty(o, m, kind) = Total(f)
  BY DEF MovedQty, MovesOf
<1> HIDE DEF f
<1> QED
  BY <1>1, <1>2, <1>3, TotalNat

(* A movement that is new adds its quantity to what its row has moved.     *)
LEMMA OneMoreMovement ==
    ASSUME MovesInv, NEW o, NEW m, NEW kind, NEW v, v \notin moves, v.qty \in Nat,
           MovesOf(o, m, kind)' = MovesOf(o, m, kind) \cup {v}
    PROVE  MovedQty(o, m, kind)' = MovedQty(o, m, kind) + v.qty
<1> DEFINE D == MovesOf(o, m, kind)
<1> DEFINE f == [u \in D \cup {v} |-> u.qty]
<1>1. IsFiniteSet(D) /\ v \notin D
  BY FS_Subset DEF MovesInv, MovesOf
<1>2. f \in [D \cup {v} -> Nat]
  BY DEF MovesInv, MovesOf
<1>3. MovedQty(o, m, kind)' = Total(f)
  BY DEF MovedQty, MovesOf
<1>4. MovedQty(o, m, kind) = Total([u \in D |-> f[u]])
  <2>1. [u \in D |-> f[u]] = [u \in D |-> u.qty]
    OBVIOUS
  <2> QED
    BY <2>1 DEF MovedQty, MovesOf
<1>5. f[v] = v.qty
  OBVIOUS
<1> HIDE DEF f, D
<1> QED
  BY <1>1, <1>2, <1>3, <1>4, <1>5, TotalAdded

LEMMA SameMovements ==
    ASSUME NEW o, NEW m, NEW kind, MovesOf(o, m, kind)' = MovesOf(o, m, kind)
    PROVE  MovedQty(o, m, kind)' = MovedQty(o, m, kind)
  BY DEF MovedQty, MovesOf

(* The counter of a row that a kind of movement advances.                  *)
Counter(row, kind) ==
    CASE kind = "dispatch" -> row.dispatched
      [] kind = "factory_receive" -> row.received
      [] kind = "consume" -> row.consumed

LEMMA CountersByKind ==
    CountersMatchMovements <=>
        \A o \in Orders : \A m \in DOMAIN rows[o] : \A kind \in FlowTypes :
            Counter(rows[o][m], kind) = MovedQty(o, m, kind)
  BY DEF CountersMatchMovements, Counter, FlowTypes

LEMMA AdvanceCounts ==
    ASSUME NEW row \in Row, NEW kind \in FlowTypes, NEW qty \in Int, NEW k \in FlowTypes
    PROVE  Counter(Advance(kind, row, row, qty), k) =
             IF k = kind THEN Counter(row, k) + qty ELSE Counter(row, k)
<1>1. CASE kind = "dispatch"
  <2>1. /\ Advance(kind, row, row, qty).dispatched = row.dispatched + qty
        /\ Advance(kind, row, row, qty).received = row.received
        /\ Advance(kind, row, row, qty).consumed = row.consumed
    BY <1>1 DEF Advance, Row
  <2> QED
    BY <1>1, <2>1 DEF Counter, FlowTypes
<1>2. CASE kind = "factory_receive"
  <2>1. /\ Advance(kind, row, row, qty).dispatched = row.dispatched
        /\ Advance(kind, row, row, qty).received = row.received + qty
        /\ Advance(kind, row, row, qty).consumed = row.consumed
    BY <1>2 DEF Advance, Row
  <2> QED
    BY <1>2, <2>1 DEF Counter, FlowTypes
<1>3. CASE kind = "consume"
  <2>1. /\ Advance(kind, row, row, qty).dispatched = row.dispatched
        /\ Advance(kind, row, row, qty).received = row.received
        /\ Advance(kind, row, row, qty).consumed = row.consumed + qty
    BY <1>3 DEF Advance, Row
  <2> QED
    BY <1>3, <2>1 DEF Counter, FlowTypes
<1> QED
  BY <1>1, <1>2, <1>3 DEF FlowTypes

LEMMA MovesFlow ==
    ASSUME FullInv, MovesInv, NEW w \in Workers, CommitFlow(w)
    PROVE  MovesInv'
<1> DEFINE c == call[w]
<1>0. LocksInv /\ OrdersInv /\ FlowInv
  BY DEF FullInv
<1>1. /\ c.kind \in FlowTypes /\ c.order \in Orders
      /\ \A x \in Orders : DOMAIN rows'[x] = DOMAIN rows[x]
      /\ \A x \in Orders \ {c.order} : rows'[x] = rows[x]
      /\ \A m \in DOMAIN rows[c.order] :
            rows'[c.order][m] =
              IF m \in DOMAIN c.items
              THEN Advance(c.kind, rows[c.order][m], rows[c.order][m], c.items[m])
              ELSE rows[c.order][m]
      /\ \A m \in DOMAIN c.items : c.items[m] \in Nat
  BY <1>0, CommitFlowRows DEF Quantity
<1>2. /\ moves' = moves \cup {Movement(c, m) : m \in DOMAIN c.items}
      /\ NoDuplicate(c)
  BY DEF CommitFlow, FlowAllowed
<1>3. \A m : /\ Movement(c, m).order = c.order /\ Movement(c, m).kind = c.kind
             /\ Movement(c, m).key = c.key /\ Movement(c, m).mat = m
             /\ Movement(c, m).qty = c.items[m]
  BY DEF Movement
<1>4. \A m \in DOMAIN c.items : Movement(c, m) \notin moves
  BY <1>2, <1>3 DEF NoDuplicate, SameKey
<1>5. IsFiniteSet(moves')
  <2> DEFINE f == [m \in DOMAIN c.items |-> Movement(c, m)]
  <2>1. IsFiniteSet(DOMAIN c.items)
    BY <1>0, CommitFlowCounters, LedgerAssumption, FS_Subset
  <2>2. IsFiniteSet({f[m] : m \in DOMAIN c.items})
    BY <2>1, ImageFinite
  <2>3. {f[m] : m \in DOMAIN c.items} = {Movement(c, m) : m \in DOMAIN c.items}
    OBVIOUS
  <2> QED
    BY <1>2, <2>2, <2>3, FS_Union DEF MovesInv
<1>6. \A v \in moves' : v.qty \in Nat
  BY <1>1, <1>2, <1>3 DEF MovesInv
<1>7. ASSUME NEW o \in Orders, NEW m \in DOMAIN rows'[o], NEW k \in FlowTypes
      PROVE  Counter(rows'[o][m], k) = MovedQty(o, m, k)'
  <2>1. m \in DOMAIN rows[o] /\ Counter(rows[o][m], k) = MovedQty(o, m, k)
    BY <1>1, CountersByKind DEF MovesInv
  <2>2. rows[o][m] \in Row /\ MovedQty(o, m, k) \in Nat
    BY <1>0, <2>1, MovedQtyNat DEF FlowInv, RowsTyped
  <2>3. CASE o = c.order /\ m \in DOMAIN c.items
    <3>1. Counter(rows'[o][m], k) =
            IF k = c.kind THEN MovedQty(o, m, k) + c.items[m] ELSE MovedQty(o, m, k)
      BY <1>1, <2>1, <2>2, <2>3, AdvanceCounts
    <3>2. CASE k = c.kind
      <4>1. MovesOf(o, m, k)' = MovesOf(o, m, k) \cup {Movement(c, m)}
        BY <1>2, <1>3, <2>3, <3>2 DEF MovesOf
      <4>2. MovedQty(o, m, k)' = MovedQty(o, m, k) + Movement(c, m).qty
        BY <1>1, <1>3, <1>4, <2>3, <4>1, OneMoreMovement
      <4> QED
        BY <1>3, <3>1, <3>2, <4>2
    <3>3. CASE k # c.kind
      <4>1. MovesOf(o, m, k)' = MovesOf(o, m, k)
        BY <1>2, <1>3, <3>3 DEF MovesOf
      <4> QED
        BY <3>1, <3>3, <4>1, SameMovements
    <3> QED
      BY <3>2, <3>3
  <2>4. CASE ~(o = c.order /\ m \in DOMAIN c.items)
    <3>1. rows'[o][m] = rows[o][m]
      BY <1>1, <2>1, <2>4
    <3>2. MovesOf(o, m, k)' = MovesOf(o, m, k)
      BY <1>2, <1>3, <2>4 DEF MovesOf
    <3> QED
      BY <2>1, <3>1, <3>2, SameMovements
  <2> QED
    BY <2>3, <2>4
<1>8. CountersMatchMovements'
  <2>1. \A o \in Orders : \A m \in DOMAIN rows'[o] :
          /\ rows'[o][m].dispatched = MovedQty(o, m, "dispatch")'
          /\ rows'[o][m].received = MovedQty(o, m, "factory_receive")'
          /\ rows'[o][m].consumed = MovedQty(o, m, "consume")'
    BY <1>7 DEF FlowTypes, Counter
  <2> QED
    BY <2>1 DEF CountersMatchMovements
<1> QED
  BY <1>5, <1>6, <1>8 DEF MovesInv

LEMMA MovesReserve ==
    ASSUME FullInv, SentInv, MovesInv, NEW w \in Workers, CommitReserve(w)
    PROVE  MovesInv'
<1> DEFINE o == call[w].order
<1>0. OrdersInv
  BY DEF FullInv
<1>1. /\ moves' = moves
      /\ rows' = [rows EXCEPT ![o] = [m \in MaterialsOf(o) |-> FreshRow(w, o, m)]]
  BY DEF CommitReserve
<1>2. \A x \in Orders : rows'[x] =
        IF x = o THEN [m \in MaterialsOf(o) |-> FreshRow(w, o, m)] ELSE rows[x]
  BY <1>0, <1>1 DEF OrdersInv
<1>3. \A x, m, k : MovedQty(x, m, k)' = MovedQty(x, m, k)
  BY <1>1 DEF MovedQty
<1>4. \A m, k : MovedQty(o, m, k) = 0
  <2> SUFFICES ASSUME NEW m, NEW k PROVE MovedQty(o, m, k) = 0
    OBVIOUS
  <2>1. MovesOf(o, m, k) = {}
    BY ReserveUnmoved DEF MovesOf
  <2> QED
    BY <2>1, NothingTotal DEF MovedQty, MovesOf
<1>5. CountersMatchMovements'
  <2> SUFFICES ASSUME NEW x \in Orders, NEW m \in DOMAIN rows'[x]
               PROVE  /\ rows'[x][m].dispatched = MovedQty(x, m, "dispatch")
                      /\ rows'[x][m].received = MovedQty(x, m, "factory_receive")
                      /\ rows'[x][m].consumed = MovedQty(x, m, "consume")
    BY <1>3 DEF CountersMatchMovements
  <2>1. CASE x = o
    <3>1. rows'[x][m] = FreshRow(w, o, m)
      BY <1>2, <2>1
    <3> QED
      BY <1>4, <2>1, <3>1 DEF FreshRow
  <2>2. CASE x # o
    BY <1>2, <2>2 DEF MovesInv, CountersMatchMovements
  <2> QED
    BY <2>1, <2>2
<1> QED
  BY <1>1, <1>5 DEF MovesInv

LEMMA MovesStep ==
    ASSUME FullInv, SentInv, MovesInv, [Next]_vars
    PROVE  MovesInv'
<1>1. CASE UNCHANGED <<moves, rows>>
  BY <1>1 DEF MovesInv, CountersMatchMovements, MovedQty
<1>2. ASSUME NEW w \in Workers, Start(w) \/ Crash(w) PROVE MovesInv'
  <2>1. UNCHANGED <<moves, rows>>
    BY <1>2 DEF Start, StartFlow, StartCreate, StartOrderCall, StartTransaction, Crash
  <2> QED
    BY <1>1, <2>1
<1>3. ASSUME NEW w \in Workers, Step(w) PROVE MovesInv'
  <2>1. CASE \/ LockOrder(w) \/ RefuseOrder(w) \/ \E m \in Materials : LockMaterial(w, m)
             \/ RefuseFlow(w) \/ ReadOthers(w) \/ CommitCancel(w)
             \/ CommitTransaction(w) \/ AnswerTransaction(w)
    <3>1. UNCHANGED <<moves, rows>>
      BY <2>1 DEF LockOrder, RefuseOrder, LockMaterial, RefuseFlow, ReadOthers, CommitCancel,
                  CommitTransaction, AnswerTransaction, flowVars
    <3> QED
      BY <1>1, <3>1
  <2> QED
    BY <1>3, <2>1, MovesFlow, MovesReserve DEF Step
<1> QED
  BY <1>1, <1>2, <1>3 DEF Next, vars

(* What a reservation says was dispatched, received and consumed is the    *)
(* sum of its movements on record: none is lost or counted twice, whatever *)
(* the retries, crashes and rebuilds of the rows.                          *)
THEOREM CountersComplete == Spec => []CountersMatchMovements
<1>1. Init => MovesInv
  BY FS_EmptySet DEF Init, MovesInv, CountersMatchMovements
<1>2. FullInv /\ SentInv /\ MovesInv /\ [Next]_vars => MovesInv'
  BY MovesStep
<1>3. MovesInv => CountersMatchMovements
  BY DEF MovesInv
<1> QED
  BY <1>1, <1>2, <1>3, FullInvariant, SentInvariant, PTL DEF Spec

-----------------------------------------------------------------------------
(* Reservations and the stock they promise *)

(* What an order keeps of a consumable, if it is open.                     *)
Booked(m) == [o \in Orders |-> IF status[o] \in Open THEN ReservedBy(o, m) ELSE 0]
BookedElse(o, m) == [x \in Orders |-> IF x = o THEN 0 ELSE Booked(m)[x]]

LEMMA BookedNat ==
    ASSUME FlowInv, NEW m
    PROVE  /\ Booked(m) \in [Orders -> Nat]
           /\ \A o : BookedElse(o, m) \in [Orders -> Nat]
<1>1. \A o \in Orders : ReservedBy(o, m) \in Nat
  BY ReservedByNat DEF FlowInv
<1> QED
  BY <1>1 DEF Booked, BookedElse

BookedAdded ==
    \A m \in Materials :
        /\ OpenReserved(m) = Total(Booked(m)) /\ OpenReserved(m) \in Nat
        /\ Booked(m) \in [Orders -> Nat]

LEMMA OpenReservedTotal == FlowInv => BookedAdded
<1> SUFFICES ASSUME FlowInv, NEW m \in Materials
             PROVE  /\ OpenReserved(m) = Total(Booked(m)) /\ OpenReserved(m) \in Nat
                    /\ Booked(m) \in [Orders -> Nat]
  BY DEF BookedAdded
<1> DEFINE S == {x \in Orders : status[x] \in Open}
<1> DEFINE f == [o \in S |-> ReservedBy(o, m)]
<1>1. S \in SUBSET Orders /\ IsFiniteSet(Orders)
  BY FlowAssumption
<1>2. f \in [S -> Nat]
  BY ReservedByNat DEF FlowInv
<1>3. \A o \in Orders : Booked(m)[o] = IF o \in S THEN f[o] ELSE 0
  BY DEF Booked
<1>4. OpenReserved(m) = Total(f)
  BY DEF OpenReserved
<1> HIDE DEF f, S
<1> QED
  BY <1>1, <1>2, <1>3, <1>4, BookedNat, TotalPadded, TotalNat

OthersAdded ==
    \A o \in Orders : \A m \in Materials :
        /\ OtherReserved(o, m) = Total(BookedElse(o, m)) /\ OtherReserved(o, m) \in Nat
        /\ BookedElse(o, m) \in [Orders -> Nat]

LEMMA OtherReservedTotal == FlowInv => OthersAdded
<1> SUFFICES ASSUME FlowInv, NEW o \in Orders, NEW m \in Materials
             PROVE  /\ OtherReserved(o, m) = Total(BookedElse(o, m))
                    /\ OtherReserved(o, m) \in Nat
                    /\ BookedElse(o, m) \in [Orders -> Nat]
  BY DEF OthersAdded
<1> DEFINE S == {x \in Orders \ {o} : status[x] \in Open}
<1> DEFINE f == [x \in S |-> ReservedBy(x, m)]
<1>1. S \in SUBSET Orders /\ IsFiniteSet(Orders)
  BY FlowAssumption
<1>2. f \in [S -> Nat]
  BY ReservedByNat DEF FlowInv
<1>3. \A x \in Orders : BookedElse(o, m)[x] = IF x \in S THEN f[x] ELSE 0
  BY DEF Booked, BookedElse
<1>4. OtherReserved(o, m) = Total(f)
  BY DEF OtherReserved
<1>5. BookedElse(o, m) \in [Orders -> Nat]
  BY BookedNat
<1> HIDE DEF f, S
<1> QED
  BY <1>1, <1>2, <1>3, <1>4, <1>5, TotalPadded, TotalNat

(* The open reservations are those of one order and those of the others.   *)
LEMMA OneAndOthers ==
    ASSUME FlowInv, NEW o \in Orders, NEW m \in Materials
    PROVE  OpenReserved(m) = OtherReserved(o, m) + Booked(m)[o]
<1>1. \A y \in Orders \ {o} : Booked(m)[y] = BookedElse(o, m)[y]
  BY DEF BookedElse
<1>2. BookedElse(o, m)[o] = 0 /\ Booked(m)[o] \in Nat
  BY BookedNat DEF BookedElse
<1>3. /\ Booked(m) \in [Orders -> Nat] /\ BookedElse(o, m) \in [Orders -> Nat]
      /\ IsFiniteSet(Orders)
  BY BookedNat, FlowAssumption
<1>4. Total(Booked(m)) = Total(BookedElse(o, m)) + (Booked(m)[o] - BookedElse(o, m)[o])
  BY <1>1, <1>3, TotalChange
<1> QED
  BY <1>2, <1>4, OpenReservedTotal, OtherReservedTotal DEF BookedAdded, OthersAdded

LEMMA OpenStaysOpen ==
    ASSUME OrdersInv, NEW w \in Workers, CommitFlow(w)
    PROVE  /\ status[call[w].order] \in Open
           /\ \A x \in Orders : status'[x] \in Open <=> status[x] \in Open
<1> DEFINE p == call[w].order
<1>1. p \in Orders /\ HoldsOrder(w, p) /\ IsFlow(call[w])
  BY DEF CommitFlow, OrdersInv, CallOK, HoldsOrder, IsFlow, OrderKinds
<1>2. snap[w].status = status[p] /\ Permitted(call[w], snap[w])
  BY <1>1 DEF OrdersInv, SnapFresh, OrderRow
<1>3. status[p] \in Open
  BY <1>1, <1>2 DEF Permitted, IsFlow, FlowTypes
<1>4. status' = status \/ status' = [status EXCEPT ![p] = "confirmed"]
  BY DEF CommitFlow
<1> QED
  BY <1>3, <1>4 DEF OrdersInv, Open

(* The sessions that commit hold the consumables they want.                *)
LEMMA WantedHeld ==
    ASSUME FullInv, NEW w \in Workers,
           CommitFlow(w) \/ CommitReserve(w) \/ CommitCancel(w)
    PROVE  Wanted(call[w]) \subseteq DOMAIN view[w]
<1>1. CASE CommitFlow(w)
  BY <1>1 DEF CommitFlow, ToLock
<1>2. CASE CommitReserve(w)
  <2>1. pc[w] = "commit" /\ IsReserve(call[w])
    BY <1>2 DEF CommitReserve, FullInv, OrdersInv, CallOK
  <2>2. Wanted(call[w]) = MaterialsOf(call[w].order)
    BY <2>1 DEF Wanted, IsReserve, IsFlow, FlowTypes
  <2> QED
    BY <2>1, <2>2 DEF FullInv, FlowInv, OthersOK
<1>3. CASE CommitCancel(w)
  BY <1>3 DEF CommitCancel, Wanted, IsReserve, IsFlow, FlowTypes
<1> QED
  BY <1>1, <1>2, <1>3

(* A commit lowers the reservations of a consumable, or its session wanted *)
(* the consumable.                                                         *)
LEMMA BookedFalls ==
    ASSUME FullInv, NEW w \in Workers, NEW m \in Materials, m \notin Wanted(call[w]),
           CommitFlow(w) \/ CommitReserve(w) \/ CommitCancel(w)
    PROVE  \A o \in Orders : Booked(m)'[o] <= Booked(m)[o]
<1> DEFINE p == call[w].order
<1>0. LocksInv /\ OrdersInv /\ FlowInv /\ CallOK(w)
  BY DEF FullInv, OrdersInv
<1>1. \A o \in Orders : Booked(m)[o] \in Nat
  BY <1>0, BookedNat
<1> SUFFICES ASSUME NEW o \in Orders PROVE Booked(m)'[o] <= Booked(m)[o]
  OBVIOUS
<1>2. /\ Booked(m)[o] = (IF status[o] \in Open THEN ReservedBy(o, m) ELSE 0)
      /\ Booked(m)'[o] = (IF status'[o] \in Open THEN ReservedBy(o, m)' ELSE 0)
  BY DEF Booked
<1>3. CASE CommitFlow(w)
  <2>1. m \notin DOMAIN call[w].items
    BY <1>3, FlowWanted DEF CommitFlow
  <2>2. ReservedBy(o, m)' = ReservedBy(o, m)
    BY <1>0, <1>3, <2>1, CommitFlowRows DEF ReservedBy
  <2>3. status'[o] \in Open <=> status[o] \in Open
    BY <1>0, <1>3, OpenStaysOpen
  <2> QED
    BY <1>1, <1>2, <2>2, <2>3
<1>4. CASE CommitReserve(w)
  <2>1. /\ rows' = [rows EXCEPT ![p] = [n \in MaterialsOf(p) |-> FreshRow(w, p, n)]]
        /\ status' = IF call[w].kind = "create" THEN [status EXCEPT ![p] = "planned"] ELSE status
        /\ pc[w] = "commit"
    BY <1>4 DEF CommitReserve
  <2>2. m \notin MaterialsOf(p) /\ p \in Orders
    BY <1>0, <2>1 DEF CallOK, IsReserve, IsFlow, FlowTypes, Wanted, OrderKinds
  <2>3. CASE o = p
    <3>1. ReservedBy(o, m)' = 0
      BY <1>0, <2>1, <2>2, <2>3 DEF ReservedBy, OrdersInv
    <3> QED
      BY <1>1, <1>2, <3>1
  <2>4. CASE o # p
    <3>1. ReservedBy(o, m)' = ReservedBy(o, m) /\ status'[o] = status[o]
      BY <1>0, <2>1, <2>4 DEF ReservedBy, OrdersInv
    <3> QED
      BY <1>1, <1>2, <3>1
  <2> QED
    BY <2>3, <2>4
<1>5. CASE CommitCancel(w)
  <2>1. rows' = rows /\ status' = [status EXCEPT ![p] = "cancelled"]
    BY <1>5 DEF CommitCancel
  <2>2. ReservedBy(o, m)' = ReservedBy(o, m) /\ (status'[o] \in Open => status[o] \in Open)
    BY <1>0, <2>1 DEF ReservedBy, OrdersInv, Open
  <2> QED
    BY <1>1, <1>2, <2>2
<1> QED
  BY <1>3, <1>4, <1>5

(* What a session saw the other orders reserve of the consumables it holds *)
(* bounds what they reserve now.                                           *)
OthersCover ==
    \A w \in Workers : pc[w] = "commit" =>
        \A m \in MaterialsOf(call[w].order) :
            OtherReserved(call[w].order, m) <= others[w][m]

LEMMA CoverStep ==
    ASSUME FullInv, FullInv', OthersCover, [Next]_vars
    PROVE  OthersCover'
<1>0. LocksInv /\ OrdersInv /\ FlowInv /\ FlowInv' /\ IsFiniteSet(Orders)
  BY FlowAssumption DEF FullInv
(* Sessions that are about to commit and were so before. *)
<1>2. ASSUME UNCHANGED <<status, rows>>,
             \A x \in Workers : pc'[x] = "commit" =>
                 pc[x] = "commit" /\ call'[x] = call[x] /\ others'[x] = others[x]
      PROVE  OthersCover'
  <2>1. \A o, m : OtherReserved(o, m)' = OtherReserved(o, m)
    BY <1>2 DEF OtherReserved, ReservedBy
  <2> QED
    BY <1>2, <2>1 DEF OthersCover, MaterialsOf
<1>3. ASSUME NEW w \in Workers, Finish(w)
      PROVE  \A x \in Workers : pc'[x] = "commit" =>
                 x # w /\ pc[x] = "commit" /\ call'[x] = call[x] /\ others'[x] = others[x]
  BY <1>0, <1>3 DEF Finish, OrdersInv, FlowInv
<1>4. ASSUME NEW w \in Workers, Start(w) PROVE OthersCover'
  <2>1. /\ UNCHANGED <<status, rows, others>> /\ pc[w] = "idle"
        /\ \E l \in {"order", "materials"} : pc' = [pc EXCEPT ![w] = l]
        /\ \E c : call' = [call EXCEPT ![w] = c]
    BY <1>4 DEF Start, StartFlow, StartCreate, StartOrderCall, StartTransaction, Goto
  <2> QED
    BY <1>0, <1>2, <2>1 DEF OrdersInv
<1>5. ASSUME NEW w \in Workers,
             CommitFlow(w) \/ CommitReserve(w) \/ CommitCancel(w)
      PROVE  OthersCover'
  <2>1. Finish(w)
    BY <1>5 DEF CommitFlow, CommitReserve, CommitCancel
  <2> SUFFICES ASSUME NEW x \in Workers, pc'[x] = "commit", NEW o, o = call'[x].order,
                      NEW m \in MaterialsOf(o)
               PROVE  OtherReserved(o, m)' <= others'[x][m]
    BY DEF OthersCover, MaterialsOf
  <2>2. x # w /\ pc[x] = "commit" /\ call'[x] = call[x] /\ others'[x] = others[x]
    BY <1>3, <2>1
  <2>3. m \in DOMAIN view[x] /\ others[x][m] \in Nat /\ OtherReserved(o, m) <= others[x][m]
    BY <1>0, <2>2 DEF FlowInv, OthersOK, OthersCover
  <2>4. o \in Orders /\ m \in Materials
    BY <1>0, <2>2, <2>3 DEF OrdersInv, CallOK, IsReserve, OrderKinds, LocksInv
  <2>5. m \notin Wanted(call[w])
    BY <1>0, <1>5, <2>2, <2>3, <2>4, WantedHeld DEF LocksInv, ExclusiveRows
  <2>6. \A y \in Orders : Booked(m)'[y] <= Booked(m)[y]
    BY <1>5, <2>4, <2>5, BookedFalls
  <2>7. OthersAdded /\ OthersAdded'
    <3>1. FlowInv' => OthersAdded'
      BY OtherReservedTotal, PTL
    <3> QED
      BY <1>0, <3>1, OtherReservedTotal
  <2>8. /\ OtherReserved(o, m) = Total(BookedElse(o, m)) /\ OtherReserved(o, m) \in Nat
        /\ BookedElse(o, m) \in [Orders -> Nat]
        /\ OtherReserved(o, m)' = Total(BookedElse(o, m)') /\ OtherReserved(o, m)' \in Nat
        /\ BookedElse(o, m)' \in [Orders -> Nat]
    BY <2>4, <2>7 DEF OthersAdded
  <2>9. \A y \in Orders : BookedElse(o, m)'[y] <= BookedElse(o, m)[y]
    BY <2>6 DEF BookedElse
  <2>10. Total(BookedElse(o, m)') <= Total(BookedElse(o, m))
    BY <1>0, <2>8, <2>9, TotalMonotone
  <2> QED
    BY <2>2, <2>3, <2>8, <2>10
<1>6. ASSUME NEW w \in Workers, ReadOthers(w) PROVE OthersCover'
  <2>1. /\ UNCHANGED <<status, rows, call>>
        /\ others' = [others EXCEPT ![w] =
              [m \in MaterialsOf(call[w].order) |-> OtherReserved(call[w].order, m)]]
        /\ pc' = [pc EXCEPT ![w] = "commit"]
        /\ IsReserve(call[w]) /\ ToLock(w) = {}
    BY <1>6 DEF ReadOthers, Goto
  <2>2. \A o, m : OtherReserved(o, m)' = OtherReserved(o, m)
    BY <2>1 DEF OtherReserved, ReservedBy
  <2> SUFFICES ASSUME NEW x \in Workers, pc'[x] = "commit", NEW o, o = call[x].order,
                      NEW m \in MaterialsOf(o)
               PROVE  OtherReserved(o, m) <= others'[x][m]
    BY <2>1, <2>2 DEF OthersCover, MaterialsOf
  <2>3. CASE x = w
    <3>1. others'[x][m] = OtherReserved(o, m)
      BY <1>0, <2>1, <2>3 DEF FlowInv
    <3>2. o \in Orders
      BY <1>0, <2>1, <2>3 DEF OrdersInv, CallOK, IsReserve, OrderKinds
    <3>3. m \in Materials
      BY <3>2, FlowAssumption
    <3>4. OtherReserved(o, m) \in Nat
      BY <1>0, <3>2, <3>3, OtherReservedTotal DEF OthersAdded
    <3> QED
      BY <3>1, <3>4
  <2>4. CASE x # w
    BY <1>0, <2>1, <2>4 DEF OrdersInv, FlowInv, OthersCover
  <2> QED
    BY <2>3, <2>4
<1>7. ASSUME NEW w \in Workers, LockOrder(w) \/ \E m \in Materials : LockMaterial(w, m)
      PROVE  OthersCover'
  <2>1. /\ UNCHANGED <<status, rows, call, others>>
        /\ pc' = pc \/ pc' = [pc EXCEPT ![w] = "materials"]
    BY <1>7 DEF LockOrder, LockMaterial, flowVars, Goto
  <2> QED
    BY <1>0, <1>2, <2>1 DEF OrdersInv
<1>8. ASSUME NEW w \in Workers,
             \/ RefuseOrder(w) \/ RefuseFlow(w) \/ CommitTransaction(w)
             \/ AnswerTransaction(w) \/ Crash(w)
      PROVE  OthersCover'
  <2>1. Finish(w) /\ UNCHANGED <<status, rows>>
    BY <1>8 DEF RefuseOrder, RefuseFlow, CommitTransaction, AnswerTransaction, Crash
  <2> QED
    BY <1>2, <1>3, <2>1
<1>9. CASE UNCHANGED vars
  BY <1>2, <1>9 DEF vars
<1> QED
  BY <1>4, <1>5, <1>6, <1>7, <1>8, <1>9 DEF Next, Step

LEMMA CoverInvariant == Spec => []OthersCover
<1>1. Init => OthersCover
  BY DEF Init, OthersCover
<1>2. FullInv /\ FullInv' /\ OthersCover /\ [Next]_vars => OthersCover'
  BY CoverStep
<1> QED
  BY <1>1, <1>2, FullInvariant, PTL DEF Spec

(* What a posting of the material flow does to the own warehouse.          *)
LEMMA PostedOwn ==
    ASSUME NEW cur \in Balance, NEW kind \in FlowTypes, NEW qty \in Int
    PROVE  Posted(cur, cur, TxType(kind), "factory", qty)["own"] =
             IF kind = "dispatch" THEN cur["own"] - qty ELSE cur["own"]
<1> DEFINE d == Delta(TxType(kind), "factory", qty)
<1>0. "own" \in Accounts /\ cur["own"] \in Int
  BY DEF Accounts, Locations, Balance
<1>1. Posted(cur, cur, TxType(kind), "factory", qty)["own"] =
        IF "own" \in DOMAIN d THEN cur["own"] + d["own"] ELSE cur["own"]
  BY <1>0 DEF Posted
<1>2. CASE kind = "dispatch"
  <2>1. d = [own |-> -qty, transit |-> qty]
    BY <1>2 DEF Delta, TxType
  <2>2. "own" \in DOMAIN d /\ d["own"] = -qty
    BY <2>1
  <2> QED
    BY <1>0, <1>1, <1>2, <2>2
<1>3. CASE kind # "dispatch"
  <2>1. "own" \notin DOMAIN d
    BY <1>3 DEF Delta, TxType, FlowTypes
  <2> QED
    BY <1>1, <1>3, <2>1
<1> QED
  BY <1>2, <1>3

(* Reservations that fall take nothing from the stock.                     *)
LEMMA FallingFits ==
    ASSUME FlowInv, FlowInv', NEW m \in Materials, bal'[m]["own"] = bal[m]["own"],
           \A o \in Orders : Booked(m)'[o] <= Booked(m)[o]
    PROVE  OpenReserved(m)' - bal'[m]["own"] <= OpenReserved(m) - bal[m]["own"]
<1>1. FlowInv' => BookedAdded'
  BY OpenReservedTotal, PTL
<1>2. BookedAdded /\ BookedAdded'
  BY <1>1, OpenReservedTotal
<1>3. Total(Booked(m)') <= Total(Booked(m))
  BY <1>2, FlowAssumption, TotalMonotone DEF BookedAdded
<1>4. bal[m]["own"] \in Int
  BY DEF FlowInv, Balance, Accounts, Locations
<1> QED
  BY <1>2, <1>3, <1>4 DEF BookedAdded

(* A request that moves a consumable.                                      *)
LEMMA MovingFits ==
    ASSUME FullInv, FullInv', NEW w \in Workers, CommitFlow(w), NEW m \in DOMAIN call[w].items
    PROVE  OpenReserved(m)' - bal'[m]["own"] <= OpenReserved(m) - bal[m]["own"]
<1> DEFINE c == call[w]
<1> DEFINE p == c.order
<1> DEFINE q == c.items[m]
<1>0. LocksInv /\ OrdersInv /\ FlowInv /\ FlowInv'
  BY DEF FullInv
<1>1. /\ c.kind \in FlowTypes /\ p \in Orders /\ m \in DOMAIN rows[p] /\ q \in Int
      /\ \A x \in Orders : DOMAIN rows'[x] = DOMAIN rows[x]
      /\ \A x \in Orders \ {p} : rows'[x] = rows[x]
      /\ rows'[p][m] = Advance(c.kind, rows[p][m], rows[p][m], q)
  BY <1>0, CommitFlowRows DEF Quantity
<1>2. m \in Materials /\ bal[m] \in Balance
      /\ bal'[m] = Posted(bal[m], bal[m], TxType(c.kind), "factory", q)
  BY <1>0, CommitFlowCounters
<1>3. bal'[m]["own"] = IF c.kind = "dispatch" THEN bal[m]["own"] - q ELSE bal[m]["own"]
  BY <1>1, <1>2, PostedOwn
<1>4. status[p] \in Open /\ \A x \in Orders : status'[x] \in Open <=> status[x] \in Open
  BY <1>0, OpenStaysOpen
<1>5. rows[p][m] \in Row
  BY <1>0, <1>1 DEF FlowInv, RowsTyped
<1>6. rows'[p][m].reserved = IF c.kind = "dispatch" THEN rows[p][m].reserved - q
                             ELSE rows[p][m].reserved
  BY <1>1, <1>5 DEF Advance, Row, FlowTypes
<1>7. /\ Booked(m)[p] = rows[p][m].reserved /\ Booked(m)'[p] = rows'[p][m].reserved
      /\ \A x \in Orders \ {p} : Booked(m)'[x] = Booked(m)[x]
  BY <1>1, <1>4 DEF Booked, ReservedBy
<1>8. FlowInv' => BookedAdded'
  BY OpenReservedTotal, PTL
<1>9. BookedAdded /\ BookedAdded'
  BY <1>0, <1>8, OpenReservedTotal
<1>10. Total(Booked(m)') = Total(Booked(m)) + (Booked(m)'[p] - Booked(m)[p])
  BY <1>1, <1>2, <1>7, <1>9, FlowAssumption, TotalChange DEF BookedAdded
<1>11. bal[m]["own"] \in Int /\ rows[p][m].reserved \in Int
  BY <1>2, <1>5 DEF Balance, Accounts, Locations, Row
<1>12. OpenReserved(m) \in Nat /\ OpenReserved(m)' = OpenReserved(m) + (rows'[p][m].reserved - rows[p][m].reserved)
  BY <1>2, <1>7, <1>9, <1>10 DEF BookedAdded
<1> QED
  BY SMTT(30), <1>1, <1>3, <1>6, <1>11, <1>12

(* A request that reserves a consumable: it takes what the stock has left  *)
(* beyond what it saw the others reserve, which they still do at most.     *)
LEMMA ReservingFits ==
    ASSUME FullInv, FullInv', OthersCover, NEW w \in Workers, CommitReserve(w),
           NEW m \in MaterialsOf(call[w].order)
    PROVE  \/ OpenReserved(m)' <= bal'[m]["own"]
           \/ OpenReserved(m)' - bal'[m]["own"] <= OpenReserved(m) - bal[m]["own"]
<1> DEFINE p == call[w].order
<1> DEFINE mine == FreshRow(w, p, m).reserved
<1>0. LocksInv /\ OrdersInv /\ FlowInv /\ FlowInv' /\ CallOK(w)
  BY DEF FullInv, OrdersInv
<1>1. /\ pc[w] = "commit" /\ bal' = bal
      /\ rows' = [rows EXCEPT ![p] = [n \in MaterialsOf(p) |-> FreshRow(w, p, n)]]
      /\ status' = IF call[w].kind = "create" THEN [status EXCEPT ![p] = "planned"] ELSE status
  BY DEF CommitReserve
<1>2. p \in Orders /\ m \in DOMAIN view[w] /\ others[w][m] \in Nat
  BY <1>0, <1>1 DEF CallOK, IsReserve, OrderKinds, FlowInv, OthersOK
<1>3. m \in Materials /\ view[w][m] = bal[m] /\ bal[m]["own"] \in Int
  BY <1>0, <1>2 DEF LocksInv, NoStaleView, FlowInv, Balance, Accounts, Locations
<1>4. mine = Smaller(Required[p][m], Available(bal[m]["own"], others[w][m]))
  BY <1>3 DEF FreshRow
<1>5. Required[p][m] \in Nat
  BY <1>2, FlowAssumption DEF Quantity
<1>6. mine \in Nat /\ (mine > 0 => mine + others[w][m] <= bal[m]["own"])
  BY <1>2, <1>3, <1>4, <1>5 DEF Smaller, Available
<1>7. OtherReserved(p, m) <= others[w][m]
  BY <1>1 DEF OthersCover
<1>8. rows'[p] = [n \in MaterialsOf(p) |-> FreshRow(w, p, n)]
  BY <1>0, <1>1, <1>2 DEF OrdersInv
<1> HIDE DEF p, mine
<1>9. Booked(m)'[p] <= mine
  <2>1. rows'[p][m].reserved = mine /\ m \in DOMAIN rows'[p]
    BY <1>8 DEF p, mine
  <2> QED
    BY <1>2, <1>6, <2>1 DEF Booked, ReservedBy
<1>10. \A x \in Orders \ {p} : Booked(m)'[x] = Booked(m)[x]
  BY <1>0, <1>1 DEF Booked, ReservedBy, OrdersInv
<1>11. FlowInv' => BookedAdded'
  BY OpenReservedTotal, PTL
<1>12. BookedAdded /\ BookedAdded'
  BY <1>0, <1>11, OpenReservedTotal
<1>13. Total(Booked(m)') = Total(Booked(m)) + (Booked(m)'[p] - Booked(m)[p])
  BY <1>2, <1>3, <1>10, <1>12, FlowAssumption, TotalChange DEF BookedAdded
<1>14. OpenReserved(m) = OtherReserved(p, m) + Booked(m)[p] /\ OtherReserved(p, m) \in Nat
  BY <1>0, <1>2, <1>3, OneAndOthers, OtherReservedTotal DEF OthersAdded
<1>15. Booked(m)[p] \in Nat /\ Booked(m)'[p] \in Nat
  BY <1>2, <1>3, <1>12 DEF BookedAdded
<1>16. OpenReserved(m)' = OtherReserved(p, m) + Booked(m)'[p]
  BY <1>3, <1>12, <1>13, <1>14, <1>15 DEF BookedAdded
<1>17. CASE mine > 0
  BY <1>1, <1>2, <1>3, <1>6, <1>7, <1>9, <1>14, <1>15, <1>16, <1>17
<1>18. CASE mine = 0
  BY <1>1, <1>2, <1>3, <1>9, <1>14, <1>15, <1>16, <1>18
<1> QED
  BY <1>6, <1>17, <1>18

LEMMA OverbookingStep ==
    ASSUME FullInv, FullInv', OthersCover, [Next]_vars,
           ledger' = ledger \/ moves' # moves, NEW m \in Materials
    PROVE  \/ OpenReserved(m)' <= bal'[m]["own"]
           \/ OpenReserved(m)' - bal'[m]["own"] <= OpenReserved(m) - bal[m]["own"]
<1>0. OrdersInv /\ FlowInv /\ FlowInv'
  BY DEF FullInv
<1>1. ASSUME UNCHANGED <<status, rows, bal>>
      PROVE  OpenReserved(m)' - bal'[m]["own"] <= OpenReserved(m) - bal[m]["own"]
  <2>1. Booked(m)' = Booked(m)
    BY <1>1 DEF Booked, ReservedBy
  <2>2. \A o \in Orders : Booked(m)'[o] <= Booked(m)[o]
    BY <1>0, <2>1, BookedNat
  <2> QED
    BY <1>0, <1>1, <2>2, FallingFits
<1>2. ASSUME NEW w \in Workers, m \notin Wanted(call[w]),
             CommitFlow(w) \/ CommitReserve(w) \/ CommitCancel(w)
      PROVE  OpenReserved(m)' - bal'[m]["own"] <= OpenReserved(m) - bal[m]["own"]
  <2>1. \A o \in Orders : Booked(m)'[o] <= Booked(m)[o]
    BY <1>2, BookedFalls
  <2>2. bal'[m] = bal[m]
    <3>1. CASE CommitFlow(w)
      <4>1. m \notin DOMAIN call[w].items
        BY <1>2, <3>1, FlowWanted DEF CommitFlow
      <4> QED
        BY <3>1, <4>1 DEF CommitFlow
    <3> QED
      BY <1>2, <3>1 DEF CommitReserve, CommitCancel
  <2> QED
    BY <1>0, <2>1, <2>2, FallingFits
<1>3. ASSUME NEW w \in Workers, CommitFlow(w)
      PROVE  OpenReserved(m)' - bal'[m]["own"] <= OpenReserved(m) - bal[m]["own"]
  <2>1. Wanted(call[w]) = DOMAIN call[w].items
    BY <1>3, FlowWanted DEF CommitFlow
  <2> QED
    BY <1>2, <1>3, <2>1, MovingFits
<1>4. ASSUME NEW w \in Workers, CommitReserve(w)
      PROVE  \/ OpenReserved(m)' <= bal'[m]["own"]
             \/ OpenReserved(m)' - bal'[m]["own"] <= OpenReserved(m) - bal[m]["own"]
  <2>1. Wanted(call[w]) = MaterialsOf(call[w].order)
    BY <1>0, <1>4 DEF CommitReserve, OrdersInv, CallOK, IsReserve, Wanted, IsFlow, FlowTypes
  <2> QED
    BY <1>2, <1>4, <2>1, ReservingFits
<1>5. ASSUME NEW w \in Workers, CommitCancel(w)
      PROVE  OpenReserved(m)' - bal'[m]["own"] <= OpenReserved(m) - bal[m]["own"]
  <2>1. Wanted(call[w]) = {}
    BY <1>5 DEF CommitCancel, Wanted, IsReserve, IsFlow, FlowTypes
  <2> QED
    BY <1>2, <1>5, <2>1
(* A registered transaction is an entry the ledger did not have. *)
<1>6. ASSUME NEW w \in Workers, CommitTransaction(w) PROVE FALSE
  <2>1. /\ ~Registered(call[w]) /\ ledger' = ledger \cup {TxEntry(call[w])} /\ moves' = moves
    BY <1>6 DEF CommitTransaction
  <2>2. TxEntry(call[w]).source = <<"request", call[w].key>>
    BY DEF TxEntry
  <2>3. TxEntry(call[w]) \in ledger
    BY <2>1
  <2> QED
    BY <2>1, <2>2, <2>3 DEF Registered
<1>7. CASE UNCHANGED vars
  BY <1>1, <1>7 DEF vars
<1>8. ASSUME NEW w \in Workers,
             \/ Start(w) \/ Crash(w) \/ LockOrder(w) \/ RefuseOrder(w)
             \/ \E n \in Materials : LockMaterial(w, n)
             \/ RefuseFlow(w) \/ ReadOthers(w) \/ AnswerTransaction(w)
      PROVE  OpenReserved(m)' - bal'[m]["own"] <= OpenReserved(m) - bal[m]["own"]
  <2>1. UNCHANGED <<status, rows, bal>>
    BY <1>8 DEF Start, StartFlow, StartCreate, StartOrderCall, StartTransaction, Crash, LockOrder,
                RefuseOrder, LockMaterial, RefuseFlow, ReadOthers, AnswerTransaction, flowVars,
                ledgerVars
  <2> QED
    BY <1>1, <2>1
<1> QED
  BY <1>3, <1>4, <1>5, <1>6, <1>7, <1>8 DEF Next, Step

(* No order call promises stock that another open order already has: after *)
(* any step but a stock transaction, what the open orders reserve is       *)
(* within the stock, or exceeds it by no more than before.                 *)
THEOREM NothingOverbooked == Spec => NoNewOverbooking
<1>1. FullInv /\ FullInv' /\ OthersCover /\ [Next]_vars =>
        [(ledger' = ledger \/ moves' # moves) =>
            \A m \in Materials :
                \/ OpenReserved(m)' <= bal[m].own'
                \/ OpenReserved(m)' - bal[m].own' <= OpenReserved(m) - bal[m].own]_vars
  BY OverbookingStep
<1> QED
  BY <1>1, FullInvariant, CoverInvariant, PTL DEF Spec, NoNewOverbooking

-----------------------------------------------------------------------------
(* The material flow implements the pipeline *)

(* A client that uses a request key again repeats the request: the unique  *)
(* constraint holds for each reservation alone, and would not keep two     *)
(* requests under one key with different reservations apart.               *)
KeysName ==
    \A q, r \in FlowRequests :
        q.order = r.order /\ q.kind = r.kind /\ q.key = r.key => DOMAIN q.items = DOMAIN r.items

(* Calls and movements are of requests the clients sent, and the rows of   *)
(* an order require what the order needs.                                  *)
Sent(order, kind, key, r) == r.order = order /\ r.kind = kind /\ r.key = key

RequestsInv ==
    /\ \A w \in Workers : IsFlow(call[w]) =>
          \E r \in FlowRequests : /\ Sent(call[w].order, call[w].kind, call[w].key, r)
                                  /\ r.items = call[w].items
    /\ \A v \in moves : \E r \in FlowRequests :
          Sent(v.order, v.kind, v.key, r) /\ v.mat \in DOMAIN r.items
    /\ \A o \in Orders : \A m \in DOMAIN rows[o] : rows[o][m].required = Required[o][m]

LEMMA RequestsStep ==
    ASSUME FullInv, RequestsInv, [Next]_vars
    PROVE  RequestsInv'
<1>0. OrdersInv /\ FlowInv
  BY DEF FullInv
<1>1. ASSUME UNCHANGED <<moves, rows>>,
             \A x \in Workers : IsFlow(call'[x]) => call'[x] = call[x]
      PROVE  RequestsInv'
  BY <1>1 DEF RequestsInv, IsFlow
<1>2. ASSUME NEW w \in Workers, Finish(w)
      PROVE  \A x \in Workers : IsFlow(call'[x]) => call'[x] = call[x]
  <2>1. call' = [call EXCEPT ![w] = NoCall]
    BY <1>2 DEF Finish
  <2> QED
    BY <1>0, <2>1 DEF OrdersInv, NoCall, IsFlow, FlowTypes
<1>3. ASSUME NEW w \in Workers, Start(w) PROVE RequestsInv'
  <2>1. UNCHANGED <<moves, rows>>
    BY <1>3 DEF Start, StartFlow, StartCreate, StartOrderCall, StartTransaction
  <2>2. ASSUME NEW r \in FlowRequests, NEW g \in 1..gen[r.order], StartFlow(w, r, g)
        PROVE  RequestsInv'
    <3>1. \A x \in Workers : call'[x] =
            IF x = w THEN [kind |-> r.kind, order |-> r.order, key |-> r.key,
                           items |-> r.items, gen |-> g]
            ELSE call[x]
      BY <1>0, <2>2 DEF StartFlow, OrdersInv
    <3>2. \A x \in Workers : IsFlow(call'[x]) =>
            \E q \in FlowRequests : /\ Sent(call'[x].order, call'[x].kind, call'[x].key, q)
                                    /\ q.items = call'[x].items
      BY <3>1 DEF Sent, RequestsInv, IsFlow
    <3> QED
      BY <2>1, <3>2 DEF RequestsInv, IsFlow
  <2>3. ASSUME NEW o \in Orders, StartCreate(w, o) PROVE RequestsInv'
    <3>1. call' = [call EXCEPT ![w] = [kind |-> "create", order |-> o]]
      BY <2>3 DEF StartCreate
    <3> QED
      BY <1>0, <1>1, <2>1, <3>1 DEF OrdersInv, IsFlow, FlowTypes
  <2>4. ASSUME NEW o \in Orders, NEW k \in {"recalculate", "cancel"}, StartOrderCall(w, k, o)
        PROVE  RequestsInv'
    <3>1. call' = [call EXCEPT ![w] = [kind |-> k, order |-> o]]
      BY <2>4 DEF StartOrderCall
    <3> QED
      BY <1>0, <1>1, <2>1, <3>1 DEF OrdersInv, IsFlow, FlowTypes
  <2>5. ASSUME NEW t \in Transactions, StartTransaction(w, t) PROVE RequestsInv'
    <3>1. call' = [call EXCEPT ![w] = t] /\ t.kind = "transaction"
      BY <2>5, FlowAssumption DEF StartTransaction
    <3> QED
      BY <1>0, <1>1, <2>1, <3>1 DEF OrdersInv, IsFlow, FlowTypes
  <2> QED
    BY <1>3, <2>2, <2>3, <2>4, <2>5 DEF Start
<1>4. ASSUME NEW w \in Workers, CommitFlow(w) PROVE RequestsInv'
  <2> DEFINE c == call[w]
  <2>1. Finish(w) /\ IsFlow(c) /\ moves' = moves \cup {Movement(c, m) : m \in DOMAIN c.items}
    BY <1>4 DEF CommitFlow
  <2>2. PICK r \in FlowRequests : Sent(c.order, c.kind, c.key, r) /\ r.items = c.items
    BY <2>1 DEF RequestsInv
  <2>3. ASSUME NEW v \in moves'
        PROVE  \E q \in FlowRequests : Sent(v.order, v.kind, v.key, q) /\ v.mat \in DOMAIN q.items
    <3>1. CASE v \in moves
      BY <3>1 DEF RequestsInv
    <3>2. CASE \E m \in DOMAIN c.items : v = Movement(c, m)
      BY <2>2, <3>2 DEF Movement
    <3> QED
      BY <2>1, <3>1, <3>2
  <2>4. ASSUME NEW o \in Orders, NEW m \in DOMAIN rows'[o]
        PROVE  rows'[o][m].required = Required[o][m]
    <3>1. m \in DOMAIN rows[o] /\ rows[o][m] \in Row /\ rows[o][m].required = Required[o][m]
      BY <1>0, <1>4, CommitFlowRows DEF FlowInv, RowsTyped, RequestsInv
    <3>2. rows'[o][m] = rows[o][m]
          \/ /\ c.kind \in FlowTypes /\ c.items[m] \in Int
             /\ rows'[o][m] = Advance(c.kind, rows[o][m], rows[o][m], c.items[m])
      BY <1>0, <1>4, <3>1, CommitFlowRows DEF Quantity
    <3> QED
      BY <3>1, <3>2 DEF Advance, Row, FlowTypes
  <2>5. \A x \in Workers : IsFlow(call'[x]) =>
          \E q \in FlowRequests : /\ Sent(call'[x].order, call'[x].kind, call'[x].key, q)
                                  /\ q.items = call'[x].items
    BY <1>2, <2>1 DEF RequestsInv, IsFlow
  <2> QED
    BY <2>3, <2>4, <2>5 DEF RequestsInv, IsFlow
<1>5. ASSUME NEW w \in Workers, CommitReserve(w) PROVE RequestsInv'
  <2> DEFINE p == call[w].order
  <2>1. /\ Finish(w) /\ moves' = moves /\ pc[w] = "commit"
        /\ rows' = [rows EXCEPT ![p] = [m \in MaterialsOf(p) |-> FreshRow(w, p, m)]]
    BY <1>5 DEF CommitReserve
  <2>2. \A o \in Orders : rows'[o] =
          IF o = p THEN [m \in MaterialsOf(p) |-> FreshRow(w, p, m)] ELSE rows[o]
    BY <1>0, <2>1 DEF OrdersInv
  <2>3. \A o \in Orders : \A m \in DOMAIN rows'[o] : rows'[o][m].required = Required[o][m]
    <3> SUFFICES ASSUME NEW o \in Orders, NEW m \in DOMAIN rows'[o]
                 PROVE  rows'[o][m].required = Required[o][m]
      OBVIOUS
    <3>1. CASE o = p
      <4>1. rows'[o][m] = FreshRow(w, p, m)
        BY <2>2, <3>1
      <4>2. FreshRow(w, p, m).required = Required[p][m]
        BY DEF FreshRow
      <4> QED
        BY <3>1, <4>1, <4>2
    <3>2. CASE o # p
      <4>1. rows'[o] = rows[o]
        BY <2>2, <3>2
      <4>2. m \in DOMAIN rows[o] /\ rows[o][m].required = Required[o][m]
        BY <4>1 DEF RequestsInv
      <4> QED
        BY <4>1, <4>2
    <3> QED
      BY <3>1, <3>2
  <2>4. \A x \in Workers : IsFlow(call'[x]) => call'[x] = call[x]
    BY <1>2, <2>1
  <2>5. \A x \in Workers : IsFlow(call'[x]) =>
          \E q \in FlowRequests : /\ Sent(call'[x].order, call'[x].kind, call'[x].key, q)
                                  /\ q.items = call'[x].items
    BY <2>4 DEF RequestsInv
  <2>6. \A v \in moves' : \E q \in FlowRequests :
          Sent(v.order, v.kind, v.key, q) /\ v.mat \in DOMAIN q.items
    BY <2>1 DEF RequestsInv
  <2> QED
    BY <2>3, <2>5, <2>6 DEF RequestsInv, IsFlow
<1>6. ASSUME NEW w \in Workers,
             \/ RefuseOrder(w) \/ RefuseFlow(w) \/ CommitCancel(w) \/ CommitTransaction(w)
             \/ AnswerTransaction(w) \/ Crash(w)
      PROVE  RequestsInv'
  <2>1. Finish(w) /\ UNCHANGED <<moves, rows>>
    BY <1>6 DEF RefuseOrder, RefuseFlow, CommitCancel, CommitTransaction, AnswerTransaction, Crash
  <2> QED
    BY <1>1, <1>2, <2>1
<1>7. ASSUME UNCHANGED <<moves, rows, call>> PROVE RequestsInv'
  BY <1>1, <1>7
<1>8. ASSUME NEW w \in Workers,
             LockOrder(w) \/ ReadOthers(w) \/ \E m \in Materials : LockMaterial(w, m)
      PROVE  RequestsInv'
  BY <1>7, <1>8 DEF LockOrder, ReadOthers, LockMaterial, flowVars
<1> QED
  BY <1>3, <1>4, <1>5, <1>6, <1>7, <1>8 DEF Next, Step, vars

LEMMA RequestsInvariant == Spec => []RequestsInv
<1>1. Init => RequestsInv
  BY DEF Init, RequestsInv, NoCall, IsFlow, FlowTypes
<1>2. FullInv /\ RequestsInv /\ [Next]_vars => RequestsInv'
  BY RequestsStep
<1> QED
  BY <1>1, <1>2, FullInvariant, PTL DEF Spec

(* The stages of the pipeline, as the module of the refinement maps them.  *)
Road == [o \in Orders |-> [m \in Materials |-> OnRoad(o, m)]]
Plant == [o \in Orders |-> [m \in Materials |-> AtPlant(o, m)]]
Used == [o \in Orders |-> [m \in Materials |-> UsedUp(o, m)]]
Closed == {o \in Orders : status[o] = "cancelled"}

LEMMA SameStages ==
    ASSUME \A o \in Orders : \A m \in Materials :
               /\ OnRoad(o, m)' = OnRoad(o, m) /\ AtPlant(o, m)' = AtPlant(o, m)
               /\ UsedUp(o, m)' = UsedUp(o, m)
    PROVE  Road' = Road /\ Plant' = Plant /\ Used' = Used
  BY DEF Road, Plant, Used

(* Two values of a stage that differ at most in the row of one order, and   *)
(* there by the quantities of a basket.                                    *)
IsStage(f) == f = [o \in Orders |-> [m \in Materials |-> f[o][m]]]
SameElse(p, f, g) == \A o \in Orders \ {p} : \A m \in Materials : g[o][m] = f[o][m]
Gains(p, f, g, items) == \A m \in Materials : g[p][m] = f[p][m] + Pipeline!In(items, m)
Loses(p, f, g, items) == \A m \in Materials : g[p][m] = f[p][m] - Pipeline!In(items, m)
Keeps(p, f, g) == \A m \in Materials : g[p][m] = f[p][m]

LEMMA OneRow ==
    ASSUME NEW f, NEW g, NEW p \in Orders, IsStage(f), IsStage(g), SameElse(p, f, g),
           NEW part, part = [m \in Materials |-> part[m]], \A m \in Materials : g[p][m] = part[m]
    PROVE  g = [f EXCEPT ![p] = part]
<1>1. g[p] = part
  <2>1. g[p] = [m \in Materials |-> g[p][m]]
    BY DEF IsStage
  <2> QED
    BY <2>1
<1>2. \A o \in Orders \ {p} : g[o] = f[o]
  <2> SUFFICES ASSUME NEW o \in Orders \ {p} PROVE g[o] = f[o]
    OBVIOUS
  <2>1. g[o] = [m \in Materials |-> g[o][m]] /\ f[o] = [m \in Materials |-> f[o][m]]
    BY DEF IsStage
  <2>2. \A m \in Materials : g[o][m] = f[o][m]
    BY DEF SameElse
  <2> QED
    BY <2>1, <2>2
<1>3. DOMAIN f = Orders /\ DOMAIN g = Orders /\ g = [o \in Orders |-> g[o]] /\ f = [o \in Orders |-> f[o]]
  BY DEF IsStage
<1> QED
  BY <1>1, <1>2, <1>3

LEMMA StageGains ==
    ASSUME NEW f, NEW g, NEW p \in Orders, NEW items, IsStage(f), IsStage(g), SameElse(p, f, g),
           Gains(p, f, g, items)
    PROVE  g = Pipeline!Plus(f, p, items)
<1> DEFINE part == [m \in Materials |-> f[p][m] + Pipeline!In(items, m)]
<1>1. part = [m \in Materials |-> part[m]] /\ \A m \in Materials : g[p][m] = part[m]
  BY DEF Gains
<1> HIDE DEF part
<1>2. g = [f EXCEPT ![p] = part]
  BY <1>1, OneRow
<1> QED
  BY <1>2 DEF Pipeline!Plus, part

LEMMA StageLoses ==
    ASSUME NEW f, NEW g, NEW p \in Orders, NEW items, IsStage(f), IsStage(g), SameElse(p, f, g),
           Loses(p, f, g, items)
    PROVE  g = Pipeline!Minus(f, p, items)
<1> DEFINE part == [m \in Materials |-> f[p][m] - Pipeline!In(items, m)]
<1>1. part = [m \in Materials |-> part[m]] /\ \A m \in Materials : g[p][m] = part[m]
  BY DEF Loses
<1> HIDE DEF part
<1>2. g = [f EXCEPT ![p] = part]
  BY <1>1, OneRow
<1> QED
  BY <1>2 DEF Pipeline!Minus, part

LEMMA StageKeeps ==
    ASSUME NEW f, NEW g, NEW p \in Orders, IsStage(f), IsStage(g), SameElse(p, f, g),
           Keeps(p, f, g)
    PROVE  g = f
<1> DEFINE part == f[p]
<1>1. part = [m \in Materials |-> part[m]]
  BY DEF IsStage
<1>2. \A m \in Materials : g[p][m] = part[m]
  BY DEF Keeps
<1> HIDE DEF part
<1>3. g = [f EXCEPT ![p] = part]
  BY <1>1, <1>2, OneRow
<1>4. f = [o \in Orders |-> f[o]]
  BY DEF IsStage
<1> QED
  BY <1>3, <1>4 DEF part

LEMMA RefineInit == Init => Pipeline!Init
<1> SUFFICES ASSUME Init PROVE Pipeline!Init
  OBVIOUS
<1>1. AppliedKeys = {} /\ Closed = {}
  BY DEF Init, AppliedKeys, Closed
<1>2. \A o \in Orders : \A m \in Materials : OnRoad(o, m) = 0 /\ AtPlant(o, m) = 0 /\ UsedUp(o, m) = 0
  BY DEF Init, OnRoad, AtPlant, UsedUp
<1>3. Road = [o \in Orders |-> [m \in Materials |-> 0]] /\ Plant = Road /\ Used = Road
  BY <1>2 DEF Road, Plant, Used
<1> QED
  BY <1>1, <1>3 DEF Pipeline!Init, Road, Plant, Used, Closed

(* The request keys a commit applies.                                      *)
LEMMA KeysAdded ==
    ASSUME KeysName, FullInv, RequestsInv, NEW w \in Workers, CommitFlow(w),
           DOMAIN call[w].items # {}
    PROVE  LET k == <<call[w].order, call[w].kind, call[w].key>> IN
           k \notin AppliedKeys /\ AppliedKeys' = AppliedKeys \cup {k}
<1> DEFINE c == call[w]
<1> DEFINE k == <<c.order, c.kind, c.key>>
<1>1. /\ moves' = moves \cup {Movement(c, m) : m \in DOMAIN c.items}
      /\ NoDuplicate(c) /\ IsFlow(c)
  BY DEF CommitFlow, FlowAllowed
<1>2. \A m : /\ Movement(c, m).order = c.order /\ Movement(c, m).kind = c.kind
             /\ Movement(c, m).key = c.key
  BY DEF Movement
<1>3. PICK r \in FlowRequests : Sent(c.order, c.kind, c.key, r) /\ r.items = c.items
  BY <1>1 DEF RequestsInv
<1>4. k \notin AppliedKeys
  <2> SUFFICES ASSUME k \in AppliedKeys PROVE FALSE
    OBVIOUS
  <2>1. PICK v \in moves : v.order = c.order /\ v.kind = c.kind /\ v.key = c.key
    BY DEF AppliedKeys
  <2>2. PICK q \in FlowRequests : Sent(v.order, v.kind, v.key, q) /\ v.mat \in DOMAIN q.items
    BY DEF RequestsInv
  <2>3. v.mat \in DOMAIN c.items
    BY <1>3, <2>1, <2>2 DEF KeysName, Sent
  <2> QED
    BY <1>1, <2>1, <2>3 DEF NoDuplicate, SameKey
<1>5. AppliedKeys' = AppliedKeys \cup {k}
  BY <1>1, <1>2 DEF AppliedKeys
<1> QED
  BY <1>4, <1>5

LEMMA RefineFlow ==
    ASSUME KeysName, FullInv, RequestsInv, NEW w \in Workers, CommitFlow(w)
    PROVE  Pipeline!Next \/ UNCHANGED Pipeline!vars
<1>c. PICK c : c = call[w]
  OBVIOUS
<1> DEFINE p == c.order
<1> DEFINE items == [m \in DOMAIN c.items |-> c.items[m]]
<1>0. LocksInv /\ OrdersInv /\ FlowInv
  BY DEF FullInv
<1>1. /\ c.kind \in FlowTypes /\ p \in Orders
      /\ DOMAIN c.items \subseteq DOMAIN rows[p]
      /\ \A x \in Orders : DOMAIN rows'[x] = DOMAIN rows[x]
      /\ \A x \in Orders \ {p} : rows'[x] = rows[x]
      /\ \A m \in DOMAIN rows[p] :
            rows'[p][m] =
              IF m \in DOMAIN c.items
              THEN Advance(c.kind, rows[p][m], rows[p][m], c.items[m])
              ELSE rows[p][m]
      /\ \A m \in DOMAIN c.items :
            c.items[m] \in Int /\ Within(c.kind, rows[p][m], c.items[m])
  BY <1>c, <1>0, CommitFlowRows DEF Quantity
<1>2. DOMAIN c.items \subseteq Materials
  BY <1>c, <1>0, CommitFlowCounters
<1>3. \A m \in DOMAIN rows[p] :
        /\ rows[p][m] \in Row /\ m \in MaterialsOf(p)
        /\ rows[p][m].required = Required[p][m]
        /\ rows[p][m].reserved + rows[p][m].dispatched <= rows[p][m].required
  BY <1>0, <1>1 DEF FlowInv, RowsTyped, FlowOrdered, RequestsInv
<1>4. Closed' = Closed /\ p \notin Closed
  <2>1. status[p] \in Open /\ \A x \in Orders : status'[x] \in Open <=> status[x] \in Open
    BY <1>c, <1>0, OpenStaysOpen
  <2>2. status' = status \/ status' = [status EXCEPT ![p] = "confirmed"]
    BY <1>c DEF CommitFlow
  <2>3. \A x \in Orders : status'[x] = "cancelled" <=> status[x] = "cancelled"
    BY <1>0, <2>1, <2>2 DEF OrdersInv, Open
  <2> QED
    BY <2>1, <2>3 DEF Closed, Open
<1>5. \A x \in Orders \ {p} : \A m \in Materials :
        /\ Road'[x][m] = Road[x][m] /\ Plant'[x][m] = Plant[x][m] /\ Used'[x][m] = Used[x][m]
  BY <1>1 DEF Road, Plant, Used, OnRoad, AtPlant, UsedUp
<1>6. /\ IsStage(Road) /\ IsStage(Road') /\ SameElse(p, Road, Road')
      /\ IsStage(Plant) /\ IsStage(Plant') /\ SameElse(p, Plant, Plant')
      /\ IsStage(Used) /\ IsStage(Used') /\ SameElse(p, Used, Used')
  <2>1. /\ IsStage(Road) /\ IsStage(Road') /\ IsStage(Plant) /\ IsStage(Plant')
        /\ IsStage(Used) /\ IsStage(Used')
    BY DEF Road, Plant, Used, IsStage
  <2>2. SameElse(p, Road, Road') /\ SameElse(p, Plant, Plant') /\ SameElse(p, Used, Used')
    BY <1>5 DEF SameElse
  <2> QED
    BY <2>1, <2>2
(* The stages of the order, before and after. *)
<1>7. \A m \in Materials :
        /\ Road[p][m] = OnRoad(p, m) /\ Road'[p][m] = OnRoad(p, m)'
        /\ Plant[p][m] = AtPlant(p, m) /\ Plant'[p][m] = AtPlant(p, m)'
        /\ Used[p][m] = UsedUp(p, m) /\ Used'[p][m] = UsedUp(p, m)'
        /\ Road[p][m] \in Int /\ Plant[p][m] \in Int /\ Used[p][m] \in Int
  <2>1. \A m \in Materials : OnRoad(p, m) \in Int /\ AtPlant(p, m) \in Int /\ UsedUp(p, m) \in Int
    BY <1>3 DEF OnRoad, AtPlant, UsedUp, Row
  <2> QED
    BY <1>1, <2>1 DEF Road, Plant, Used
<1>8. \A m \in Materials \ DOMAIN c.items :
        Road'[p][m] = Road[p][m] /\ Plant'[p][m] = Plant[p][m] /\ Used'[p][m] = Used[p][m]
  <2>1. \A m \in Materials \ DOMAIN c.items :
          OnRoad(p, m)' = OnRoad(p, m) /\ AtPlant(p, m)' = AtPlant(p, m) /\ UsedUp(p, m)' = UsedUp(p, m)
    BY <1>1 DEF OnRoad, AtPlant, UsedUp
  <2> QED
    BY <1>7, <2>1
<1>9. \A m \in DOMAIN c.items :
        /\ Road[p][m] = rows[p][m].dispatched - rows[p][m].received
        /\ Plant[p][m] = rows[p][m].received - rows[p][m].consumed
        /\ Used[p][m] = rows[p][m].consumed
        /\ Road'[p][m] = rows'[p][m].dispatched - rows'[p][m].received
        /\ Plant'[p][m] = rows'[p][m].received - rows'[p][m].consumed
        /\ Used'[p][m] = rows'[p][m].consumed
  BY <1>1, <1>2, <1>7 DEF OnRoad, AtPlant, UsedUp
<1>10. \A m \in Materials : Pipeline!In(items, m) = IF m \in DOMAIN c.items THEN c.items[m] ELSE 0
  BY DEF Pipeline!In
<1>11. \A m \in DOMAIN items : items[m] = c.items[m] /\ m \in DOMAIN c.items
  OBVIOUS
<1>12. CASE DOMAIN c.items = {}
  <2>1. moves' = moves
    BY <1>c, <1>12 DEF CommitFlow
  <2>2. AppliedKeys' = AppliedKeys
    BY <2>1 DEF AppliedKeys
  <2>3. \A o \in Orders : \A m \in Materials :
          /\ Road'[o][m] = Road[o][m] /\ Plant'[o][m] = Plant[o][m] /\ Used'[o][m] = Used[o][m]
    BY <1>5, <1>8, <1>12
  <2>4. Road' = Road /\ Plant' = Plant /\ Used' = Used
    <3>1. Keeps(p, Road, Road') /\ Keeps(p, Plant, Plant') /\ Keeps(p, Used, Used')
      BY <1>1, <2>3 DEF Keeps
    <3> QED
      BY <1>1, <1>6, <3>1, StageKeeps
  <2> QED
    BY <1>4, <2>2, <2>4 DEF Pipeline!vars, Road, Plant, Used, Closed
<1>13. CASE DOMAIN c.items # {}
  <2>1. /\ <<p, c.kind, c.key>> \notin AppliedKeys
        /\ AppliedKeys' = AppliedKeys \cup {<<p, c.kind, c.key>>}
    BY <1>c, <1>13, KeysAdded
  <2>2. PICK r \in FlowRequests : Sent(p, c.kind, c.key, r) /\ r.items = c.items
    BY <1>c, <1>1 DEF RequestsInv, IsFlow
  <2>3. c.key \in KeysUsed
    BY <2>2 DEF Sent, KeysUsed
  <2>4. items \in Pipeline!Baskets
    <3>1. \A m \in DOMAIN c.items : c.items[m] \in Amounts
      BY <2>2, AmountsAssumption
    <3>2. items \in [DOMAIN c.items -> Amounts]
      BY <3>1
    <3>3. DOMAIN c.items \in (SUBSET Materials) \ {{}}
      BY <1>2, <1>13
    <3> HIDE DEF items
    <3> QED
      BY <3>2, <3>3 DEF Pipeline!Baskets
  <2> HIDE DEF items
  <2>5. CASE c.kind = "dispatch"
    <3>1. \A m \in DOMAIN c.items :
            /\ rows'[p][m].dispatched = rows[p][m].dispatched + c.items[m]
            /\ rows'[p][m].received = rows[p][m].received
            /\ rows'[p][m].consumed = rows[p][m].consumed
      BY <1>1, <1>3, <2>5 DEF Advance, Row
    <3>2. Gains(p, Road, Road', items) /\ Keeps(p, Plant, Plant') /\ Keeps(p, Used, Used')
      BY <1>1, <1>3, <1>7, <1>8, <1>9, <1>10, <3>1 DEF Row, Gains, Keeps
    <3>3. Road' = Pipeline!Plus(Road, p, items) /\ Plant' = Plant /\ Used' = Used
      BY <1>1, <1>6, <3>2, StageGains, StageLoses, StageKeeps
    <3>4. ASSUME NEW m \in DOMAIN items
          PROVE  Road[p][m] + Plant[p][m] + Used[p][m] + items[m] <= LimitOf(p, m)
      <4>1. m \in DOMAIN rows[p] /\ items[m] \in Int /\ items[m] <= rows[p][m].reserved
        BY <1>1, <1>11, <2>5 DEF Within
      <4>2. LimitOf(p, m) = rows[p][m].required
        BY <1>3, <4>1 DEF LimitOf
      <4>3. Road[p][m] + Plant[p][m] + Used[p][m] = rows[p][m].dispatched
        BY <1>3, <1>9, <1>11, <4>1 DEF Row
      <4>4. /\ rows[p][m].reserved + rows[p][m].dispatched <= rows[p][m].required
            /\ rows[p][m].reserved \in Int /\ rows[p][m].dispatched \in Int
            /\ rows[p][m].required \in Int
        <5>1. /\ rows[p][m] \in Row
              /\ rows[p][m].reserved + rows[p][m].dispatched <= rows[p][m].required
          BY <1>3, <4>1
        <5> QED
          BY <5>1 DEF Row, Quantity
      <4> QED
        BY <4>1, <4>2, <4>3, <4>4
    <3>5. \A m \in DOMAIN items : m \in Materials
      BY <1>2, <1>11
    <3>6. Pipeline!Send(p, c.key, items)
      BY <1>1, <1>4, <2>1, <2>5, <3>3, <3>4, <3>5
         DEF Pipeline!Send, Pipeline!Once, Road, Plant, Used, Closed
    <3> QED
      BY <1>1, <2>3, <2>4, <3>6 DEF Pipeline!Next
  <2>6. CASE c.kind = "factory_receive"
    <3>1. \A m \in DOMAIN c.items :
            /\ rows'[p][m].dispatched = rows[p][m].dispatched
            /\ rows'[p][m].received = rows[p][m].received + c.items[m]
            /\ rows'[p][m].consumed = rows[p][m].consumed
      BY <1>1, <1>3, <2>6 DEF Advance, Row
    <3>2. Loses(p, Road, Road', items) /\ Gains(p, Plant, Plant', items) /\ Keeps(p, Used, Used')
      BY <1>1, <1>3, <1>7, <1>8, <1>9, <1>10, <3>1 DEF Row, Gains, Loses, Keeps
    <3>3. /\ Road' = Pipeline!Minus(Road, p, items) /\ Plant' = Pipeline!Plus(Plant, p, items)
          /\ Used' = Used
      BY <1>1, <1>6, <3>2, StageGains, StageLoses, StageKeeps
    <3>4. \A m \in DOMAIN items : m \in Materials /\ items[m] <= Road[p][m]
      BY <1>1, <1>2, <1>9, <1>11, <2>6 DEF Within
    <3>5. Pipeline!Receive(p, c.key, items)
      BY <1>1, <1>4, <2>1, <2>6, <3>3, <3>4
         DEF Pipeline!Receive, Pipeline!Once, Road, Plant, Used, Closed
    <3> QED
      BY <1>1, <2>3, <2>4, <3>5 DEF Pipeline!Next
  <2>7. CASE c.kind = "consume"
    <3>1. \A m \in DOMAIN c.items :
            /\ rows'[p][m].dispatched = rows[p][m].dispatched
            /\ rows'[p][m].received = rows[p][m].received
            /\ rows'[p][m].consumed = rows[p][m].consumed + c.items[m]
      BY <1>1, <1>3, <2>7 DEF Advance, Row
    <3>2. Keeps(p, Road, Road') /\ Loses(p, Plant, Plant', items) /\ Gains(p, Used, Used', items)
      BY <1>1, <1>3, <1>7, <1>8, <1>9, <1>10, <3>1 DEF Row, Gains, Loses, Keeps
    <3>3. /\ Plant' = Pipeline!Minus(Plant, p, items) /\ Used' = Pipeline!Plus(Used, p, items)
          /\ Road' = Road
      BY <1>1, <1>6, <3>2, StageGains, StageLoses, StageKeeps
    <3>4. \A m \in DOMAIN items : m \in Materials /\ items[m] <= Plant[p][m]
      BY <1>1, <1>2, <1>9, <1>11, <2>7 DEF Within
    <3>5. Pipeline!Use(p, c.key, items)
      BY <1>1, <1>4, <2>1, <2>7, <3>3, <3>4
         DEF Pipeline!Use, Pipeline!Once, Road, Plant, Used, Closed
    <3> QED
      BY <1>1, <2>3, <2>4, <3>5 DEF Pipeline!Next
  <2> QED
    BY <1>1, <2>5, <2>6, <2>7 DEF FlowTypes
<1> QED
  BY <1>12, <1>13

LEMMA RefineReserve ==
    ASSUME FullInv, FullInv', SentInv, NEW w \in Workers, CommitReserve(w)
    PROVE  UNCHANGED Pipeline!vars
<1>c. PICK p : p = call[w].order
  OBVIOUS
<1>0. OrdersInv /\ FlowInv
  BY DEF FullInv
<1>1. /\ moves' = moves
      /\ rows' = [rows EXCEPT ![p] = [m \in MaterialsOf(p) |-> FreshRow(w, p, m)]]
      /\ status' = IF call[w].kind = "create" THEN [status EXCEPT ![p] = "planned"] ELSE status
  BY <1>c DEF CommitReserve
<1>2. /\ p \in Orders
      /\ pc[w] = "commit" /\ (call[w].kind = "create" => status[p] = "absent")
  BY <1>c, <1>0 DEF CommitReserve, OrdersInv, CallOK, IsReserve, OrderKinds
<1>3. \A m \in DOMAIN rows[p] : rows[p][m].dispatched = 0
  BY <1>c, ReserveUnmoved
<1>4. \A m \in DOMAIN rows[p] : rows[p][m].received = 0 /\ rows[p][m].consumed = 0
  BY <1>0, <1>2, <1>3 DEF FlowInv, FlowOrdered, RowsTyped, Row
<1>5. \A m \in Materials : OnRoad(p, m) = 0 /\ AtPlant(p, m) = 0 /\ UsedUp(p, m) = 0
  BY <1>3, <1>4 DEF OnRoad, AtPlant, UsedUp
<1>6. rows'[p] = [m \in MaterialsOf(p) |-> FreshRow(w, p, m)] /\ \A o \in Orders \ {p} : rows'[o] = rows[o]
  BY <1>0, <1>1, <1>2 DEF OrdersInv
<1>7. \A m \in Materials : OnRoad(p, m)' = 0 /\ AtPlant(p, m)' = 0 /\ UsedUp(p, m)' = 0
  BY <1>6 DEF OnRoad, AtPlant, UsedUp, FreshRow
<1>8. \A o \in Orders : \A m \in Materials :
        OnRoad(o, m)' = OnRoad(o, m) /\ AtPlant(o, m)' = AtPlant(o, m) /\ UsedUp(o, m)' = UsedUp(o, m)
  BY <1>5, <1>6, <1>7 DEF OnRoad, AtPlant, UsedUp
<1>9. Closed' = Closed
  BY <1>0, <1>1, <1>2 DEF Closed, OrdersInv
<1>10. AppliedKeys' = AppliedKeys
  BY <1>1 DEF AppliedKeys
<1>11. Road' = Road /\ Plant' = Plant /\ Used' = Used
  BY <1>8, SameStages
<1> QED
  BY <1>9, <1>10, <1>11 DEF Pipeline!vars, Road, Plant, Used, Closed

LEMMA RefineCancel ==
    ASSUME FullInv, NEW w \in Workers, CommitCancel(w)
    PROVE  Pipeline!Next
<1>c. PICK p : p = call[w].order
  OBVIOUS
<1>0. OrdersInv /\ FlowInv
  BY DEF FullInv
<1>1. /\ p \in Orders
      /\ \A m \in DOMAIN rows[p] : rows[p][m].dispatched = 0
      /\ \A x \in Orders : status'[x] = IF x = p THEN "cancelled" ELSE status[x]
  BY <1>c, <1>0, CancelUnsent
<1>2. UNCHANGED <<moves, rows>>
  BY DEF CommitCancel
<1>3. \A m \in DOMAIN rows[p] : rows[p][m].received = 0 /\ rows[p][m].consumed = 0
  BY <1>0, <1>1 DEF FlowInv, FlowOrdered, RowsTyped, Row
<1>4. \A m \in Materials : Road[p][m] + Plant[p][m] + Used[p][m] = 0
  <2>1. \A m \in Materials : OnRoad(p, m) = 0 /\ AtPlant(p, m) = 0 /\ UsedUp(p, m) = 0
    BY <1>1, <1>3 DEF OnRoad, AtPlant, UsedUp
  <2> QED
    BY <1>1, <2>1 DEF Road, Plant, Used
<1>5. Closed' = Closed \cup {p}
  BY <1>1 DEF Closed
<1>6. AppliedKeys' = AppliedKeys
  BY <1>2 DEF AppliedKeys
<1>7. \A o \in Orders : \A m \in Materials :
        OnRoad(o, m)' = OnRoad(o, m) /\ AtPlant(o, m)' = AtPlant(o, m) /\ UsedUp(o, m)' = UsedUp(o, m)
  BY <1>2 DEF OnRoad, AtPlant, UsedUp
<1>8. Road' = Road /\ Plant' = Plant /\ Used' = Used
  BY <1>7, SameStages
<1>9. Pipeline!Close(p)
  BY <1>4, <1>5, <1>6, <1>8 DEF Pipeline!Close, Road, Plant, Used, Closed
<1> QED
  BY <1>1, <1>9 DEF Pipeline!Next

LEMMA RefineStep ==
    ASSUME KeysName, FullInv, FullInv', SentInv, RequestsInv, [Next]_vars
    PROVE  [Pipeline!Next]_Pipeline!vars
<1>1. CASE UNCHANGED <<moves, rows, status>>
  <2>1. \A o \in Orders : \A m \in Materials :
          OnRoad(o, m)' = OnRoad(o, m) /\ AtPlant(o, m)' = AtPlant(o, m) /\ UsedUp(o, m)' = UsedUp(o, m)
    BY <1>1 DEF OnRoad, AtPlant, UsedUp
  <2>2. Road' = Road /\ Plant' = Plant /\ Used' = Used
    BY <2>1, SameStages
  <2>3. AppliedKeys' = AppliedKeys /\ Closed' = Closed
    BY <1>1 DEF AppliedKeys, Closed
  <2> QED
    BY <2>2, <2>3 DEF Pipeline!vars, Road, Plant, Used, Closed
<1>2. ASSUME NEW w \in Workers, Start(w) \/ Crash(w) PROVE UNCHANGED <<moves, rows, status>>
  BY <1>2 DEF Start, StartFlow, StartCreate, StartOrderCall, StartTransaction, Crash
<1>3. ASSUME NEW w \in Workers, Step(w) PROVE [Pipeline!Next]_Pipeline!vars
  <2>1. CASE \/ LockOrder(w) \/ RefuseOrder(w) \/ \E m \in Materials : LockMaterial(w, m)
             \/ RefuseFlow(w) \/ ReadOthers(w) \/ CommitTransaction(w) \/ AnswerTransaction(w)
    <3>1. UNCHANGED <<moves, rows, status>>
      BY <2>1 DEF LockOrder, RefuseOrder, LockMaterial, RefuseFlow, ReadOthers,
                  CommitTransaction, AnswerTransaction, flowVars
    <3> QED
      BY <1>1, <3>1
  <2> QED
    BY <1>3, <2>1, RefineFlow, RefineReserve, RefineCancel DEF Step
<1> QED
  BY <1>1, <1>2, <1>3 DEF Next, vars

(* Forgetting sessions, locks and reservations, every step of the material *)
(* flow is one whole move of a basket by one stage under a key not used    *)
(* before, the closing of an order that sent nothing, or no step at all.   *)
THEOREM FlowImplementsPipeline ==
    ASSUME KeysName
    PROVE  Spec => MovesOnce
<1>1. Init => Pipeline!Init
  BY RefineInit
<1>2. FullInv /\ FullInv' /\ SentInv /\ RequestsInv /\ [Next]_vars => [Pipeline!Next]_Pipeline!vars
  BY RefineStep
<1> QED
  BY <1>1, <1>2, FullInvariant, SentInvariant, RequestsInvariant, PTL
     DEF Spec, MovesOnce, Pipeline!Spec

=============================================================================
