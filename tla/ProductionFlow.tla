--------------------------- MODULE ProductionFlow ---------------------------
(***************************************************************************)
(* Production orders, the consumables reserved for them and the flow of    *)
(* those consumables: own warehouse, in transit, factory, used             *)
(* (services/production_service.py and production_material_flow_service.py *)
(* on top of consumable_ledger_service.py).                                *)
(*                                                                         *)
(* Every HTTP call runs in a session of its own.  A session takes its      *)
(* steps in the order of the code, and steps of different sessions         *)
(* interleave wherever the code reads, waits for a row lock or commits:    *)
(*                                                                         *)
(*   dispatch / factory_receive / consume                                  *)
(*       look the request key up (no lock), lock the order, read the       *)
(*       reservations, lock the consumables in id order, check, commit     *)
(*   create / recalculate                                                  *)
(*       (lock the order,) lock the consumables in id order, add up what   *)
(*       the other open orders reserve, commit                             *)
(*   cancel                                                                *)
(*       lock the order, check, commit                                     *)
(*   transaction                                                           *)
(*       lock one consumable, look the request key up, commit              *)
(*                                                                         *)
(* READ COMMITTED is the isolation level: a read sees what is committed    *)
(* when it runs, so a commit is one step.  A session that fails rolls      *)
(* back; one that dies is rolled back by the database.                     *)
(***************************************************************************)
EXTENDS ConsumableLedger, Totals

CONSTANTS
    Orders,        \* production orders, numbered as they may be created
    Required,      \* consumables each order needs, by its SKUs and usage
    FlowRequests,  \* material flow requests the clients may send
    Transactions,  \* stock transactions the clients may register
    MaxRecalc      \* bound: times the reservation rows of an order are rebuilt

FlowTypes == {"dispatch", "factory_receive", "consume"}
Quantity == Nat \ {0}
MaterialsOf(o) == DOMAIN Required[o]

ASSUME FlowAssumption ==
    /\ IsFiniteSet(Orders)
    /\ \A o \in Orders :
          /\ MaterialsOf(o) \subseteq Materials
          /\ \A m \in MaterialsOf(o) : Required[o][m] \in Quantity
    /\ \A r \in FlowRequests :
          /\ r.kind \in FlowTypes
          /\ r.order \in Orders
          /\ DOMAIN r.items \subseteq MaterialsOf(r.order)
          /\ \A m \in DOMAIN r.items : r.items[m] \in Quantity
    /\ \A t \in Transactions :
          /\ t.kind = "transaction"
          /\ t.mat \in Materials
          /\ t.type \in TxTypes
          /\ t.loc \in Locations
          /\ t.qty \in Int
          /\ t.type \notin {"stocktake", "manual"} => t.qty \in Quantity
    /\ MaxRecalc \in Nat

VARIABLES
    status,   \* production_orders.status, "absent" before the order exists
    rows,     \* per order, its reservation rows: consumable -> quantities
    gen,      \* per order, which set of reservation rows (ids) it has
    moves,    \* committed material movements
    call,     \* per session, the request it serves
    pc,       \* per session, the next step
    snap,     \* per session, the order and reservation rows read under lock
    others    \* per session, what the other open orders were seen to reserve

flowVars == <<status, rows, gen, moves, call, pc, snap, others>>
vars == <<bal, ledger, view, status, rows, gen, moves, call, pc, snap, others>>

Statuses == {"absent", "planned", "confirmed", "cancelled"}
Open == {"planned", "confirmed"}    \* the open statuses the code ever writes

NoCall == [kind |-> "none"]
NoSnap == [status |-> "absent", gen |-> 0, rows |-> [m \in {} |-> 0]]
NoOthers == [m \in {} |-> 0]

Init ==
    /\ LedgerInit
    /\ status = [o \in Orders |-> "absent"]
    /\ rows = [o \in Orders |-> [m \in {} |-> 0]]
    /\ gen = [o \in Orders |-> 0]
    /\ moves = {}
    /\ call = [w \in Workers |-> NoCall]
    /\ pc = [w \in Workers |-> "idle"]
    /\ snap = [w \in Workers |-> NoSnap]
    /\ others = [w \in Workers |-> NoOthers]

-----------------------------------------------------------------------------
(* What a session knows and holds *)

IsFlow(c) == c.kind \in FlowTypes
IsReserve(c) == c.kind \in {"create", "recalculate"}

(* FOR UPDATE on the order row is held from LockOrder to COMMIT; a new     *)
(* order is invisible to the others until it is committed.                 *)
HoldsOrder(w, o) ==
    /\ pc[w] \in {"materials", "commit"}
    /\ call[w].kind \in FlowTypes \cup {"recalculate", "cancel"}
    /\ call[w].order = o

(* Mutant: the order is read without FOR UPDATE. *)
OrderReadUnlocked(o) == o \in Orders

OrderUnlocked(o) == \A w \in Workers : ~HoldsOrder(w, o)

Wanted(c) ==
    CASE c.kind = "transaction" -> {c.mat}
      [] IsFlow(c)              -> DOMAIN c.items
      [] IsReserve(c)           -> MaterialsOf(c.order)
      [] OTHER                  -> {}

ToLock(w) == Wanted(call[w]) \ DOMAIN view[w]

Finish(w) ==
    /\ call' = [call EXCEPT ![w] = NoCall]
    /\ pc' = [pc EXCEPT ![w] = "idle"]
    /\ snap' = [snap EXCEPT ![w] = NoSnap]
    /\ others' = [others EXCEPT ![w] = NoOthers]
    /\ ReleaseRows(w)

Goto(w, label) == pc' = [pc EXCEPT ![w] = label]

-----------------------------------------------------------------------------
(* Receiving a request *)

(* The movements already stored under the key of a flow request.           *)
SameKey(r) ==
    {v \in moves : v.order = r.order /\ v.kind = r.kind /\ v.key = r.key}

Applied(r) ==
    /\ \A m \in DOMAIN r.items : \E v \in SameKey(r) : v.mat = m /\ v.qty = r.items[m]
    /\ \A v \in SameKey(r) : v.mat \in DOMAIN r.items

(* _idempotent_existing runs before any lock.  A key that has movements is *)
(* answered (replayed, or refused when the quantities differ) without a    *)
(* change of state, so only a key that has none goes on.  The request      *)
(* names reservation ids, of the rows the client last saw.                 *)
StartFlow(w, r, g) ==
    /\ pc[w] = "idle"
    /\ status[r.order] # "absent"
    /\ SameKey(r) = {}
    /\ call' = [call EXCEPT ![w] =
          [kind |-> r.kind, order |-> r.order, key |-> r.key, items |-> r.items, gen |-> g]]
    /\ Goto(w, "order")
    /\ UNCHANGED <<ledgerVars, status, rows, gen, moves, snap, others>>

StartCreate(w, o) ==
    /\ pc[w] = "idle"
    /\ status[o] = "absent"
    /\ \A x \in Workers : call[x].kind = "create" => call[x].order # o
    /\ call' = [call EXCEPT ![w] = [kind |-> "create", order |-> o]]
    /\ Goto(w, "materials")
    /\ UNCHANGED <<ledgerVars, status, rows, gen, moves, snap, others>>

StartOrderCall(w, kind, o) ==
    /\ pc[w] = "idle"
    /\ status[o] # "absent"
    /\ kind = "recalculate" => gen[o] < MaxRecalc
    /\ call' = [call EXCEPT ![w] = [kind |-> kind, order |-> o]]
    /\ Goto(w, "order")
    /\ UNCHANGED <<ledgerVars, status, rows, gen, moves, snap, others>>

StartTransaction(w, t) ==
    /\ pc[w] = "idle"
    /\ call' = [call EXCEPT ![w] = t]
    /\ Goto(w, "materials")
    /\ UNCHANGED <<ledgerVars, status, rows, gen, moves, snap, others>>

-----------------------------------------------------------------------------
(* Locks *)

NothingMoved(rs) ==
    \A m \in DOMAIN rs :
        rs[m].dispatched = 0 /\ rs[m].received = 0 /\ rs[m].consumed = 0

(* What the code checks on the locked order before it goes for the         *)
(* consumables (or, for a cancellation, before it writes).                 *)
Permitted(c, s) ==
    CASE IsFlow(c) ->
           /\ s.status \in Open
           /\ s.gen = c.gen              \* the named reservation rows exist
           /\ DOMAIN c.items \subseteq DOMAIN s.rows
      [] c.kind = "recalculate" -> s.status \in Open /\ NothingMoved(s.rows)
      [] c.kind = "cancel" -> \A m \in DOMAIN s.rows : s.rows[m].dispatched = 0

OrderRow(o) == [status |-> status[o], gen |-> gen[o], rows |-> rows[o]]

LockOrder(w) ==
    LET o == call[w].order IN
    /\ pc[w] = "order"
    /\ OrderUnlocked(o)
    /\ Permitted(call[w], OrderRow(o))
    /\ snap' = [snap EXCEPT ![w] = OrderRow(o)]
    /\ Goto(w, "materials")
    /\ UNCHANGED <<ledgerVars, status, rows, gen, moves, call, others>>

RefuseOrder(w) ==
    LET o == call[w].order IN
    /\ pc[w] = "order"
    /\ OrderUnlocked(o)
    /\ ~Permitted(call[w], OrderRow(o))
    /\ Finish(w)
    /\ UNCHANGED <<bal, ledger, status, rows, gen, moves>>

(* Mutant: the rows are locked in whatever order the request lists them. *)
LockMaterialAnyOrder(w, m) ==
    /\ pc[w] = "materials"
    /\ m \in ToLock(w)
    /\ LockRow(w, m)
    /\ UNCHANGED <<bal, ledger, flowVars>>

(* Consumable rows are locked one by one, smallest id first.               *)
LockMaterial(w, m) ==
    /\ pc[w] = "materials"
    /\ m \in ToLock(w)
    /\ \A n \in ToLock(w) : m <= n
    /\ LockRow(w, m)
    /\ UNCHANGED <<bal, ledger, flowVars>>

-----------------------------------------------------------------------------
(* dispatch_materials, receive_materials, consume_materials *)

TxType(kind) == IF kind = "dispatch" THEN "send_factory" ELSE kind

(* Mutant: a receipt is bounded by the shared transit counter alone. *)
WithinTransitOnly(kind, row, qty) ==
    CASE kind = "dispatch"        -> qty <= row.reserved
      [] kind = "factory_receive" -> TRUE
      [] kind = "consume"         -> qty <= row.received - row.consumed

Within(kind, row, qty) ==
    CASE kind = "dispatch"        -> qty <= row.reserved
      [] kind = "factory_receive" -> qty <= row.dispatched - row.received
      [] kind = "consume"         -> qty <= row.received - row.consumed

(* Mutant: the unique constraint is missing. *)
NoConstraint(c) == c.items # <<>>

(* The unique constraint (request_key, reservation, movement type).        *)
NoDuplicate(c) == \A v \in SameKey(c) : v.mat \notin DOMAIN c.items

FlowAllowed(w) ==
    LET c == call[w] IN
    /\ \A m \in DOMAIN c.items :
          /\ Within(c.kind, snap[w].rows[m], c.items[m])
          /\ Affordable(view[w][m], TxType(c.kind), "factory", c.items[m])
    /\ NoDuplicate(c)

(* Only the attributes the handler assigns are written, with values        *)
(* computed from the row it read.                                          *)
Advance(kind, cur, old, qty) ==
    CASE kind = "dispatch" ->
           [cur EXCEPT !.reserved = old.reserved - qty, !.dispatched = old.dispatched + qty]
      [] kind = "factory_receive" -> [cur EXCEPT !.received = old.received + qty]
      [] kind = "consume" -> [cur EXCEPT !.consumed = old.consumed + qty]

Movement(c, m) ==
    [order |-> c.order, kind |-> c.kind, key |-> c.key, mat |-> m, qty |-> c.items[m]]

MovementEntry(c, m) ==
    [source |-> <<"movement", c.order, c.kind, c.key, m>>, mat |-> m,
     type |-> TxType(c.kind), loc |-> "factory", qty |-> c.items[m]]

CommitFlow(w) ==
    LET c == call[w]  o == call[w].order IN
    /\ pc[w] = "materials" /\ IsFlow(c) /\ ToLock(w) = {}
    /\ FlowAllowed(w)
    /\ moves' = moves \cup {Movement(c, m) : m \in DOMAIN c.items}
    /\ ledger' = ledger \cup {MovementEntry(c, m) : m \in DOMAIN c.items}
    /\ bal' = [m \in Materials |->
          IF m \in DOMAIN c.items
          THEN Posted(bal[m], view[w][m], TxType(c.kind), "factory", c.items[m])
          ELSE bal[m]]
    /\ rows' = [rows EXCEPT ![o] = [m \in DOMAIN rows[o] |->
          IF m \in DOMAIN c.items
          THEN Advance(c.kind, rows[o][m], snap[w].rows[m], c.items[m])
          ELSE rows[o][m]]]
    /\ status' = IF snap[w].status = "planned" /\ c.kind # "consume"
                 THEN [status EXCEPT ![o] = "confirmed"] ELSE status
    /\ Finish(w)
    /\ UNCHANGED gen

RefuseFlow(w) ==
    /\ pc[w] = "materials" /\ IsFlow(call[w]) /\ ToLock(w) = {}
    /\ ~FlowAllowed(w)
    /\ Finish(w)
    /\ UNCHANGED <<bal, ledger, status, rows, gen, moves>>

-----------------------------------------------------------------------------
(* create_production_order, recalculate_production_materials, cancel *)

ReservedBy(o, m) == IF m \in DOMAIN rows[o] THEN rows[o][m].reserved ELSE 0

(* Mutant: planned orders are forgotten among the open ones. *)
OtherReservedConfirmed(o, m) ==
    Total([x \in {y \in Orders \ {o} : status[y] = "confirmed"} |-> ReservedBy(x, m)])

OtherReserved(o, m) ==
    Total([x \in {y \in Orders \ {o} : status[y] \in Open} |-> ReservedBy(x, m)])

ReadOthers(w) ==
    LET c == call[w] IN
    /\ pc[w] = "materials" /\ IsReserve(c) /\ ToLock(w) = {}
    /\ others' = [others EXCEPT ![w] = [m \in MaterialsOf(c.order) |-> OtherReserved(c.order, m)]]
    /\ Goto(w, "commit")
    /\ UNCHANGED <<ledgerVars, status, rows, gen, moves, call, snap>>

Smaller(a, b) == IF a <= b THEN a ELSE b
Available(stock, taken) == IF taken < stock THEN stock - taken ELSE 0

FreshRow(w, o, m) ==
    [required |-> Required[o][m],
     reserved |-> Smaller(Required[o][m], Available(view[w][m].own, others[w][m])),
     dispatched |-> 0, received |-> 0, consumed |-> 0]

CommitReserve(w) ==
    LET c == call[w]  o == call[w].order IN
    /\ pc[w] = "commit"
    /\ rows' = [rows EXCEPT ![o] = [m \in MaterialsOf(o) |-> FreshRow(w, o, m)]]
    /\ gen' = [gen EXCEPT ![o] = @ + 1]
    /\ status' = IF c.kind = "create" THEN [status EXCEPT ![o] = "planned"] ELSE status
    /\ Finish(w)
    /\ UNCHANGED <<bal, ledger, moves>>

(* Mutant: a misspelt status. *)
CommitCancelMisspelt(w) ==
    /\ pc[w] = "materials" /\ call[w].kind = "cancel"
    /\ status' = [status EXCEPT ![call[w].order] = "canceled"]
    /\ Finish(w)
    /\ UNCHANGED <<bal, ledger, rows, gen, moves>>

CommitCancel(w) ==
    /\ pc[w] = "materials" /\ call[w].kind = "cancel"
    /\ status' = [status EXCEPT ![call[w].order] = "cancelled"]
    /\ Finish(w)
    /\ UNCHANGED <<bal, ledger, rows, gen, moves>>

-----------------------------------------------------------------------------
(* record_transaction called by the API: the key is looked up under the    *)
(* row lock.                                                               *)

TxEntry(t) ==
    [source |-> <<"request", t.key>>, mat |-> t.mat,
     type |-> t.type, loc |-> t.loc, qty |-> t.qty]

Registered(t) == \E e \in ledger : e.source = <<"request", t.key>>

CommitTransaction(w) ==
    LET t == call[w] IN
    /\ pc[w] = "materials" /\ t.kind = "transaction" /\ ToLock(w) = {}
    /\ ~Registered(t)
    /\ Affordable(view[w][t.mat], t.type, t.loc, t.qty)
    /\ ledger' = ledger \cup {TxEntry(t)}
    /\ bal' = [bal EXCEPT ![t.mat] = Posted(@, view[w][t.mat], t.type, t.loc, t.qty)]
    /\ Finish(w)
    /\ UNCHANGED <<status, rows, gen, moves>>

AnswerTransaction(w) ==     \* replayed, or refused
    LET t == call[w] IN
    /\ pc[w] = "materials" /\ t.kind = "transaction" /\ ToLock(w) = {}
    /\ \/ Registered(t)
       \/ ~Affordable(view[w][t.mat], t.type, t.loc, t.qty)
    /\ Finish(w)
    /\ UNCHANGED <<bal, ledger, status, rows, gen, moves>>

-----------------------------------------------------------------------------
(* The process or its connection dies: the database rolls the session back *)
(* and the client, who got no answer, may send the same request again.     *)
Crash(w) ==
    /\ pc[w] # "idle"
    /\ Finish(w)
    /\ UNCHANGED <<bal, ledger, status, rows, gen, moves>>

Start(w) ==
    \/ \E r \in FlowRequests : \E g \in 1..gen[r.order] : StartFlow(w, r, g)
    \/ \E o \in Orders : StartCreate(w, o)
    \/ \E o \in Orders, kind \in {"recalculate", "cancel"} : StartOrderCall(w, kind, o)
    \/ \E t \in Transactions : StartTransaction(w, t)

Step(w) ==
    \/ LockOrder(w) \/ RefuseOrder(w)
    \/ \E m \in Materials : LockMaterial(w, m)
    \/ CommitFlow(w) \/ RefuseFlow(w)
    \/ ReadOthers(w) \/ CommitReserve(w) \/ CommitCancel(w)
    \/ CommitTransaction(w) \/ AnswerTransaction(w)

Next == \E w \in Workers : Start(w) \/ Step(w) \/ Crash(w)

Spec == Init /\ [][Next]_vars

(* Row locks are granted in the order of the waiting queue, so a session   *)
(* that can again and again take a lock does take it.                      *)
FairSpec == Spec /\ \A w \in Workers : SF_vars(Step(w))

-----------------------------------------------------------------------------
Row == [required : Quantity, reserved : Int, dispatched : Int,
        received : Int, consumed : Int]

(* Every variable has its type.                                            *)
TypeOK ==
    /\ bal \in [Materials -> Balance]
    /\ \A w \in Workers : DOMAIN view[w] \subseteq Materials
    /\ status \in [Orders -> Statuses]
    /\ \A o \in Orders : \A m \in DOMAIN rows[o] : m \in MaterialsOf(o) /\ rows[o][m] \in Row
    /\ gen \in [Orders -> Nat]
    /\ pc \in [Workers -> {"idle", "order", "materials", "commit"}]
    /\ \A w \in Workers : pc[w] = "idle" <=> call[w] = NoCall

MovedQty(o, m, kind) ==
    Total([v \in {u \in moves : u.order = o /\ u.mat = m /\ u.kind = kind} |-> v.qty])

(* The counters of a reservation are the movements on record: no movement  *)
(* is lost or counted twice, whatever the retries and crashes.             *)
CountersMatchMovements ==
    \A o \in Orders : \A m \in DOMAIN rows[o] :
        /\ rows[o][m].dispatched = MovedQty(o, m, "dispatch")
        /\ rows[o][m].received = MovedQty(o, m, "factory_receive")
        /\ rows[o][m].consumed = MovedQty(o, m, "consume")

(* The CheckConstraint of the reservation table never has to fire: what is *)
(* consumed was received, what is received was dispatched, what is         *)
(* reserved and dispatched was required.                                   *)
FlowOrdered ==
    \A o \in Orders : \A m \in DOMAIN rows[o] :
        LET r == rows[o][m] IN
        /\ 0 <= r.consumed /\ r.consumed <= r.received /\ r.received <= r.dispatched
        /\ 0 <= r.reserved /\ r.reserved + r.dispatched <= r.required

(* What the orders have on the road is in the transit counter, so a        *)
(* receipt the order allows is never refused for lack of goods in transit. *)
Outstanding(o, m) ==
    IF m \in DOMAIN rows[o] THEN rows[o][m].dispatched - rows[o][m].received ELSE 0

OutstandingInTransit ==
    \A m \in Materials : Total([o \in Orders |-> Outstanding(o, m)]) <= bal[m].transit

(* A cancelled order has sent nothing: dispatch and cancellation of one    *)
(* order exclude each other.                                               *)
CancelledSentNothing ==
    \A o \in Orders : status[o] = "cancelled" =>
        \A v \in moves : v.order # o

OpenReserved(m) == Total([o \in {x \in Orders : status[x] \in Open} |-> ReservedBy(o, m)])

(* An order call never promises stock another open order already has: it   *)
(* may leave the reservations within the stock or an existing excess (the  *)
(* stock was corrected or consumed elsewhere) no larger.                   *)
NoNewOverbooking ==
    [][(ledger' = ledger \/ moves' # moves) =>
          \A m \in Materials :
              \/ OpenReserved(m)' <= bal[m].own'
              \/ OpenReserved(m)' - bal[m].own' <= OpenReserved(m) - bal[m].own]_vars

(* A session that was served a request finishes it.                        *)
EveryCallEnds == \A w \in Workers : pc[w] # "idle" ~> pc[w] = "idle"

=============================================================================
