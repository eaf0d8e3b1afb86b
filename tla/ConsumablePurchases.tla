------------------------ MODULE ConsumablePurchases ------------------------
(***************************************************************************)
(* Purchases of consumables, their receipts, and the consumables used up   *)
(* by inbound documents (services/consumable_purchase_service.py and the   *)
(* inbound usage of services/consumable_service.py).                       *)
(*                                                                         *)
(* A purchase is received in several deliveries; an inbound link of the    *)
(* procurement chain consumes what its goods need.  Both post to the       *)
(* ledger, and both can be taken back: deleting a purchase reverses the    *)
(* entries of its receipts, changing or removing a usage reverses the old  *)
(* one.  The ledger keeps the original entries.                            *)
(*                                                                         *)
(* A call locks its document (the purchase, or the link), reads it, locks  *)
(* the consumables it is going to move, and commits; the deletion of an    *)
(* inbound document does so link by link.  What a call locks next follows  *)
(* from what it has locked and read: by id where a list is locked at once, *)
(* by ledger entry or by link where a deletion works its way through.      *)
(* Calls that hold one lock only are single actions.                       *)
(***************************************************************************)
EXTENDS ConsumableLedger, Sequences

CONSTANTS
    Purchases,    \* purchases that may be submitted
    Key, Source,  \* request key and 1688 order of each
    Ordered,      \* lines of each as submitted: consumable -> quantity
    Deliveries,   \* receipts that may be submitted: of, rows (the lines in
                  \* the order of the request), qty (consumable -> quantity)
    Edits,        \* new lines that may be submitted: of, qty
    Links,        \* inbound links
    Inbounds,     \* inbound documents: the sequences of their links, by id
    Usages,       \* usage that may be registered: link, qty
    Places,       \* what the consumables' warehouse may be: own, factory
    MaxIssued     \* bound: receipts and usages that may be made

Docs == Purchases \cup Links

(* Every quantity in a request is checked to be positive. *)
Lines(qty) == DOMAIN qty \subseteq Materials /\ \A m \in DOMAIN qty : qty[m] \in Nat \ {0}

ASSUME PurchaseAssumption ==
    /\ Docs \cap Materials = {} /\ Purchases \cap Links = {}
    /\ IsFiniteSet(Links)
    /\ \A s \in Purchases : Lines(Ordered[s])
    /\ \A d \in Deliveries : /\ d.of \in Purchases /\ Lines(d.qty) /\ DOMAIN d.qty # {}
                             /\ DOMAIN d.qty = {d.rows[i] : i \in DOMAIN d.rows}
    /\ \A e \in Edits : e.of \in Purchases /\ Lines(e.qty)
    /\ \A i \in Inbounds : /\ i \in Seq(Links) /\ i # <<>>
                           /\ \A j, k \in DOMAIN i : i[j] = i[k] => j = k
    /\ \A u \in Usages : u.link \in Links /\ Lines(u.qty)
    /\ Places # {} /\ Places \subseteq Locations
    /\ MaxIssued \in Nat

VARIABLES
    order,        \* every purchase: status and lines (ordered, got)
    receipts,     \* receipts on record: id and delivery
    usage,        \* every link: status and usage rows
    place,        \* the stock location the warehouse stands for
    issued,       \* ids given to receipts and usages
    call,         \* per session, the request it serves
    docs          \* per session, the documents it has locked

tables == <<order, receipts, usage, place, issued>>
vars == <<bal, ledger, view, order, receipts, usage, place, issued, call, docs>>

NoLines == [m \in {} |-> 0]
NoPurchase == [status |-> "absent", lines |-> NoLines]
NoUsage == [status |-> "open", rows |-> NoLines]

(* Mutant: a misspelt status. *)
GoneMisspelt == [NoUsage EXCEPT !.status = "removed"]

Gone == [NoUsage EXCEPT !.status = "gone"]
NoCall == [kind |-> "none", on |-> <<>>]

Init ==
    /\ LedgerInit
    /\ order = [s \in Purchases |-> NoPurchase]
    /\ receipts = {}
    /\ usage = [l \in Links |-> NoUsage]
    /\ place \in Places
    /\ issued = 0
    /\ call = [w \in Workers |-> NoCall]
    /\ docs = [w \in Workers |-> {}]

-----------------------------------------------------------------------------
(* Documents *)

ReceiptsOf(s) == {r \in receipts : r.delivery.of = s}

QtyOf(d, m) == IF m \in DOMAIN d.qty THEN d.qty[m] ELSE 0

(* The quantity of m in a set of receipts. *)
QtyIn(rs, m) == Total([r \in rs |-> QtyOf(r.delivery, m)])

UsedQty(l, m) == IF m \in DOMAIN usage[l].rows THEN usage[l].rows[m].qty ELSE 0

(* The quantity of m used up by a set of links. *)
UsedBy(ls, m) == Total([l \in ls |-> UsedQty(l, m)])

(* The unique indexes: the request key of all purchases, and the 1688      *)
(* order of those that are not cancelled.                                  *)
SourceTaken(s) ==
    \E t \in Purchases \ {s} :
        Source[t] = Source[s] /\ order[t].status \notin {"absent", "cancelled"}

KeyTaken(s) == \E t \in Purchases : Key[t] = Key[s] /\ order[t].status # "absent"

Complete(lines) == \A m \in DOMAIN lines : lines[m].got >= lines[m].ordered
Begun(lines) == \E m \in DOMAIN lines : lines[m].got > 0

-----------------------------------------------------------------------------
(* Sessions *)

Serves(w, k) == call[w].kind = k

Finish(w) ==
    /\ call' = [call EXCEPT ![w] = NoCall]
    /\ docs' = [docs EXCEPT ![w] = {}]
    /\ ReleaseRows(w)

(* A request says on which documents it works, in the order it locks them. *)
Begin(w, request) ==
    /\ Serves(w, "none")
    /\ call' = [call EXCEPT ![w] = request]
    /\ UNCHANGED <<ledgerVars, tables, docs>>

Free(d) == \A w \in Workers : d \notin docs[w]

Received(rs) == UNION {DOMAIN r.delivery.qty : r \in rs}

(* The consumables a call moves on account of document d. *)
RowsOf(w, d) ==
    CASE Serves(w, "receive") -> DOMAIN call[w].delivery.qty
      [] Serves(w, "delete")  -> Received(ReceiptsOf(d))
      [] Serves(w, "use")     -> DOMAIN usage[d].rows \cup DOMAIN call[w].new.qty
      [] OTHER                -> DOMAIN usage[d].rows

(* Of these, what it has still to lock. *)
RowsLeft(w) == (UNION {RowsOf(w, d) : d \in docs[w]}) \ DOMAIN view[w]

(* Of the consumables ms, m comes first in the ledger entries of the       *)
(* receipts rs.                                                            *)
EntersFirst(rs, ms, m) ==
    \E r \in rs : \E i \in DOMAIN r.delivery.rows :
        /\ r.delivery.rows[i] = m
        /\ \A q \in rs : \A j \in DOMAIN q.delivery.rows :
              q.delivery.rows[j] \in ms => r.id < q.id \/ (r.id = q.id /\ i <= j)

(* Mutant: the consumables are locked in no fixed order.                   *)
AnyRowLeft(w, m) == m \in RowsLeft(w)

(* The consumable a call locks next: a list of them is locked by id, a     *)
(* deletion follows the ledger entries of the receipts.                    *)
NextRow(w, m) ==
    /\ m \in RowsLeft(w)
    /\ IF Serves(w, "delete") THEN EntersFirst(ReceiptsOf(call[w].of), RowsLeft(w), m)
       ELSE \A n \in RowsLeft(w) : m <= n

(* The document a call locks next, when it holds what the earlier need.    *)
NextDocument(w, d) ==
    /\ RowsLeft(w) = {}
    /\ d \notin docs[w]
    /\ \E k \in DOMAIN call[w].on :
          call[w].on[k] = d /\ \A j \in 1..(k - 1) : call[w].on[j] \in docs[w]

AllLocked(w) ==
    /\ RowsLeft(w) = {}
    /\ \A k \in DOMAIN call[w].on : call[w].on[k] \in docs[w]

(* Mutant: a repeated delivery is taken for a new one. *)
DeliverableAgain(d) ==
    LET o == order[d.of] IN
    /\ o.status \in {"ordered", "partial"}
    /\ \A m \in DOMAIN d.qty : m \in DOMAIN o.lines

Deliverable(d) ==
    LET o == order[d.of] IN
    /\ o.status \in {"ordered", "partial"}
    /\ \A r \in receipts : r.delivery # d
    /\ \A m \in DOMAIN d.qty :
          m \in DOMAIN o.lines /\ o.lines[m].got + d.qty[m] <= o.lines[m].ordered

SameUsage(l, qty) ==
    /\ usage[l].status = (IF qty = NoLines THEN "without" ELSE "with")
    /\ [m \in DOMAIN usage[l].rows |-> usage[l].rows[m].qty] = qty

(* What a call finds when it has locked document d.                        *)
Accepts(w, d) ==
    CASE Serves(w, "receive") -> Deliverable(call[w].delivery)
      [] Serves(w, "delete")  -> order[d].status # "absent"
      [] Serves(w, "use")     -> usage[d].status # "gone" /\ ~SameUsage(d, call[w].new.qty)
      [] OTHER                -> usage[d].status # "gone"

LockDocument(w) ==
    \E d \in Docs :
        /\ NextDocument(w, d) /\ Free(d) /\ Accepts(w, d)
        /\ docs' = [docs EXCEPT ![w] = @ \cup {d}]
        /\ UNCHANGED <<ledgerVars, tables, call>>

Refuse(w) ==
    /\ \E d \in Docs : NextDocument(w, d) /\ Free(d) /\ ~Accepts(w, d)
    /\ Finish(w)
    /\ UNCHANGED <<bal, ledger, tables>>

LockConsumable(w) ==
    \E m \in Materials :
        /\ NextRow(w, m)
        /\ LockRow(w, m)
        /\ UNCHANGED <<bal, ledger, tables, call, docs>>

(* Bound: ids are given at the commit, and only so many calls may ask. *)
MayIssue ==
    issued + Cardinality({w \in Workers : Serves(w, "receive") \/ Serves(w, "use")}) < MaxIssued

-----------------------------------------------------------------------------
(* create_purchase: the key is looked up first, the row inserted later     *)
(* unless it meets a unique index.                                         *)
StartCreate(w, s) ==
    /\ ~KeyTaken(s)
    /\ Begin(w, [kind |-> "create", of |-> s, on |-> <<>>])

CommitCreate(w) ==
    LET s == call[w].of IN
    /\ Serves(w, "create")
    /\ ~KeyTaken(s) /\ ~SourceTaken(s)
    /\ order' = [order EXCEPT ![s] =
          [status |-> "ordered",
           lines |-> [m \in DOMAIN Ordered[s] |-> [ordered |-> Ordered[s][m], got |-> 0]]]]
    /\ Finish(w)
    /\ UNCHANGED <<bal, ledger, receipts, usage, place, issued>>

RefuseCreate(w) ==
    /\ Serves(w, "create")
    /\ KeyTaken(call[w].of) \/ SourceTaken(call[w].of)
    /\ Finish(w)
    /\ UNCHANGED <<bal, ledger, tables>>

-----------------------------------------------------------------------------
(* receive_purchase *)
StartReceive(w, d) ==
    /\ order[d.of].status # "absent"
    /\ MayIssue
    /\ Begin(w, [kind |-> "receive", delivery |-> d, on |-> <<d.of>>])

Entry(source, m, type, loc, qty) ==
    [source |-> source, mat |-> m, type |-> type, loc |-> loc, qty |-> qty]

ReceiptEntry(r, m) == Entry(<<"receipt", r.id>>, m, "purchase", place, r.delivery.qty[m])

CommitReceive(w) ==
    LET d == call[w].delivery
        r == [id |-> issued + 1, delivery |-> d]
        old == order[d.of].lines
        lines == [m \in DOMAIN old |->
                    [ordered |-> old[m].ordered, got |-> old[m].got + QtyOf(d, m)]]
    IN
    /\ Serves(w, "receive") /\ AllLocked(w)
    /\ receipts' = receipts \cup {r}
    /\ issued' = issued + 1
    /\ ledger' = ledger \cup {ReceiptEntry(r, m) : m \in DOMAIN d.qty}
    /\ bal' = [m \in Materials |->
          IF m \in DOMAIN d.qty
          THEN Posted(bal[m], view[w][m], "purchase", place, d.qty[m]) ELSE bal[m]]
    /\ order' = [order EXCEPT ![d.of] =
          [status |-> IF Complete(lines) THEN "received" ELSE "partial", lines |-> lines]]
    /\ Finish(w)
    /\ UNCHANGED <<usage, place>>

-----------------------------------------------------------------------------
(* delete_purchase: each entry of its receipts is reversed where the       *)
(* warehouse is now, and the total purchased goes back by what was got.    *)
StartDelete(w, s) ==
    /\ order[s].status # "absent"
    /\ Begin(w, [kind |-> "delete", of |-> s, on |-> <<s>>])

ReversalOfReceipt(r, m) ==
    Entry(<<"consumable_receipt_reversal", r.id>>, m, "manual", place, -r.delivery.qty[m])

CommitDelete(w) ==
    LET s == call[w].of
        rs == ReceiptsOf(s)
    IN
    /\ Serves(w, "delete") /\ AllLocked(w)
    /\ ledger' = ledger \cup
          UNION {{ReversalOfReceipt(r, m) : m \in DOMAIN r.delivery.qty} : r \in rs}
    /\ bal' = [m \in Materials |->
          IF m \in Received(rs)
          THEN [Posted(bal[m], view[w][m], "manual", place, -QtyIn(rs, m))
                  EXCEPT !.purchased = view[w][m].purchased - order[s].lines[m].got]
          ELSE bal[m]]
    /\ receipts' = receipts \ rs
    /\ order' = [order EXCEPT ![s] = NoPurchase]
    /\ Finish(w)
    /\ UNCHANGED <<usage, place, issued>>

-----------------------------------------------------------------------------
(* cancel_purchase, reopen_purchase, update_purchase: one lock, one commit *)
Cancel(s) ==
    /\ Free(s)
    /\ order[s].status \in {"ordered", "cancelled"}
    /\ order' = [order EXCEPT ![s].status = "cancelled"]
    /\ UNCHANGED <<ledgerVars, receipts, usage, place, issued, call, docs>>

Reopen(s) ==
    /\ Free(s)
    /\ order[s].status = "cancelled" /\ ~Begun(order[s].lines) /\ ~SourceTaken(s)
    /\ order' = [order EXCEPT ![s].status = "ordered"]
    /\ UNCHANGED <<ledgerVars, receipts, usage, place, issued, call, docs>>

Editable(e) ==
    LET old == order[e.of].lines IN
    \A m \in DOMAIN old : IF m \in DOMAIN e.qty THEN e.qty[m] >= old[m].got ELSE old[m].got = 0

(* The status is computed from the lines a query returns before the        *)
(* session has flushed: the old lines, with the new quantities of those    *)
(* that stay, the removed ones included and the added ones missing.        *)
LinesBeforeFlush(e) ==
    LET old == order[e.of].lines IN
    [m \in DOMAIN old |->
        [ordered |-> IF m \in DOMAIN e.qty THEN e.qty[m] ELSE old[m].ordered,
         got |-> old[m].got]]

Update(e) ==
    LET old == order[e.of]
        read == LinesBeforeFlush(e)
        status == IF ~Begun(read) THEN "ordered"
                  ELSE IF Complete(read) THEN "received" ELSE "partial"
    IN
    /\ Free(e.of)
    /\ old.status # "absent"
    /\ Editable(e)
    /\ old.status = "cancelled" => ~SourceTaken(e.of)
    /\ order' = [order EXCEPT ![e.of] =
          [status |-> status,
           lines |-> [m \in DOMAIN e.qty |->
              [ordered |-> e.qty[m],
               got |-> IF m \in DOMAIN old.lines THEN old.lines[m].got ELSE 0]]]]
    /\ UNCHANGED <<ledgerVars, receipts, usage, place, issued, call, docs>>

-----------------------------------------------------------------------------
(* set_inbound_usage: the old usage of the link is reversed, the new one   *)
(* consumed, in one transaction.                                           *)
StartUse(w, u) ==
    /\ MayIssue
    /\ Begin(w, [kind |-> "use", new |-> u, on |-> <<u.link>>])

(* The old entry is reversed where its warehouse is now. *)
ReversalPlace(row) == IF row.warehouse THEN place ELSE "own"

UsageReversal(l, m) ==
    Entry(<<"inbound_usage_reversal", usage[l].rows[m].id>>, m, "manual",
          ReversalPlace(usage[l].rows[m]), usage[l].rows[m].qty)

NotBelowZero(n) == IF n < 0 THEN 0 ELSE n

(* The row of m once the usage of link l is reversed. *)
Reversed(row, l, m) ==
    IF m \notin DOMAIN usage[l].rows THEN row
    ELSE LET old == usage[l].rows[m] IN
         [Posted(row, row, "manual", ReversalPlace(old), old.qty)
            EXCEPT !.used = NotBelowZero(@ - old.qty)]

(* The warehouse supplies the usage, except that a factory with nothing in *)
(* stock leaves it to the own stock when there is some, unless a purchase  *)
(* with a line for m has been received into the warehouse.                 *)
FromWarehouse(row, m) ==
    \/ ~(place = "factory" /\ row.factory = 0 /\ row.own > 0)
    \/ \E r \in receipts : m \in DOMAIN order[r.delivery.of].lines

UsagePlace(row, m) == IF FromWarehouse(row, m) THEN place ELSE "own"

Supplied(w) ==
    LET u == call[w].new IN
    \A m \in DOMAIN u.qty :
        LET row == Reversed(view[w][m], u.link, m) IN
        Affordable(row, "consume", UsagePlace(row, m), u.qty[m])

CommitUse(w) ==
    LET u == call[w].new
        l == u.link
        row(m) == Reversed(view[w][m], l, m)
        entry(m) == Entry(<<"inbound_usage", issued + 1>>, m, "consume", UsagePlace(row(m), m), u.qty[m])
    IN
    /\ Serves(w, "use") /\ AllLocked(w) /\ Supplied(w)
    /\ issued' = issued + 1
    /\ ledger' = ledger \cup {UsageReversal(l, m) : m \in DOMAIN usage[l].rows}
                        \cup {entry(m) : m \in DOMAIN u.qty}
    /\ bal' = [m \in Materials |->
          CASE m \in DOMAIN u.qty ->
                  Posted(row(m), row(m), "consume", UsagePlace(row(m), m), u.qty[m])
            [] m \in DOMAIN usage[l].rows \ DOMAIN u.qty -> row(m)
            [] OTHER -> bal[m]]
    /\ usage' = [usage EXCEPT ![l] =
          [status |-> IF u.qty = NoLines THEN "without" ELSE "with",
           rows |-> [m \in DOMAIN u.qty |->
              [id |-> issued + 1, qty |-> u.qty[m], warehouse |-> FromWarehouse(row(m), m)]]]]
    /\ Finish(w)
    /\ UNCHANGED <<order, receipts, place>>

RefuseUse(w) ==
    /\ Serves(w, "use") /\ AllLocked(w) /\ ~Supplied(w)
    /\ Finish(w)
    /\ UNCHANGED <<bal, ledger, tables>>

-----------------------------------------------------------------------------
(* remove_link and delete_local_purchase_inbound: the usages of one link,  *)
(* or of every link of an inbound document, are reversed.  A link that was *)
(* removed stays on record and may be used again, those of a deleted       *)
(* document do not.                                                        *)
StartRemove(w, l) ==
    /\ usage[l].status # "gone"
    /\ Begin(w, [kind |-> "remove", on |-> <<l>>])

StartDeleteInbound(w, i) ==
    /\ \A k \in DOMAIN i : usage[i[k]].status # "gone"
    /\ Begin(w, [kind |-> "deleteInbound", on |-> i])

(* The usages of a list of links: places in the list and consumables, in   *)
(* the order they are reversed.                                            *)
Reversals(links) ==
    {p \in (DOMAIN links) \X Materials : p[2] \in DOMAIN usage[links[p[1]]].rows}
Before(p, q) == p[1] < q[1] \/ (p[1] = q[1] /\ p[2] < q[2])

Repeated(links, p) ==
    \E q \in Reversals(links) :
        /\ Before(p, q) /\ q[2] = p[2]
        /\ \A x \in Reversals(links) : ~(Before(p, x) /\ Before(x, q))

(* used_qty is lowered in the session only.  The next usage re-reads its   *)
(* consumable before anything is flushed, so of several usages of the same *)
(* consumable in a row only the last one counts.                           *)
Lowered(links, m) ==
    Total([p \in {p \in Reversals(links) : p[2] = m /\ ~Repeated(links, p)} |->
              UsedQty(links[p[1]], m)])

(* What the reversals of m return to location a. *)
Returned(ls, m, a) ==
    UsedBy({l \in ls : m \in DOMAIN usage[l].rows /\ ReversalPlace(usage[l].rows[m]) = a}, m)

CommitRemove(w) ==
    LET on == call[w].on
        ls == {on[k] : k \in DOMAIN on}
    IN
    /\ Serves(w, "remove") \/ Serves(w, "deleteInbound")
    /\ AllLocked(w)
    /\ ledger' = ledger \cup
          UNION {{UsageReversal(l, m) : m \in DOMAIN usage[l].rows} : l \in ls}
    /\ bal' = [m \in Materials |->
          IF m \in DOMAIN view[w]
          THEN [a \in Accounts |->
                  CASE a \in Locations -> view[w][m][a] + Returned(ls, m, a)
                    [] a = "used"      -> NotBelowZero(view[w][m][a] - Lowered(on, m))
                    [] OTHER           -> view[w][m][a]]
          ELSE bal[m]]
    /\ usage' = [l \in Links |->
          IF l \notin ls THEN usage[l]
          ELSE IF Serves(w, "deleteInbound") THEN Gone ELSE NoUsage]
    /\ Finish(w)
    /\ UNCHANGED <<order, receipts, place, issued>>

-----------------------------------------------------------------------------
(* update_warehouse: the type of a warehouse may change at any time.       *)
ChangePlace ==
    /\ place' \in Places \ {place}
    /\ UNCHANGED <<ledgerVars, order, receipts, usage, issued, call, docs>>

(* The session's process or connection dies and is rolled back.            *)
Crash(w) ==
    /\ ~Serves(w, "none")
    /\ Finish(w)
    /\ UNCHANGED <<bal, ledger, tables>>

(* Sessions that wait for each other: each one asks for a lock that        *)
(* another one of them holds.                                              *)
Asks(v, x) == NextDocument(v, x) \/ NextRow(v, x)

WaitsFor(v, w) == v # w /\ \E x \in docs[w] \cup DOMAIN view[w] : Asks(v, x)

Deadlocked(S) == S # {} /\ \A v \in S : \E w \in S : WaitsFor(v, w)

(* PostgreSQL aborts one of them.                                          *)
AbortVictim(w) ==
    /\ \E S \in SUBSET Workers : w \in S /\ Deadlocked(S)
    /\ Finish(w)
    /\ UNCHANGED <<bal, ledger, tables>>

Start(w) ==
    \/ \E s \in Purchases : StartCreate(w, s) \/ StartDelete(w, s)
    \/ \E d \in Deliveries : StartReceive(w, d)
    \/ \E u \in Usages : StartUse(w, u)
    \/ \E l \in Links : StartRemove(w, l)
    \/ \E i \in Inbounds : StartDeleteInbound(w, i)

Step(w) ==
    \/ LockDocument(w) \/ Refuse(w) \/ LockConsumable(w) \/ AbortVictim(w)
    \/ CommitCreate(w) \/ RefuseCreate(w) \/ CommitReceive(w) \/ CommitDelete(w)
    \/ CommitUse(w) \/ RefuseUse(w) \/ CommitRemove(w)

Next ==
    \/ \E w \in Workers : Start(w) \/ Step(w) \/ Crash(w)
    \/ \E s \in Purchases : Cancel(s) \/ Reopen(s)
    \/ \E e \in Edits : Update(e)
    \/ ChangePlace

Spec == Init /\ [][Next]_vars

-----------------------------------------------------------------------------
(* Every variable has its type. *)
TypeOK ==
    /\ bal \in [Materials -> Balance]
    /\ \A w \in Workers : DOMAIN view[w] \subseteq Materials /\ docs[w] \subseteq Docs
    /\ \A s \in Purchases :
          /\ order[s].status \in {"absent", "ordered", "partial", "received", "cancelled"}
          /\ DOMAIN order[s].lines \subseteq Materials
    /\ \A r \in receipts : r.id \in 1..issued /\ r.delivery \in Deliveries
    /\ \A l \in Links : usage[l].status \in {"open", "with", "without", "gone"}
    /\ place \in Places /\ issued \in 0..MaxIssued

(* The stock is what the documents still on record say: the opening stock, *)
(* plus the receipts that were not deleted, minus the usages that were not *)
(* taken back, whatever was changed, deleted or moved to another location  *)
(* in between.  The total purchased is that of the receipts on record, and *)
(* each stock location is explained by the ledger.                         *)
BooksAreLiveDocuments ==
    \A m \in Materials :
        /\ bal[m].own + bal[m].factory + bal[m].transit
              = Opening[m] + QtyIn(receipts, m) - UsedBy(Links, m)
        /\ bal[m].purchased = QtyIn(receipts, m)
        /\ \A a \in Locations : Explained(m, a)

(* No line gets more than was ordered, and no delivery is on record twice, *)
(* whatever is repeated, edited, cancelled or deleted in between.          *)
WithinOrdered ==
    \A s \in Purchases : \A m \in DOMAIN order[s].lines :
        order[s].lines[m].got <= order[s].lines[m].ordered

DeliveredOnce == \A q, r \in receipts : q.delivery = r.delivery => q = r

(* A line has got what the receipts of its purchase brought; a purchase    *)
(* has receipts exactly when it is partial or received.                    *)
ReceiptsFitOrders ==
    /\ WithinOrdered /\ DeliveredOnce
    /\ \A s \in Purchases :
          /\ (order[s].status \in {"partial", "received"}) <=> (ReceiptsOf(s) # {})
          /\ \A m \in DOMAIN order[s].lines :
                order[s].lines[m].got = QtyIn(ReceiptsOf(s), m)

(* Sessions that wait for each other in a circle have a deletion among     *)
(* them: receipts, usages and removed links alone never block each other.  *)
OnlyDeletionsDeadlock ==
    \A S \in SUBSET Workers : Deadlocked(S) =>
        \E w \in S : Serves(w, "delete") \/ Serves(w, "deleteInbound")

(* The total used is that of the usages on record: deleting an inbound     *)
(* document takes its effects back.                                        *)
UsedIsLiveUsages == \A m \in Materials : bal[m].used = UsedBy(Links, m)

=============================================================================
