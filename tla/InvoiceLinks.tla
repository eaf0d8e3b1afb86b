---------------------------- MODULE InvoiceLinks ----------------------------
(***************************************************************************)
(* Which purchase an input invoice pays for: the links between invoices    *)
(* and purchases, the share each link allocates, and the cached            *)
(* match_status of the invoice (services/tax_invoice_service.py, the       *)
(* invoice part of services/procurement_chain_service.py).                 *)
(*                                                                         *)
(* A purchase made at 1688 is on record twice, as the platform's order and *)
(* as the external order of the workflow: the two are aliases and share    *)
(* one limit.  A red invoice offsets a blue one; what is left of the blue  *)
(* one may be allocated.                                                   *)
(*                                                                         *)
(* A manual link locks the purchase, then the invoice, decides, and        *)
(* commits.  Unlinking and confirming take no lock: they write their link, *)
(* read the links of the invoice, and write the status they computed when  *)
(* they commit.  An imported list reads an invoice and its links and       *)
(* writes them later.  Each transaction of the matching, confirming and    *)
(* purging jobs is one action that runs while no call is under way.        *)
(***************************************************************************)
EXTENDS Integers, FiniteSets, Totals

CONSTANTS
    Invoices, Reds,   \* blue and red invoices
    Amount,           \* the amount of each, a red one's without its sign
    Official,         \* the blue invoice a red one names, or NoInvoice
    Seller,           \* whose invoice it is
    Targets,          \* purchases that may be linked to
    Order,            \* the purchase a target is a record of
    Limit, Paid,      \* its amount for a manual link and for the matcher
    Swept,            \* targets the confirming job looks at
    Best,             \* the target supplier, amount and date point to
    Requests,         \* manual links: of, to, amount, a number or Rest
    Lists,            \* lines of lists that may be imported: of, said, and ref,
                      \* the order it names: a target, NoRef or Ambiguous
    Workers,          \* sessions that serve manual calls
    Alone,            \* kinds of calls assumed to run while no other one does
    Candidates,       \* the matcher may be asked for candidates only
    NoInvoice, NoTarget, NoRef, Ambiguous, Rest

Conditions == {"issued", "hinted", "void", "red"}
Blue == {"issued", "hinted", "void"}

ASSUME InvoiceAssumption ==
    /\ IsFiniteSet(Invoices) /\ IsFiniteSet(Reds) /\ IsFiniteSet(Targets)
    /\ Amount \in [Invoices \cup Reds -> Nat \ {0}]
    /\ Official \in [Reds -> Invoices \cup {NoInvoice}] /\ NoInvoice \notin Invoices
    /\ Limit \in [Targets -> Nat] /\ Paid \in [Targets -> Nat]
    /\ Best \in [Invoices -> Targets \cup {NoTarget}] /\ NoTarget \notin Targets
    /\ Requests \subseteq [of : Invoices, to : Targets, amount : (Nat \ {0}) \cup {Rest}]
    /\ Rest \notin Nat
    /\ Lists \subseteq [of : Invoices, said : Conditions,
                       ref : Targets \cup {NoRef, Ambiguous}]
    /\ NoRef \notin Targets /\ Ambiguous \notin Targets /\ NoRef # Ambiguous
    /\ Swept \subseteq Targets
    /\ Alone \subseteq {"link", "unlink", "confirm", "import", "pair"}
    /\ Candidates \in BOOLEAN

VARIABLES
    condition,    \* of every invoice: absent, or what the last list said
    links,        \* invoice -> target -> method, confirmed, amount
    status,       \* match_status of every invoice
    paired,       \* the blue invoice a red one was paired with by hand
    call          \* per session, the request it serves

vars == <<condition, links, status, paired, call>>

NoLink == [method |-> "none", confirmed |-> FALSE, amount |-> 0]
NoCall == [kind |-> "none"]

Init ==
    /\ condition = [i \in Invoices |-> "absent"]
    /\ links = [i \in Invoices |-> [t \in Targets |-> NoLink]]
    /\ status = [i \in Invoices |-> "unmatched"]
    /\ paired = [r \in Reds |-> NoInvoice]
    /\ call = [w \in Workers |-> NoCall]

-----------------------------------------------------------------------------
(* Amounts *)

Aliases(t) == {u \in Targets : Order[u] = Order[t]}

Active(link) == link.confirmed /\ link.method # "rejected"

ActiveOn(ls, i) == {t \in Targets : Active(ls[i][t])}

Share(link) == IF Active(link) THEN link.amount ELSE 0

(* What a set of links of an invoice, or of links to a target, allocate.   *)
AllocatedOf(ls, i, ts) == Total([t \in ts |-> Share(ls[i][t])])

AllocatedTo(ls, t) == Total([i \in Invoices |-> Share(ls[i][t])])

Covered(ls, t) == Total([u \in Aliases(t) |-> AllocatedTo(ls, u)])

(* A relation confirmed by hand goes before the one the red invoice names. *)
BlueOf(r) ==
    LET named == IF paired[r] # NoInvoice THEN paired[r] ELSE Official[r] IN
    IF named # NoInvoice /\ condition[named] \in Blue
    THEN named ELSE NoInvoice

Offset(i) == Total([r \in {q \in Reds : BlueOf(q) = i} |-> Amount[r]])

(* effective_invoice_amount_after_red.  An invoice whose list says it was  *)
(* offset counts for nothing as long as the red one is missing.            *)
Effective(i) ==
    CASE condition[i] \in {"absent", "void", "red"} -> 0
      [] condition[i] = "hinted" /\ Offset(i) = 0    -> 0
      [] Offset(i) >= Amount[i]                       -> 0
      [] OTHER                                       -> Amount[i] - Offset(i)

(* sync_business_match_status *)
Repeated(ls, i) ==
    \E t, u \in ActiveOn(ls, i) : t # u /\ Order[t] = Order[u]

(* Mutant: an excess after a red offset is not looked at. *)
StatusBlind(ls, i) ==
    LET sum == AllocatedOf(ls, i, Targets) IN
    IF Repeated(ls, i) THEN "needs_review"
    ELSE IF Effective(i) = 0 \/ sum = 0 THEN "unmatched"
    ELSE IF sum >= Effective(i) THEN "matched" ELSE "partial"

StatusOf(ls, i) ==
    LET sum == AllocatedOf(ls, i, Targets) IN
    IF sum > Effective(i) \/ Repeated(ls, i) THEN "needs_review"
    ELSE IF Effective(i) = 0 \/ sum = 0 THEN "unmatched"
    ELSE IF sum = Effective(i) THEN "matched" ELSE "partial"

Sync(is, ls) == status' = [i \in Invoices |-> IF i \in is THEN StatusOf(ls, i) ELSE status[i]]

-----------------------------------------------------------------------------
(* Sessions *)

Quiet == \A w \in Workers : call[w] = NoCall

NoneAlone == \A w \in Workers : call[w].kind \notin Alone

MayRun(kind) == (kind \in Alone => Quiet) /\ NoneAlone

Begin(w, request) ==
    /\ call[w] = NoCall
    /\ MayRun(request.kind)
    /\ call' = [call EXCEPT ![w] = request]
    /\ UNCHANGED <<condition, links, status, paired>>

Finish(w) == call' = [call EXCEPT ![w] = NoCall]

At(w, kind, step) == call[w].kind = kind /\ call[w].at = step

HoldsTarget(w, t) == call[w].kind = "link" /\ call[w].to = t /\ call[w].at # "target"

(* Mutant: the invoice is read without a lock. *)
ReadsInvoice(w, i) == FALSE /\ HoldsTarget(w, i)

HoldsInvoice(w, i) == call[w].kind = "link" /\ call[w].of = i /\ call[w].at = "commit"

HoldsLink(w, i, t) ==
    call[w].kind \in {"unlink", "confirm"} /\ call[w].of = i /\ call[w].to = t /\ call[w].writes

-----------------------------------------------------------------------------
(* link_purchase_order *)
StartLink(w, r) ==
    /\ condition[r.of] \notin {"absent", "red"}
    /\ Begin(w, [kind |-> "link", of |-> r.of, to |-> r.to, amount |-> r.amount,
                 at |-> "target"])

LockTarget(w) ==
    /\ At(w, "link", "target")
    /\ \A v \in Workers : ~HoldsTarget(v, call[w].to)
    /\ call' = [call EXCEPT ![w].at = "invoice"]
    /\ UNCHANGED <<condition, links, status, paired>>

(* What the invoice and the purchase have left for the pair.               *)
LeftOf(i, t) == Effective(i) - AllocatedOf(links, i, Targets \ {t})

LeftTo(i, t) ==
    Limit[t] - (Covered(links, t) - IF Active(links[i][t]) THEN links[i][t].amount ELSE 0)

AmountFor(w) ==
    LET i == call[w].of
        t == call[w].to
    IN  IF call[w].amount # Rest THEN call[w].amount
        ELSE IF Limit[t] > 0 /\ LeftTo(i, t) < LeftOf(i, t) THEN LeftTo(i, t)
        ELSE LeftOf(i, t)

Fits(w) ==
    LET i == call[w].of
        t == call[w].to
    IN  /\ Effective(i) > 0
        /\ \A u \in Aliases(t) \ {t} : ~Active(links[i][u])
        /\ AmountFor(w) > 0
        /\ AmountFor(w) <= LeftOf(i, t)
        /\ Limit[t] > 0 => AmountFor(w) <= LeftTo(i, t)

LockInvoice(w) ==
    /\ At(w, "link", "invoice")
    /\ \A v \in Workers : ~HoldsInvoice(v, call[w].of)
    /\ IF Fits(w)
       THEN call' = [call EXCEPT ![w] = [kind |-> "link", of |-> call[w].of, to |-> call[w].to,
                       amount |-> AmountFor(w), at |-> "commit",
                       loaded |-> links[call[w].of][call[w].to]]]
       ELSE Finish(w)
    /\ UNCHANGED <<condition, links, status, paired>>

(* An update writes the columns that differ from what was loaded. *)
Written(row, loaded, new) ==
    [c \in DOMAIN row |-> IF new[c] # loaded[c] THEN new[c] ELSE row[c]]

Manual(amount) == [method |-> "manual", confirmed |-> TRUE, amount |-> amount]

CommitLink(w) ==
    LET i == call[w].of
        t == call[w].to
    IN
    /\ At(w, "link", "commit")
    /\ \A v \in Workers : ~HoldsLink(v, i, t)
    /\ links' = [links EXCEPT ![i][t] = Written(@, call[w].loaded, Manual(call[w].amount))]
    /\ Sync({i}, links')
    /\ Finish(w)
    /\ UNCHANGED <<condition, paired>>

-----------------------------------------------------------------------------
(* unlink_purchase *)
(* Mutant: a status no other call knows. *)
RejectedMisspelt(link) == [link EXCEPT !.method = "removed", !.confirmed = FALSE]

Rejected(link) == [link EXCEPT !.method = "rejected", !.confirmed = FALSE]

(* The status is written if it differs from the one that was loaded.       *)
StatusWritten(i, loaded, new) == IF new # loaded THEN new ELSE status[i]

(* A call that changes a link first and computes the status at once.       *)
Change(kind, i, t, link) ==
    [kind |-> kind, of |-> i, to |-> t, writes |-> link # links[i][t], was |-> status[i],
     status |-> StatusOf([links EXCEPT ![i][t] = link], i)]

StartUnlink(w, i, t) ==
    /\ links[i][t].method \notin {"none", "rejected"}
    /\ \A v \in Workers : ~HoldsLink(v, i, t)
    /\ Begin(w, Change("unlink", i, t, Rejected(links[i][t])))

CommitUnlink(w) ==
    LET i == call[w].of
        t == call[w].to
    IN
    /\ call[w].kind = "unlink"
    /\ \A v \in Workers : ~HoldsInvoice(v, i)
    /\ links' = [links EXCEPT ![i][t] = Rejected(@)]
    /\ status' = [status EXCEPT ![i] = StatusWritten(i, call[w].was, call[w].status)]
    /\ Finish(w)
    /\ UNCHANGED <<condition, paired>>

-----------------------------------------------------------------------------
(* confirm_invoice *)
Confirmed(link) == [link EXCEPT !.confirmed = TRUE]

StartConfirm(w, i, t) ==
    /\ links[i][t].method # "none"
    /\ links[i][t].confirmed \/ \A v \in Workers : ~HoldsLink(v, i, t)
    /\ Begin(w, Change("confirm", i, t, Confirmed(links[i][t])))

CommitConfirm(w) ==
    LET i == call[w].of
        t == call[w].to
    IN
    /\ call[w].kind = "confirm"
    /\ call[w].status # call[w].was => \A v \in Workers : ~HoldsInvoice(v, i)
    /\ links' = IF call[w].writes THEN [links EXCEPT ![i][t] = Confirmed(@)] ELSE links
    /\ status' = [status EXCEPT ![i] = StatusWritten(i, call[w].was, call[w].status)]
    /\ Finish(w)
    /\ UNCHANGED <<condition, paired>>

(* A session's process dies, or the database aborts it in a deadlock, and  *)
(* the transaction is rolled back.                                         *)
Crash(w) ==
    /\ call[w] # NoCall
    /\ Finish(w)
    /\ UNCHANGED <<condition, links, status, paired>>

-----------------------------------------------------------------------------
(* set_manual_red_blue_relation, clear_manual_red_blue_relation: they lock *)
(* nothing and leave the status of the blue invoice alone.                 *)
Pair(r, i) ==
    /\ MayRun("pair")
    /\ condition[i] \in Blue /\ Seller[r] = Seller[i]
    /\ paired' = [paired EXCEPT ![r] = i]
    /\ UNCHANGED <<condition, links, status, call>>

Unpair(r) ==
    /\ MayRun("pair")
    /\ paired' = [paired EXCEPT ![r] = NoInvoice]
    /\ UNCHANGED <<condition, links, status, call>>

-----------------------------------------------------------------------------
(* _ingest_rows, for one invoice of a list *)
Unconfirmed(link) ==
    IF link.method = "source_ref" /\ link.confirmed
    THEN [link EXCEPT !.confirmed = FALSE] ELSE link

(* _auto_link: the order a list names takes the whole invoice, also over   *)
(* the amount of an earlier link of the pair.                              *)
Named(i) == [method |-> "source_ref", confirmed |-> TRUE, amount |-> Amount[i]]

(* Mutant: a link that was taken apart by hand is linked again. *)
MayFollowAgain(row, ref, said) == ref \in Targets /\ said \in {"issued", "hinted"}

MayFollow(row, ref, said) ==
    /\ ref \in Targets /\ said \in {"issued", "hinted"}
    /\ row[ref].method # "rejected"

(* The links as the list leaves them: a reference that is ambiguous, or to *)
(* an invoice that no longer counts, takes back what lists confirmed; one  *)
(* that was rejected by hand changes nothing.                              *)
Followed(row, i, ref, said) ==
    CASE MayFollow(row, ref, said) -> [row EXCEPT ![ref] = Named(i)]
      [] ref = Ambiguous \/ (ref \in Targets /\ said \in {"void", "red"}) ->
            [t \in Targets |-> Unconfirmed(row[t])]
      [] OTHER -> row

Fallback(ref, said) ==
    IF ref \in Targets /\ said \in {"void", "red"} THEN "unmatched" ELSE "needs_review"

StartImport(w, l) ==
    Begin(w, [kind |-> "import", of |-> l.of, ref |-> l.ref, said |-> l.said,
              known |-> condition[l.of], was |-> status[l.of], before |-> links[l.of],
              after |-> Followed(links[l.of], l.of, l.ref, l.said)])

(* Somebody else has put the invoice or the link on record meanwhile: the  *)
(* insertion breaks a unique constraint.                                   *)
Collides(w) ==
    LET i == call[w].of IN
    \/ call[w].known = "absent" /\ condition[i] # "absent"
    \/ \E t \in Targets : /\ call[w].before[t] = NoLink /\ call[w].after[t] # NoLink
                          /\ links[i][t] # NoLink

CommitImport(w) ==
    /\ call[w].kind = "import"
    /\ UNCHANGED paired
    /\ \E i \in {call[w].of}, new \in {call[w].after} :
          /\ \A v \in Workers : ~HoldsInvoice(v, i)
          /\ \A t \in Targets :
                new[t] # call[w].before[t] => \A v \in Workers : ~HoldsLink(v, i, t)
          /\ IF Collides(w) THEN UNCHANGED <<condition, links, status>>
             ELSE /\ condition' = [condition EXCEPT ![i] = call[w].said]
                  /\ links' = [links EXCEPT ![i] =
                        [t \in Targets |-> Written(@[t], call[w].before[t], new[t])]]
                  /\ status' = [status EXCEPT ![i] =
                        IF call[w].ref = NoRef THEN @
                        ELSE StatusWritten(i, call[w].was,
                               IF ActiveOn(links', i) = {} THEN Fallback(call[w].ref, call[w].said)
                               ELSE StatusOf(links, i)')]
    /\ Finish(w)

-----------------------------------------------------------------------------
(* run_match, its invoices *)
Matchable ==
    {i \in Invoices : /\ condition[i] \notin {"absent", "red"}
                      /\ Best[i] # NoTarget
                      /\ \A u \in Aliases(Best[i]) : links[i][u].method = "none"}

SumOf(is) == Total([i \in is |-> Amount[i]])

(* The invoices that get a link, taken in some order, each if what its     *)
(* purchase was paid still covers it: a set that is covered and to which   *)
(* none of those left can be added.                                        *)
ToSameOrder(is, t) == {i \in is : Order[Best[i]] = Order[t]}

Covers(t, is) == Paid[t] > 0 => Covered(links, t) + SumOf(ToSameOrder(is, t)) <= Paid[t]

Taken(is) ==
    /\ \A i \in is : Covers(Best[i], is)
    /\ \A i \in Matchable \ is : ~Covers(Best[i], is \cup {i})

Match(confirm) ==
    /\ Quiet
    /\ \E is \in SUBSET Matchable :
          /\ Taken(is)
          /\ links' = [i \in Invoices |->
                IF i \in is
                THEN [links[i] EXCEPT ![Best[i]] =
                        [method |-> "auto", confirmed |-> confirm, amount |-> Amount[i]]]
                ELSE links[i]]
          /\ Sync(IF confirm THEN is ELSE {}, links')
    /\ UNCHANGED <<condition, paired, call>>

(* auto_confirm_pending_links, its invoices *)
Sweepable(link) == link.method \notin {"none", "rejected"}

Sweep ==
    LET after == [i \in Invoices |-> [t \in Targets |->
                    IF t \in Swept /\ Sweepable(links[i][t])
                    THEN Confirmed(links[i][t]) ELSE links[i][t]]]
    IN
    /\ Quiet
    /\ links' = after
    /\ Sync({i \in Invoices : \E t \in Swept : Sweepable(links[i][t])}, after)
    /\ UNCHANGED <<condition, paired, call>>

(* purge_voided_invoice_links *)
Purge ==
    LET gone == {i \in Invoices : condition[i] = "red" /\ ActiveOn(links, i) # {}} IN
    /\ Quiet
    /\ links' = [i \in Invoices |-> [t \in Targets |->
          IF i \in gone /\ Active(links[i][t]) THEN Rejected(links[i][t]) ELSE links[i][t]]]
    /\ Sync(gone, links')
    /\ UNCHANGED <<condition, paired, call>>

Next ==
    \/ \E w \in Workers :
          \/ \E r \in Requests : StartLink(w, r)
          \/ \E i \in Invoices, t \in Targets : StartUnlink(w, i, t)
          \/ \E i \in Invoices, t \in Targets : StartConfirm(w, i, t)
          \/ \E l \in Lists : StartImport(w, l)
          \/ LockTarget(w) \/ LockInvoice(w) \/ CommitLink(w)
          \/ CommitUnlink(w) \/ CommitConfirm(w) \/ CommitImport(w) \/ Crash(w)
    \/ \E r \in Reds : Unpair(r) \/ \E i \in Invoices : Pair(r, i)
    \/ Match(TRUE) \/ (Candidates /\ Match(FALSE)) \/ Sweep \/ Purge

Spec == Init /\ [][Next]_vars
-----------------------------------------------------------------------------
(* Every variable has its type. *)
TypeOK ==
    /\ condition \in [Invoices -> Conditions \cup {"absent"}]
    /\ \A i \in Invoices, t \in Targets :
          /\ links[i][t].method \in {"none", "manual", "auto", "source_ref", "rejected"}
          /\ links[i][t].amount \in Nat
    /\ status \in [Invoices -> {"unmatched", "partial", "matched", "needs_review"}]
    /\ paired \in [Reds -> Invoices \cup {NoInvoice}]

MadeByHand(i, t) == links'[i][t] # links[i][t] /\ links'[i][t].method = "manual"

(* A manual link leaves neither the invoice, after its red ones, nor the   *)
(* record of the purchase with more allocated than it is worth, and never  *)
(* takes the invoice to a purchase twice, whatever other links are made    *)
(* and unmade at the same time.                                            *)
LinkFits ==
    [][\A i \in Invoices, t \in Targets : MadeByHand(i, t) =>
             /\ AllocatedOf(links', i, Targets) <= Effective(i)
             /\ Limit[t] > 0 => AllocatedTo(links', t) <= Limit[t]
             /\ \A u \in Aliases(t) \ {t} : ~Active(links'[i][u])]_vars

(* Whoever allocates more of an invoice leaves it with a status that its   *)
(* links and the red invoices known then bear out, also while links of it  *)
(* are being taken apart.                                                  *)
Justified(i) ==
    LET sum == AllocatedOf(links, i, Targets) IN
    /\ status[i] = "matched" => sum = Effective(i) /\ sum > 0
    /\ status[i] = "partial" => 0 < sum /\ sum < Effective(i)
    /\ status[i] = "unmatched" => sum = 0
    /\ Repeated(links, i) => status[i] = "needs_review"

Adds(i) == \E t \in Targets : Share(links'[i][t]) > Share(links[i][t])

AdditionsAreJustified == [][\A i \in Invoices : Adds(i) => Justified(i)']_vars

(* What was taken apart by hand is only linked again by hand, and the      *)
(* matcher leaves a purchase alone that has any link to the invoice.       *)
DecisionsStand ==
    [][\A i \in Invoices, t \in Targets :
          /\ links[i][t].method = "rejected" => links'[i][t].method \in {"rejected", "manual"}
          /\ links'[i][t].method = "auto" /\ links[i][t].method # "auto" =>
                \A u \in Aliases(t) : links[i][u] = NoLink]_vars

=============================================================================
